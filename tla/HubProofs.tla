------------------------------- MODULE HubProofs -------------------------------
(***************************************************************************)
(* Seven parts of the desktop, for any number of hubs, secrets, requests,  *)
(* processes, frames, lines and characters: the vault, the iTerm child     *)
(* whose answers name no request, the collector's labels, the labels of    *)
(* sessions, the doorbell, the agent log and the input path of its views.  *)
(***************************************************************************)
EXTENDS Vault, ItermBridge, Doorbell, AgentLog, HubFiles, Sampler, InputController,
  FiniteSetTheorems, SequenceTheorems, WellFoundedInduction, TLAPS

(* iTerm: the pipe through the child holds the request that is asked for,  *)
(* once, and nothing when nobody asks.                                     *)

PipeInv ==
  \/ /\ asking = NoRequest
     /\ asked = <<>> /\ lines = <<>> /\ channel = <<>>
  \/ /\ asking \in ItermRequest
     /\ \/ asked = <<asking>> /\ lines = <<>> /\ channel = <<>>
        \/ asked = <<>> /\ lines = <<asking>> /\ channel = <<>> /\ asking \in typed
        \/ asked = <<>> /\ lines = <<>> /\ channel = <<asking>> /\ asking \in typed

ItermInv ==
  /\ told = [r \in ItermRequest |-> told[r]]
  /\ PipeInv /\ AnswerIsOwn

\* At first nobody asks.
LEMMA ItermInvInit == ItermInit => ItermInv
BY ItermAssumption DEF ItermInit, ItermInv, PipeInv, AnswerIsOwn

\* Every step keeps what is in the pipe that of the one who asks.
LEMMA ItermInvStep == ASSUME ItermInv, [ItermNext]_itermVars PROVE ItermInv'
<1> USE DEF ItermInv, PipeInv, AnswerIsOwn
<1>1. CASE UNCHANGED itermVars BY <1>1 DEF itermVars
<1>2. ASSUME NEW r \in ItermRequest, AskIterm(r) PROVE ItermInv'
  <2>1. CASE bridge
    <3>1. asked' = <<r>> /\ asking' = r /\ UNCHANGED <<lines, channel, told, typed>>
          /\ lines = <<>> /\ channel = <<>>
      BY <1>2, <2>1, ItermAssumption DEF AskIterm
    <3> QED BY <3>1
  <2>2. CASE ~bridge
    BY <1>2, <2>2, ItermAssumption DEF AskIterm
  <2> QED BY <2>1, <2>2
<1>3. CASE ChildAnswers
  <2>1. asking \in ItermRequest /\ asked = <<asking>> /\ lines = <<>> /\ channel = <<>>
    BY <1>3, ItermAssumption DEF ChildAnswers
  <2>2. lines' = <<asking>> /\ asked' = <<>> /\ typed' = typed \cup {asking}
    BY <1>3, <2>1 DEF ChildAnswers
  <2> QED BY <1>3, <2>1, <2>2 DEF ChildAnswers
<1>4. CASE ThreadReads
  <2>1. asking \in ItermRequest /\ asked = <<>> /\ lines = <<asking>> /\ channel = <<>>
        /\ asking \in typed
    BY <1>4, ItermAssumption DEF ThreadReads
  <2>2. channel' = <<asking>> /\ lines' = <<>> BY <1>4, <2>1 DEF ThreadReads
  <2> QED BY <1>4, <2>1, <2>2 DEF ThreadReads
<1>5. CASE AnswerIterm
  <2>1. asking \in ItermRequest /\ asked = <<>> /\ lines = <<>> /\ channel = <<asking>>
        /\ asking \in typed
    BY <1>5, ItermAssumption DEF AnswerIterm
  <2>2. channel' = <<>> /\ told' = [told EXCEPT ![asking] = asking]
    BY <1>5, <2>1 DEF AnswerIterm
  <2> QED BY <1>5, <2>1, <2>2 DEF AnswerIterm
<1>6. CASE GiveUpIterm BY <1>6, ItermAssumption DEF GiveUpIterm
<1> QED BY <1>1, <1>2, <1>3, <1>4, <1>5, <1>6 DEF ItermNext

\* A view is shown the screen it asked for and told that its own input was accepted,
\* although answers come late and name no request.
THEOREM OwnAnswers == ItermSpec => []AnswerIsOwn
<1>1. ItermInv => AnswerIsOwn BY DEF ItermInv
<1> QED BY <1>1, ItermInvInit, ItermInvStep, PTL DEF ItermSpec

-------------------------------------------------------------------------------
(* The vault.                                                              *)

Act == {"put", "delete", "release", "open", "started"}
Whole(c) == c = [secrets |-> c.secrets, audit |-> c.audit] /\ c.audit \in Seq(Act)
Releases(c) == Records(c, "release")

\* The audit grows at its end.
LEMMA RecordsGrow ==
  ASSUME NEW c, Whole(c), NEW what \in Act, NEW s
  PROVE  LET d == [secrets |-> s, audit |-> Append(c.audit, what)]
         IN  /\ Whole(d)
             /\ Releases(c) \in Nat
             /\ Releases(d) = IF what = "release" THEN Releases(c) + 1 ELSE Releases(c)
<1> DEFINE d == [secrets |-> s, audit |-> Append(c.audit, what)]
           S == { i \in DOMAIN c.audit : c.audit[i] = "release" }
           T == { i \in DOMAIN d.audit : d.audit[i] = "release" }
           n == Len(c.audit)
<1>1. n \in Nat /\ DOMAIN c.audit = 1..n BY DEF Whole
<1>2. d.audit = Append(c.audit, what) /\ d.audit \in Seq(Act) BY DEF Whole
<1>3. DOMAIN d.audit = (1..n) \cup {n + 1} /\ d.audit[n + 1] = what
      /\ \A i \in 1..n : d.audit[i] = c.audit[i]
  BY <1>1, <1>2 DEF Whole
<1>4. IsFiniteSet(S) /\ n + 1 \notin S
  <2>1. IsFiniteSet(1..n) BY <1>1, FS_Interval
  <2> QED BY <2>1, <1>1, FS_Subset
<1>5. T = IF what = "release" THEN S \cup {n + 1} ELSE S
  BY <1>1, <1>3
<1>6. /\ Cardinality(S) \in Nat
      /\ Cardinality(T) = IF what = "release" THEN Cardinality(S) + 1 ELSE Cardinality(S)
  <2> HIDE DEF S, T, n
  <2> QED BY <1>4, <1>5, FS_AddElement, FS_CardinalityType
<1>7. Whole(d) BY <1>2 DEF Whole
<1> QED BY <1>6, <1>7 DEF Releases, Records

\* What a hub that has the vault does with it, when the file is file and dur on the
\* disk, ack is acknowledged, all may be in the file, and n processes were started.
Resting(v, file, dur, ack, n) ==
  /\ v = [pc |-> v.pc, contents |-> v.contents] /\ v.pc \in {"ready", "launching"}
  /\ Whole(v.contents) /\ v.contents.secrets = ack
  /\ Releases(v.contents) >= n
  /\ v.pc = "launching" =>
       /\ Releases(v.contents) >= n + 1
       /\ Releases(file) >= n + 1 /\ Releases(dur) >= n + 1
Saving(v, file, dur, ack, all, n) ==
  /\ v = [pc |-> v.pc, previous |-> v.previous, op |-> v.op, contents |-> v.contents]
  /\ v.pc \in {"writing", "renaming", "syncing", "saved"}
  /\ Whole(v.previous) /\ Whole(v.contents)
  /\ v.op.do # "open" => v.previous.secrets = ack /\ v.contents.secrets = After(ack, v.op)
  /\ v.contents.secrets \in all
  /\ Releases(v.previous) >= n /\ Releases(v.contents) >= n
  /\ v.op.do = "release" => Releases(v.contents) >= n + 1
  /\ v.pc \in {"syncing", "saved"} => file = v.contents
  /\ v.pc = "saved" => dur = v.contents
Held(v, file, dur, ack, all, n) ==
  Resting(v, file, dur, ack, n) \/ Saving(v, file, dur, ack, all, n)

FileOk(file, all, n) == Whole(file) /\ file.secrets \in all /\ Releases(file) >= n

\* Only the hub that has the lock has anything; the rest is told by the files.
VaultInv ==
  /\ vault = [h \in Hub |-> vault[h]]
  /\ launches \in Nat /\ acked \in allowed
  /\ FileOk(vaultFile, allowed, launches) /\ FileOk(settled, allowed, launches)
  /\ \A h \in Hub : vault[h] \in {Closed, Refused} \/
       (vaultLock = h /\ Held(vault[h], vaultFile, settled, acked, allowed, launches))

\* At first the vault is empty and on the disk.
LEMMA VaultInvInit == VaultInit => VaultInv
<1> SUFFICES ASSUME VaultInit PROVE VaultInv OBVIOUS
<1>1. Whole(Empty) BY DEF Whole, Empty
<1>2. Releases(Empty) \in Nat BY <1>1, RecordsGrow DEF Act
<1> QED BY <1>1, <1>2 DEF VaultInit, VaultInv, FileOk, Empty

\* The hub that has the vault goes on; for all others nothing changes.
LEMMA HolderMoves ==
  ASSUME VaultInv, NEW h \in Hub, vaultLock = h \/ vaultLock \notin Hub, NEW v,
         vault' = [vault EXCEPT ![h] = v],
         \/ v \in {Closed, Refused}
         \/ vaultLock' = h /\ Held(v, vaultFile', settled', acked', allowed', launches'),
         launches' \in Nat /\ acked' \in allowed',
         FileOk(vaultFile', allowed', launches'), FileOk(settled', allowed', launches')
  PROVE  VaultInv'
<1>1. vault' = [g \in Hub |-> vault'[g]] BY DEF VaultInv
<1>2. ASSUME NEW g \in Hub
      PROVE  \/ vault'[g] \in {Closed, Refused}
             \/ /\ vaultLock' = g
                /\ Held(vault'[g], vaultFile', settled', acked', allowed', launches')
  <2>1. CASE g = h
    <3>1. vault'[g] = v BY <2>1 DEF VaultInv
    <3> QED BY <3>1, <2>1
  <2>2. CASE g # h
    <3>1. vault'[g] = vault[g] /\ vaultLock # g BY <2>2 DEF VaultInv
    <3> QED BY <3>1 DEF VaultInv
  <2> QED BY <2>1, <2>2
<1> QED BY <1>1, <1>2 DEF VaultInv

\* What a change makes: event() and update().
LEMMA Updating ==
  ASSUME VaultInv, NEW n \in Nat, FileOk(vaultFile, allowed, n), FileOk(settled, allowed, n),
         NEW c, Whole(c), Releases(c) >= n, NEW op, op.do \in Act,
         op.do # "open" => c.secrets = acked,
         op.do = "open" => c.secrets \in allowed,
         NEW v,
         v = [pc |-> "writing", previous |-> c, op |-> op,
              contents |-> [secrets |-> After(c.secrets, op), audit |-> Append(c.audit, op.do)]],
         NEW all, all = allowed \cup {After(acked, op)}
  PROVE  /\ Held(v, vaultFile, settled, acked, all, n)
         /\ acked \in all
         /\ FileOk(vaultFile, all, n) /\ FileOk(settled, all, n)
<1>2. /\ Whole(v.contents) /\ Releases(c) \in Nat
      /\ Releases(v.contents) = IF op.do = "release" THEN Releases(c) + 1 ELSE Releases(c)
  BY RecordsGrow
<1>3. v.contents.secrets = After(c.secrets, op) OBVIOUS
<1>4. v.contents.secrets \in all
  <2>1. CASE op.do = "open" BY <2>1, <1>3 DEF After
  <2>2. CASE op.do # "open" BY <2>2, <1>3
  <2> QED BY <2>1, <2>2
<1>5. Saving(v, vaultFile, settled, acked, all, n)
  BY <1>2, <1>3, <1>4 DEF Saving
<1> QED BY <1>5 DEF Held, VaultInv, FileOk

\* Every step keeps memory, file and disk in agreement, or one update apart.
LEMMA VaultInvStep == ASSUME VaultInv, [VaultNext]_vaultVars PROVE VaultInv'
<1> DEFINE H(h) == Held(vault[h], vaultFile, settled, acked, allowed, launches)
<1>0. ASSUME NEW h \in Hub, vault[h].pc \notin {"closed", "none"}
      PROVE  vaultLock = h /\ H(h)
  BY <1>0 DEF VaultInv, Closed, Refused
<1>1. CASE UNCHANGED vaultVars
  BY <1>1 DEF vaultVars, vaultFiles, vaultHistory, VaultInv
<1>5. FileOk(vaultFile, allowed, launches) /\ FileOk(settled, allowed, launches)
      /\ launches \in Nat
  BY DEF VaultInv
<1>2. ASSUME NEW h \in Hub, OpenVault(h) PROVE VaultInv'
  <2>1. CASE vaultLock # Unlocked \/ Full(vaultFile)
    <3>1. /\ vault' = [vault EXCEPT ![h] = Refused]
          /\ UNCHANGED <<vaultLock, allowed, vaultFile, settled, launches, acked>>
      BY <1>2, <2>1 DEF OpenVault, vaultFiles
    <3> QED BY <3>1 DEF VaultInv
  <2>2. CASE vaultLock = Unlocked /\ ~Full(vaultFile)
    <3> DEFINE v == [pc |-> "writing", previous |-> vaultFile, op |-> Opening,
                     contents |-> [secrets |-> After(vaultFile.secrets, Opening),
                                   audit |-> Append(vaultFile.audit, Opening.do)]]
    <3>1. /\ vaultLock' = h /\ vault' = [vault EXCEPT ![h] = v]
          /\ allowed' = allowed \cup {After(acked, Opening)}
          /\ UNCHANGED <<vaultFile, settled, launches, acked>>
      BY <1>2, <2>2 DEF OpenVault, Update, vaultFiles
    <3>2. /\ Whole(vaultFile) /\ Releases(vaultFile) >= launches /\ launches \in Nat
          /\ vaultFile.secrets \in allowed
      BY DEF VaultInv, FileOk
    <3>3. Opening.do = "open" /\ Opening.do \in Act BY DEF Opening, Act
    <3>4. /\ Held(v, vaultFile, settled, acked, allowed', launches)
          /\ acked \in allowed'
          /\ FileOk(vaultFile, allowed', launches) /\ FileOk(settled, allowed', launches)
      BY <3>1, <3>2, <3>3, <1>5, Updating
    <3>5. vaultLock \notin Hub BY <2>2, VaultAssumption
    <3> HIDE DEF v
    <3> QED BY <3>1, <3>2, <3>4, <3>5, HolderMoves
  <2> QED BY <2>1, <2>2
<1>3. ASSUME NEW h \in Hub, NEW op \in Op, Change(h, op) PROVE VaultInv'
  <2> DEFINE c == vault[h].contents
             v == [pc |-> "writing", previous |-> c, op |-> op,
                   contents |-> [secrets |-> After(c.secrets, op),
                                 audit |-> Append(c.audit, op.do)]]
  <2>1. /\ vault[h].pc = "ready" /\ vault' = [vault EXCEPT ![h] = v]
        /\ allowed' = allowed \cup {After(acked, op)}
        /\ UNCHANGED <<vaultLock, vaultFile, settled, launches, acked>>
    BY <1>3 DEF Change, Update, VaultAt, vaultFiles
  <2>2. vaultLock = h /\ Whole(c) /\ c.secrets = acked /\ Releases(c) >= launches
    BY <2>1, <1>0 DEF Held, Resting, Saving
  <2>3. op.do \in Act /\ op.do # "open" BY DEF Op, Act
  <2>4. /\ Held(v, vaultFile, settled, acked, allowed', launches)
        /\ acked \in allowed'
        /\ FileOk(vaultFile, allowed', launches) /\ FileOk(settled, allowed', launches)
    BY <2>1, <2>2, <2>3, <1>5, Updating
  <2>5. launches \in Nat BY DEF VaultInv
  <2> HIDE DEF v
  <2> QED BY <2>1, <2>2, <2>4, <2>5, HolderMoves
<1>4. ASSUME NEW h \in Hub, NEW v, vaultLock = h,
             vault' = [vault EXCEPT ![h] = v],
             UNCHANGED <<vaultLock, acked, allowed, launches>>,
             Held(v, vaultFile', settled', acked, allowed, launches),
             FileOk(vaultFile', allowed, launches), FileOk(settled', allowed, launches)
      PROVE  VaultInv'
  <2>1. launches \in Nat /\ acked \in allowed BY DEF VaultInv
  <2> QED BY <1>4, <2>1, HolderMoves
<1>6. ASSUME NEW h \in Hub, VaultAt(h, "writing") \/ VaultAt(h, "renaming")
                              \/ VaultAt(h, "syncing") \/ VaultAt(h, "saved")
      PROVE  /\ vaultLock = h
             /\ Saving(vault[h], vaultFile, settled, acked, allowed, launches)
             /\ \A pc : [vault[h] EXCEPT !.pc = pc] =
                  [pc |-> pc, previous |-> vault[h].previous, op |-> vault[h].op,
                   contents |-> vault[h].contents]
  <2>1. vaultLock = h /\ Saving(vault[h], vaultFile, settled, acked, allowed, launches)
    BY <1>6, <1>0 DEF VaultAt, Held, Resting
  <2>2. ASSUME NEW pc
        PROVE  [vault[h] EXCEPT !.pc = pc] =
                 [pc |-> pc, previous |-> vault[h].previous, op |-> vault[h].op,
                  contents |-> vault[h].contents]
    <3> DEFINE V == vault[h]
    <3>1. V = [pc |-> V.pc, previous |-> V.previous, op |-> V.op, contents |-> V.contents]
      BY <2>1 DEF Saving
    <3> HIDE DEF V
    <3>2. [V EXCEPT !.pc = pc] =
            [pc |-> pc, previous |-> V.previous, op |-> V.op, contents |-> V.contents]
      BY <3>1
    <3> QED BY <3>2 DEF V
  <2> QED BY <2>1, <2>2
<1>7. ASSUME NEW h \in Hub, WriteTemporary(h) PROVE VaultInv'
  <2> DEFINE v == [pc |-> "renaming", previous |-> vault[h].previous, op |-> vault[h].op,
                   contents |-> vault[h].contents]
  <2>1. /\ vaultLock = h /\ vault' = [vault EXCEPT ![h] = v]
        /\ UNCHANGED <<vaultLock, acked, allowed, launches, vaultFile, settled>>
        /\ Saving(vault[h], vaultFile, settled, acked, allowed, launches)
    BY <1>7, <1>6 DEF WriteTemporary, Moves, vaultFiles, vaultHistory
  <2>2. Held(v, vaultFile, settled, acked, allowed, launches)
    BY <2>1 DEF Held, Saving
  <2> HIDE DEF v
  <2> QED BY <2>1, <2>2, <1>4, <1>5
<1>8. ASSUME NEW h \in Hub, RenameVault(h) PROVE VaultInv'
  <2> DEFINE v == [pc |-> "syncing", previous |-> vault[h].previous, op |-> vault[h].op,
                   contents |-> vault[h].contents]
  <2>1. /\ vaultLock = h /\ vault' = [vault EXCEPT ![h] = v]
        /\ UNCHANGED <<vaultLock, acked, allowed, launches, settled>>
        /\ vaultFile' = vault[h].contents
        /\ Saving(vault[h], vaultFile, settled, acked, allowed, launches)
    BY <1>8, <1>6 DEF RenameVault, Moves, vaultHistory
  <2>2. Held(v, vaultFile', settled, acked, allowed, launches)
    BY <2>1 DEF Held, Saving
  <2>3. FileOk(vaultFile', allowed, launches) BY <2>1 DEF Saving, FileOk
  <2> HIDE DEF v
  <2> QED BY <2>1, <2>2, <2>3, <1>4, <1>5
<1>9. ASSUME NEW h \in Hub, SyncDirectory(h) PROVE VaultInv'
  <2> DEFINE v == [pc |-> "saved", previous |-> vault[h].previous, op |-> vault[h].op,
                   contents |-> vault[h].contents]
  <2>1. /\ vaultLock = h /\ vault[h].pc = "syncing" /\ vault' = [vault EXCEPT ![h] = v]
        /\ UNCHANGED <<vaultLock, acked, allowed, launches, vaultFile>>
        /\ settled' = vaultFile
        /\ Saving(vault[h], vaultFile, settled, acked, allowed, launches)
    BY <1>9, <1>6 DEF SyncDirectory, Moves, VaultAt, vaultHistory
  <2>2. Held(v, vaultFile, settled', acked, allowed, launches)
    BY <2>1 DEF Held, Saving
  <2> HIDE DEF v
  <2> QED BY <2>1, <2>2, <1>4, <1>5
<1>10. ASSUME NEW h \in Hub, SaveFails(h) PROVE VaultInv'
  <2>1. /\ vaultLock = h
        /\ Saving(vault[h], vaultFile, settled, acked, allowed, launches)
        /\ UNCHANGED <<acked, allowed, launches, vaultFile, settled>>
    BY <1>10, <1>6 DEF SaveFails, VaultAt, vaultFiles, vaultHistory
  <2>2. CASE vault[h].op.do = "open"
    <3>1. vault' = [vault EXCEPT ![h] = Refused] BY <1>10, <2>2 DEF SaveFails
    <3>2. acked \in allowed BY DEF VaultInv
    <3> QED BY <3>1, <3>2, <2>1, <1>5, HolderMoves
  <2>3. CASE vault[h].op.do # "open"
    <3> DEFINE v == [pc |-> "ready", contents |-> vault[h].previous]
    <3>1. vault' = [vault EXCEPT ![h] = v] /\ UNCHANGED vaultLock
      BY <1>10, <2>3 DEF SaveFails, Ready
    <3>2. Held(v, vaultFile, settled, acked, allowed, launches)
      BY <2>1, <2>3 DEF Held, Saving, Resting
    <3> HIDE DEF v
    <3> QED BY <3>1, <3>2, <2>1, <1>4, <1>5
  <2> QED BY <2>2, <2>3
<1>11. ASSUME NEW h \in Hub, Acknowledge(h) PROVE VaultInv'
  <2> DEFINE c == vault[h].contents
             op == vault[h].op
             v == [pc |-> IF op.do = "release" THEN "launching" ELSE "ready", contents |-> c]
  <2>1. /\ vaultLock = h /\ vault[h].pc = "saved" /\ vault' = [vault EXCEPT ![h] = v]
        /\ acked' = IF op.do = "open" THEN c.secrets ELSE After(acked, op)
        /\ allowed' = {acked'}
        /\ UNCHANGED <<vaultLock, launches, vaultFile, settled>>
        /\ Saving(vault[h], vaultFile, settled, acked, allowed, launches)
    BY <1>11, <1>6 DEF Acknowledge, VaultAt, Ready, vaultFiles
  <2>2. vaultFile = c /\ settled = c /\ acked' = c.secrets /\ Whole(c)
        /\ Releases(c) >= launches /\ (op.do = "release" => Releases(c) >= launches + 1)
    BY <2>1 DEF Saving
  <2>3. Held(v, vaultFile, settled, acked', allowed', launches)
    BY <2>1, <2>2 DEF Held, Resting
  <2>4. FileOk(vaultFile, allowed', launches) /\ FileOk(settled, allowed', launches)
    BY <2>1, <2>2 DEF FileOk
  <2> HIDE DEF v
  <2> QED BY <2>1, <2>2, <2>3, <2>4, <1>5, HolderMoves
<1>12. ASSUME NEW h \in Hub, Launch(h) PROVE VaultInv'
  <2> DEFINE c == vault[h].contents
             n == launches + 1
             v == [pc |-> "ready", contents |-> c]
             w == [pc |-> "writing", previous |-> c, op |-> Started,
                   contents |-> [secrets |-> After(c.secrets, Started),
                                 audit |-> Append(c.audit, Started.do)]]
  <2>1. /\ vaultLock = h /\ vault[h].pc = "launching"
        /\ Resting(vault[h], vaultFile, settled, acked, launches)
        /\ UNCHANGED <<vaultLock, acked, vaultFile, settled>>
        /\ launches' = n
    BY <1>12, <1>0 DEF Launch, VaultAt, Held, Resting, Saving, vaultFiles
  <2>2. /\ n \in Nat /\ Whole(c) /\ c.secrets = acked /\ Releases(c) >= n
        /\ FileOk(vaultFile, allowed, n) /\ FileOk(settled, allowed, n) /\ acked \in allowed
    BY <2>1, <1>5 DEF Resting, FileOk, VaultInv
  <2>3. CASE vault' = [vault EXCEPT ![h] = v] /\ UNCHANGED allowed
    <3>1. Held(v, vaultFile, settled, acked, allowed, n) BY <2>2 DEF Held, Resting
    <3> HIDE DEF v, n
    <3> QED BY <3>1, <2>1, <2>2, <2>3, HolderMoves
  <2>4. CASE vault' = [vault EXCEPT ![h] = w] /\ allowed' = allowed \cup {After(acked, Started)}
    <3>1. Started.do \in Act /\ Started.do # "open" BY DEF Started, Act
    <3>2. /\ Held(w, vaultFile, settled, acked, allowed', n)
          /\ acked \in allowed'
          /\ FileOk(vaultFile, allowed', n) /\ FileOk(settled, allowed', n)
      <4> HIDE DEF n
      <4> QED BY <2>2, <2>4, <3>1, Updating
    <3> HIDE DEF w, n
    <3> QED BY <3>2, <2>1, <2>2, <2>4, HolderMoves
  <2> QED BY <1>12, <2>3, <2>4 DEF Launch, Update, Ready
<1>13. ASSUME NEW h \in Hub, LaunchFails(h) PROVE VaultInv'
  <2> DEFINE v == [pc |-> "ready", contents |-> vault[h].contents]
  <2>1. /\ vaultLock = h /\ vault' = [vault EXCEPT ![h] = v]
        /\ Resting(vault[h], vaultFile, settled, acked, launches)
        /\ UNCHANGED <<vaultLock, acked, allowed, launches, vaultFile, settled>>
    BY <1>13, <1>0 DEF LaunchFails, VaultAt, Ready, Held, Resting, Saving, vaultFiles, vaultHistory
  <2>2. Held(v, vaultFile, settled, acked, allowed, launches)
    BY <2>1 DEF Held, Resting
  <2> HIDE DEF v
  <2> QED BY <2>1, <2>2, <1>4, <1>5
<1>14. ASSUME NEW h \in Hub, VaultDies(h) PROVE VaultInv'
  BY <1>14 DEF VaultDies, VaultInv, vaultFiles, vaultHistory
<1>15. CASE VaultSettles
  <2>1. /\ settled' = vaultFile
        /\ UNCHANGED <<vaultFile, vaultLock, vault, launches, acked, allowed>>
    BY <1>15 DEF VaultSettles, vaultHistory
  <2>2. ASSUME NEW h \in Hub, H(h)
        PROVE  Held(vault[h], vaultFile, vaultFile, acked, allowed, launches)
    BY <2>2 DEF Held, Resting, Saving
  <2> QED BY <2>1, <2>2 DEF VaultInv
<1>16. CASE VaultPowerLoss
  BY <1>16 DEF VaultPowerLoss, VaultInv, vaultHistory
<1> QED
  BY <1>1, <1>2, <1>3, <1>7, <1>8, <1>9, <1>10, <1>11, <1>12, <1>13, <1>14, <1>15, <1>16
    DEF VaultNext

\* Memory, file and disk of the vault (vault.rs update and save) are one update apart
\* at most, in every reachable state.
THEOREM VaultHolds == VaultSpec => []VaultInv
BY VaultInvInit, VaultInvStep, PTL DEF VaultSpec

\* No process was given secrets without a record of it that a power failure leaves
\* ("Audit records disclosure", vault.rs:168).
THEOREM Audited == VaultSpec => []DisclosedIsAudited
<1>1. VaultInv => DisclosedIsAudited
  BY RecordsGrow DEF VaultInv, FileOk, DisclosedIsAudited, Releases, Act
<1> QED BY <1>1, VaultHolds, PTL

\* What was acknowledged is what the hub goes on with and what a power failure leaves,
\* whatever failed or died since (save and update, vault.rs).
THEOREM Acknowledgements == VaultSpec => []AcknowledgedIsKept
<1>1. VaultInv => AcknowledgedIsKept
  BY DEF VaultInv, FileOk, AcknowledgedIsKept, VaultAt, Held, Resting, Saving, Closed, Refused
<1> QED BY <1>1, VaultHolds, PTL

-------------------------------------------------------------------------------
(* The collector: a label is that of the process the pid was seen with, if *)
(* that one is still there, because starts are never used again.           *)

PidMap == [Pid -> Nat]
SampleSet == [Pid -> [start : Nat, service : Nat, ports : Nat]]

\* What is said of the process that started then is true of the one there is now.
Told(now, n, start, what) == start <= n /\ (now # 0 /\ start = now => what \in {0, now})

SamplerTypes ==
  /\ starts \in Nat /\ proc \in PidMap
  /\ collector.seen \in PidMap
  /\ bound \in [jobs : PidMap, ports : PidMap, starts : PidMap]
  /\ pipe \in Seq(SampleSet) /\ shown \in SampleSet

\* What the collector has seen and found out, and what a sample says.
Found(p) ==
  /\ proc[p] <= starts /\ collector.seen[p] <= starts
  /\ Told(proc[p], starts, bound.starts[p], bound.jobs[p])
  /\ Told(proc[p], starts, bound.starts[p], bound.ports[p])
  /\ collector.pc = "discovering ports" =>
       Told(proc[p], starts, collector.seen[p], bound.jobs[p])
Says(s, p) ==
  /\ Told(proc[p], starts, s[p].start, s[p].service)
  /\ Told(proc[p], starts, s[p].start, s[p].ports)

SamplerInv ==
  /\ SamplerTypes
  /\ collector = [pc |-> collector.pc, parent |-> collector.parent, seen |-> collector.seen,
                  first |-> collector.first]
  /\ \A p \in Pid : Found(p) /\ Says(shown, p) /\ \A i \in DOMAIN pipe : Says(pipe[i], p)

\* A process that starts is none that anything was said of.
LEMMA ToldLater ==
  ASSUME NEW now \in Nat, NEW n \in Nat, NEW start \in Nat, NEW what \in Nat,
         NEW later \in Nat, NEW m \in Nat, n <= m, later \in {now, 0} \/ later > n,
         Told(now, n, start, what)
  PROVE  Told(later, m, start, what)
BY DEF Told

\* Whatever processes start or end, what was found out and said stays true.
LEMMA WorldMoves ==
  ASSUME SamplerInv, NEW p \in Pid, starts' \in Nat, starts <= starts',
         NEW now \in Nat, now \in {proc[p], 0} \/ now > starts, now <= starts',
         proc' = [proc EXCEPT ![p] = now], UNCHANGED <<collector, bound, pipe, shown>>
  PROVE  SamplerInv'
<1>1. SamplerTypes' BY DEF SamplerInv, SamplerTypes, PidMap
<1>2. \A q \in Pid : /\ proc'[q] \in {proc[q], 0} \/ proc'[q] > starts
                     /\ proc[q] \in Nat /\ proc'[q] \in Nat /\ proc'[q] <= starts'
  <2>1. proc \in PidMap /\ starts \in Nat BY DEF SamplerInv, SamplerTypes
  <2>2. \A q \in Pid : proc[q] <= starts BY DEF SamplerInv, Found
  <2> QED BY <2>1, <2>2 DEF PidMap
<1>3. ASSUME NEW q \in Pid, NEW start \in Nat, NEW what \in Nat,
             Told(proc[q], starts, start, what)
      PROVE  Told(proc'[q], starts', start, what)
  BY <1>2, <1>3, ToldLater DEF SamplerInv, SamplerTypes
<1>4. ASSUME NEW q \in Pid PROVE Found(q)'
  <2>1. /\ collector.seen[q] \in Nat /\ bound.starts[q] \in Nat
        /\ bound.jobs[q] \in Nat /\ bound.ports[q] \in Nat /\ starts \in Nat
    BY DEF SamplerInv, SamplerTypes, PidMap
  <2>2. Found(q) BY DEF SamplerInv
  <2>3. proc'[q] <= starts' /\ collector.seen[q] <= starts'
    <3>1. collector.seen[q] <= starts BY <2>2 DEF Found
    <3> QED BY <3>1, <2>1, <1>2
  <2>4. /\ Told(proc'[q], starts', bound.starts[q], bound.jobs[q])
        /\ Told(proc'[q], starts', bound.starts[q], bound.ports[q])
        /\ collector.pc = "discovering ports" =>
             Told(proc'[q], starts', collector.seen[q], bound.jobs[q])
    BY <2>1, <2>2, <1>3 DEF Found
  <2>5. collector' = collector /\ bound' = bound OBVIOUS
  <2> QED BY <2>3, <2>4, <2>5 DEF Found
<1>5. ASSUME NEW q \in Pid, NEW s \in SampleSet, Says(s, q)
      PROVE  /\ Told(proc'[q], starts', s[q].start, s[q].service)
             /\ Told(proc'[q], starts', s[q].start, s[q].ports)
  <2>1. s[q].start \in Nat /\ s[q].service \in Nat /\ s[q].ports \in Nat
    BY DEF SampleSet
  <2> QED BY <2>1, <1>3, <1>5 DEF Says
<1>6. ASSUME NEW q \in Pid PROVE Says(shown, q)' /\ \A i \in DOMAIN pipe : Says(pipe[i], q)'
  <2>1. shown \in SampleSet /\ \A i \in DOMAIN pipe : pipe[i] \in SampleSet
    BY DEF SamplerInv, SamplerTypes
  <2> QED BY <2>1, <1>5 DEF Says, SamplerInv
<1> QED BY <1>1, <1>4, <1>6 DEF SamplerInv

\* At first nothing was seen.
LEMMA SamplerInvInit == SamplerInit => SamplerInv
BY DEF SamplerInit, SamplerInv, SamplerTypes, Found, Says, Told, PidMap, SampleSet,
       Unbound, NoProcess, NoSample, Nobody

\* Found and Says do not tell states apart that agree on what they are about.
LEMMA SamplerInvStep == ASSUME SamplerInv, [SamplerNext]_samplerVars PROVE SamplerInv'
<1> USE DEF machine
<1> DEFINE Still == /\ UNCHANGED <<proc, starts>>
           Kept == /\ Still /\ UNCHANGED bound /\ collector'.seen = collector.seen
                   /\ collector'.pc = "discovering ports" => collector.pc = "discovering ports"
<1>0. ASSUME Kept, \A p \in Pid : Found(p) PROVE \A p \in Pid : Found(p)'
  BY <1>0 DEF Found
<1>1. ASSUME Still, NEW p \in Pid, NEW s, Says(s, p)
      PROVE  /\ Told(proc'[p], starts', s[p].start, s[p].service)
             /\ Told(proc'[p], starts', s[p].start, s[p].ports)
  BY <1>1 DEF Says
<1>2. ASSUME Still, UNCHANGED <<pipe, shown>>
      PROVE  \A p \in Pid : Says(shown, p)' /\ \A i \in DOMAIN pipe' : Says(pipe[i], p)'
  BY <1>2, <1>1 DEF SamplerInv, Says
<1>17. <<>> \in Seq(SampleSet) /\ DOMAIN <<>> = {} BY EmptySeq
\* Only the collector's place changes.
<1>3. ASSUME NEW pc, CollectorGoes(pc), pc # "discovering ports",
             Still, UNCHANGED <<bound, pipe, shown>>
      PROVE  SamplerInv'
  <2>1. collector' = [pc |-> pc, parent |-> collector.parent, seen |-> collector.seen,
                      first |-> collector.first]
    BY <1>3 DEF SamplerInv, CollectorGoes
  <2>2. Kept BY <2>1, <1>3
  <2> QED BY <2>1, <2>2, <1>3, <1>0, <1>2 DEF SamplerInv, SamplerTypes
<1>4. CASE UNCHANGED samplerVars
  <2>1. Kept /\ UNCHANGED <<pipe, shown, collector>> BY <1>4 DEF samplerVars
  <2> QED BY <2>1, <1>0, <1>2 DEF SamplerInv, SamplerTypes
<1>5. ASSUME NEW p \in Pid, ProcessStarts(p) PROVE SamplerInv'
  <2>1. starts \in Nat BY DEF SamplerInv, SamplerTypes
  <2>2. starts' = starts + 1 /\ proc' = [proc EXCEPT ![p] = starts + 1]
        /\ UNCHANGED <<collector, bound, pipe, shown>>
    BY <1>5 DEF ProcessStarts
  <2>3. PICK now \in Nat : now = starts + 1 BY <2>1
  <2>4. proc' = [proc EXCEPT ![p] = now] /\ starts' = now BY <2>2, <2>3
  <2>5. starts' \in Nat /\ starts <= starts' /\ now > starts /\ now <= starts'
    BY <2>1, <2>3, <2>4
  <2> QED BY <2>2, <2>4, <2>5, WorldMoves
<1>6. ASSUME NEW p \in Pid, ProcessEnds(p) PROVE SamplerInv'
  <2>1. starts \in Nat BY DEF SamplerInv, SamplerTypes
  <2>2. starts' = starts /\ proc' = [proc EXCEPT ![p] = 0]
        /\ UNCHANGED <<collector, bound, pipe, shown>>
    BY <1>6 DEF ProcessEnds, Nobody
  <2>3. PICK now \in Nat : now = 0 OBVIOUS
  <2>4. proc' = [proc EXCEPT ![p] = now] /\ now \in {proc[p], 0} BY <2>2, <2>3
  <2>5. starts' \in Nat /\ starts <= starts' /\ now <= starts' BY <2>1, <2>2, <2>3
  <2> QED BY <2>2, <2>4, <2>5, WorldMoves
<1>7. CASE ClockChanges
  <2>1. Kept /\ UNCHANGED <<pipe, shown, collector>> BY <1>7 DEF ClockChanges
  <2> QED BY <2>1, <1>0, <1>2 DEF SamplerInv, SamplerTypes
<1>8. CASE HubEnds
  <2>1. Kept /\ UNCHANGED <<shown, collector>> /\ pipe' = <<>> BY <1>8 DEF HubEnds
  <2>2. \A p \in Pid : Says(shown, p)' BY <2>1, <1>1 DEF Says, SamplerInv
  <2>3. pipe' \in Seq(SampleSet) /\ DOMAIN pipe' = {} BY <2>1, <1>17
  <2>4. SamplerTypes' BY <2>1, <2>3 DEF SamplerInv, SamplerTypes
  <2> QED BY <2>1, <2>2, <2>3, <2>4, <1>0 DEF SamplerInv
<1>9. CASE LookAtParent
  <2>1. collector' = [pc |-> "ticking", parent |-> hubUp, seen |-> collector.seen,
                      first |-> collector.first]
    BY <1>9 DEF LookAtParent, SamplerInv
  <2>2. Kept /\ UNCHANGED <<pipe, shown>> BY <1>9, <2>1 DEF LookAtParent
  <2> QED BY <2>1, <2>2, <1>0, <1>2 DEF SamplerInv, SamplerTypes
<1>10. CASE Tick
  <2>1. CASE CollectorGoes("ended") BY <2>1, <1>10, <1>3 DEF Tick
  <2>2. ASSUME NEW pc \in {"discovering", "sampling"},
               collector' = [pc |-> pc, parent |-> collector.parent, seen |-> proc,
                             first |-> FALSE]
        PROVE  SamplerInv'
    <3>1. Still /\ UNCHANGED <<bound, pipe, shown>> BY <1>10 DEF Tick
    <3>2. \A p \in Pid : Found(p)' BY <3>1, <2>2 DEF Found, SamplerInv
    <3> QED BY <2>2, <3>1, <3>2, <1>2 DEF SamplerInv, SamplerTypes
  <2> QED BY <1>10, <2>1, <2>2 DEF Tick
<1>11. CASE DiscoverJobs
  <2>1. PICK j \in {proc, NoProcess} : bound' = [bound EXCEPT !.jobs = j]
    BY <1>11 DEF DiscoverJobs
  <2>2. /\ bound' = [jobs |-> j, ports |-> bound.ports, starts |-> bound.starts]
        /\ j \in PidMap /\ \A p \in Pid : j[p] \in {0, proc[p]}
    <3>1. bound \in [jobs : PidMap, ports : PidMap, starts : PidMap] /\ proc \in PidMap
      BY DEF SamplerInv, SamplerTypes
    <3>2. bound' = [jobs |-> j, ports |-> bound.ports, starts |-> bound.starts]
      BY <3>1, <2>1
    <3>3. j \in PidMap /\ \A p \in Pid : j[p] \in {0, proc[p]}
      BY <3>1, <2>1 DEF PidMap, NoProcess, Nobody
    <3> QED BY <3>2, <3>3
  <2>3. collector' = [pc |-> "discovering ports", parent |-> collector.parent,
                      seen |-> collector.seen, first |-> collector.first]
    BY <1>11 DEF DiscoverJobs, CollectorGoes, SamplerInv
  <2>4. Still /\ UNCHANGED <<pipe, shown>> BY <1>11 DEF DiscoverJobs
  <2>5. \A p \in Pid : Found(p)' BY <2>2, <2>3, <2>4 DEF Found, Told, SamplerInv
  <2> QED BY <2>2, <2>3, <2>4, <2>5, <1>2 DEF SamplerInv, SamplerTypes
<1>12. CASE DiscoverPorts
  <2>1. PICK j \in {proc, NoProcess} :
          bound' = [bound EXCEPT !.ports = j, !.starts = collector.seen]
    BY <1>12 DEF DiscoverPorts
  <2>2. /\ bound' = [jobs |-> bound.jobs, ports |-> j, starts |-> collector.seen]
        /\ j \in PidMap /\ \A p \in Pid : j[p] \in {0, proc[p]}
    <3>1. bound \in [jobs : PidMap, ports : PidMap, starts : PidMap] /\ proc \in PidMap
      BY DEF SamplerInv, SamplerTypes
    <3>2. bound' = [jobs |-> bound.jobs, ports |-> j, starts |-> collector.seen]
      BY <3>1, <2>1
    <3>3. j \in PidMap /\ \A p \in Pid : j[p] \in {0, proc[p]}
      BY <3>1, <2>1 DEF PidMap, NoProcess, Nobody
    <3> QED BY <3>2, <3>3
  <2>3. /\ collector.pc = "discovering ports"
        /\ collector' = [pc |-> "sampling", parent |-> collector.parent,
                         seen |-> collector.seen, first |-> collector.first]
    BY <1>12 DEF DiscoverPorts, CollectorAt, CollectorGoes, SamplerInv
  <2>4. Still /\ UNCHANGED <<pipe, shown>> BY <1>12 DEF DiscoverPorts
  <2>5. \A p \in Pid : Found(p)' BY <2>2, <2>3, <2>4 DEF Found, Told, SamplerInv
  <2> QED BY <2>2, <2>3, <2>4, <2>5, <1>2 DEF SamplerInv, SamplerTypes
<1>13. CASE Sample
  BY <1>13, <1>3 DEF Sample
<1>14. CASE WriteSample
  <2>1. CASE CollectorGoes("ended") /\ UNCHANGED pipe
    BY <2>1, <1>14, <1>3 DEF WriteSample
  <2>2. CASE pipe' = <<[p \in Pid |-> Sampled(p)]>> /\ CollectorGoes("ticking")
    <3> DEFINE s == [p \in Pid |-> Sampled(p)]
    <3>1. collector' = [pc |-> "ticking", parent |-> collector.parent,
                        seen |-> collector.seen, first |-> collector.first]
      BY <2>2 DEF CollectorGoes, SamplerInv
    <3>2. Still /\ UNCHANGED <<bound, shown>> BY <1>14 DEF WriteSample
    <3>3. ASSUME NEW p \in Pid
          PROVE  /\ Sampled(p) \in [start : Nat, service : Nat, ports : Nat]
                 /\ Sampled(p).start = collector.seen[p]
                 /\ \/ Sampled(p).service = 0 /\ Sampled(p).ports = 0
                    \/ /\ collector.seen[p] = bound.starts[p]
                       /\ Sampled(p).service = bound.jobs[p]
                       /\ Sampled(p).ports = bound.ports[p]
      BY DEF Sampled, Nobody, SamplerInv, SamplerTypes, PidMap
    <3>4. s \in SampleSet BY <3>3 DEF SampleSet
    <3>5. \A p \in Pid : Says(s, p) BY <3>3 DEF Says, Told, SamplerInv, Found
    <3>6. Kept BY <3>1, <3>2
    <3>7. pipe' = <<s>> BY <2>2
    <3> HIDE DEF s
    <3>8. pipe' \in Seq(SampleSet) /\ \A i \in DOMAIN pipe' : pipe'[i] = s
      BY <3>7, <3>4
    <3>9. \A p \in Pid : Says(shown, p)' /\ \A i \in DOMAIN pipe' : Says(pipe[i], p)'
      BY <3>2, <3>5, <3>8, <1>1 DEF Says, SamplerInv
    <3>10. SamplerTypes' BY <3>1, <3>2, <3>8 DEF SamplerInv, SamplerTypes
    <3>11. \A p \in Pid : Found(p)' BY <3>6, <1>0 DEF SamplerInv
    <3> QED BY <3>1, <3>9, <3>10, <3>11 DEF SamplerInv
  <2> QED BY <1>14, <2>1, <2>2 DEF WriteSample
<1>15. CASE CollectorDies
  BY <1>15, <1>3 DEF CollectorDies
<1>16. CASE HubTakes
  <2>1. /\ pipe # <<>> /\ shown' = Head(pipe) /\ pipe' = <<>>
        /\ Kept /\ UNCHANGED collector
    BY <1>16 DEF HubTakes
  <2>2. 1 \in DOMAIN pipe /\ shown' = pipe[1] /\ pipe[1] \in SampleSet
    <3>1. pipe \in Seq(SampleSet) BY DEF SamplerInv, SamplerTypes
    <3>2. pipe # <<>> /\ shown' = Head(pipe) BY <2>1
    <3>3. Len(pipe) \in Nat \ {0} BY <3>1, <3>2, EmptySeq
    <3>4. DOMAIN pipe = 1..Len(pipe) /\ pipe \in [1..Len(pipe) -> SampleSet]
      BY <3>1, LenProperties
    <3>5. 1 \in DOMAIN pipe BY <3>3, <3>4
    <3>6. Head(pipe) = pipe[1] BY <3>1, <3>3
    <3> QED BY <3>2, <3>4, <3>5, <3>6
  <2>3. \A p \in Pid : Says(shown, p)' BY <2>1, <2>2, <1>1 DEF Says, SamplerInv
  <2>4. pipe' \in Seq(SampleSet) /\ DOMAIN pipe' = {} BY <2>1, <1>17
  <2>5. SamplerTypes' BY <2>1, <2>2, <2>4 DEF SamplerInv, SamplerTypes
  <2> QED BY <2>1, <2>3, <2>4, <2>5, <1>0 DEF SamplerInv
<1> QED
  BY <1>4, <1>5, <1>6, <1>7, <1>8, <1>9, <1>10, <1>11, <1>12, <1>13, <1>14, <1>15, <1>16
    DEF SamplerNext, CollectorRuns

\* "Bind cached attribution to observed process start times, not reusable PIDs"
\* (resources/src/main.rs:148): a process that is still there is never shown with the
\* service or the ports of one that had its pid before.
THEOREM OwnLabels == SamplerSpec => []LabelsAreOwn
<1>1. SamplerInv => LabelsAreOwn
  BY DEF SamplerInv, SamplerTypes, Says, Told, LabelsAreOwn, Nobody
<1> QED BY <1>1, SamplerInvInit, SamplerInvStep, PTL DEF SamplerSpec

-------------------------------------------------------------------------------
(* Labels: the file a label is written to is nobody else's.                *)

InHand == {"opened", "written", "synced", "saved", "failed"}
Active(w) == saving[w].pc \in InHand

\* Nobody but writer i, with a label, writes to inode i.
Apart(i) ==
  /\ temporary # i
  /\ \A w \in Writer : Active(w) /\ saving[w].to = i => w = i /\ saving[w].file = "label"

FormInv ==
  /\ saving = [w \in Writer |-> saving[w]]
  /\ inode = [w \in Writer |-> inode[w]]
  /\ saved = [f \in Saved |-> saved[f]]
  /\ temporary \in Writer \cup {NoFile}
  /\ \A w \in Writer :
       /\ inode[w] = [holds |-> inode[w].holds, synced |-> inode[w].synced]
       /\ \/ saving[w] = [pc |-> "new"] \/ saving[w] = [pc |-> "gone"]
          \/ /\ Active(w)
             /\ saving[w] = [pc |-> saving[w].pc, file |-> saving[w].file,
                             is |-> saving[w].is, to |-> saving[w].to]
             /\ saving[w].to \in Writer /\ saving[w].is \in Content

FreshInv(w) == saving[w].pc = "new" => Apart(w) /\ saved["label"] # w

\* A label in the making: nothing in its file, then all of it, then on the disk.
MakingInv(w) ==
  /\ Active(w) /\ saving[w].file = "label" =>
       /\ saving[w].to = w /\ Apart(w)
       /\ saving[w].pc = "opened" => inode[w].holds = Nothing
       /\ saving[w].pc # "opened" => inode[w].holds \in Content
       /\ saving[w].pc \in {"synced", "saved"} => inode[w].synced
  /\ saving[w].pc = "written" => saving[w].file = "label"

SavedInv ==
  LET i == saved["label"]
  IN  i # NoFile => /\ i \in Writer /\ Apart(i) /\ inode[i].synced /\ inode[i].holds \in Content
                    /\ saving[i].pc \in {"saved", "gone"}

LabelsInv ==
  FormInv /\ SavedInv /\ \A w \in Writer : FreshInv(w) /\ MakingInv(w)

\* At first there is no file.
LEMMA LabelsInvInit == FilesInit => LabelsInv
<1> SUFFICES ASSUME FilesInit PROVE LabelsInv OBVIOUS
<1>1. /\ \A w \in Writer : saving[w] = [pc |-> "new"] /\ saving[w].pc = "new" /\ ~Active(w)
      /\ saved["label"] = NoFile /\ temporary = NoFile
  BY DEF FilesInit, Active, InHand, Saved
<1>2. FormInv BY <1>1 DEF FilesInit, FormInv
<1>3. \A w \in Writer : w # NoFile BY HubFilesAssumption
<1> QED BY <1>1, <1>2, <1>3 DEF LabelsInv, SavedInv, FreshInv, MakingInv, Apart

\* What one writer does to an inode leaves those alone that are apart from it.
LEMMA OthersApart ==
  ASSUME LabelsInv, NEW w \in Writer, NEW s, NEW j \in Writer,
         saving' = [saving EXCEPT ![w] = s], s.to = j, temporary' \in {temporary, j, NoFile},
         NEW i \in Writer, i # w, i # j, Apart(i)
  PROVE  Apart(i)'
<1>1. saving'[w] = s /\ \A v \in Writer : v # w => saving'[v] = saving[v]
  BY DEF LabelsInv, FormInv
<1>2. i # NoFile BY HubFilesAssumption
<1> QED BY <1>1, <1>2 DEF Apart, Active

\* A step of one writer, with all it has to see to: its own record and its inode.
LEMMA WriterMoves ==
  ASSUME LabelsInv, NEW w \in Writer, NEW s, NEW j \in Writer, NEW n,
         saving' = [saving EXCEPT ![w] = s],
         s = [pc |-> s.pc, file |-> s.file, is |-> s.is, to |-> j],
         s.pc \in InHand, s.is \in Content, s.pc = "written" => s.file = "label",
         inode' = [inode EXCEPT ![j] = n], n = [holds |-> n.holds, synced |-> n.synced],
         temporary' \in {temporary, j, NoFile},
         saved' = [f \in Saved |-> saved'[f]],
         saved'["label"] \in {saved["label"], w},
         saved'["label"] = w => s.pc = "saved" /\ s.file = "label",
         saved["label"] # w, Apart(j) => j = w,
         s.file = "label" => /\ j = w /\ Apart(w) /\ UNCHANGED temporary
                             /\ s.pc = "opened" => n.holds = Nothing
                             /\ s.pc # "opened" => n.holds \in Content
                             /\ s.pc \in {"synced", "saved"} => n.synced
  PROVE  LabelsInv'
<1>1. /\ saving'[w] = s /\ \A v \in Writer : v # w => saving'[v] = saving[v]
      /\ inode'[j] = n /\ \A v \in Writer : v # j => inode'[v] = inode[v]
      /\ s.to = j
  BY DEF LabelsInv, FormInv
<1>2. FormInv'
  <2>1. /\ saving' = [v \in Writer |-> saving'[v]] /\ inode' = [v \in Writer |-> inode'[v]]
        /\ temporary' \in Writer \cup {NoFile}
    BY DEF LabelsInv, FormInv
  <2>2. ASSUME NEW v \in Writer
        PROVE  inode'[v] = [holds |-> inode'[v].holds, synced |-> inode'[v].synced]
    BY <1>1 DEF LabelsInv, FormInv
  <2>3. ASSUME NEW v \in Writer
        PROVE  \/ saving'[v] = [pc |-> "new"] \/ saving'[v] = [pc |-> "gone"]
               \/ /\ saving'[v].pc \in InHand
                  /\ saving'[v] = [pc |-> saving'[v].pc, file |-> saving'[v].file,
                                  is |-> saving'[v].is, to |-> saving'[v].to]
                  /\ saving'[v].to \in Writer /\ saving'[v].is \in Content
    <3>1. CASE v = w BY <3>1, <1>1
    <3>2. CASE v # w BY <3>2, <1>1 DEF LabelsInv, FormInv, Active
    <3> QED BY <3>1, <3>2
  <2> QED BY <2>1, <2>2, <2>3 DEF FormInv, Active
<1>3. ASSUME NEW i \in Writer, i # w, Apart(i) PROVE i # j /\ Apart(i)'
  BY <1>3, <1>1, OthersApart
<1>4. ASSUME s.file = "label" PROVE Apart(w)'
  BY <1>4, <1>1 DEF Apart, Active
<1>5. ASSUME NEW v \in Writer PROVE FreshInv(v)'
  <2>1. CASE v = w BY <2>1, <1>1 DEF FreshInv, InHand
  <2>2. CASE v # w
    <3>1. ASSUME saving'[v].pc = "new" PROVE Apart(v)' /\ saved'["label"] # v
      BY <3>1, <2>2, <1>1, <1>3 DEF LabelsInv, FreshInv
    <3> QED BY <3>1 DEF FreshInv
  <2> QED BY <2>1, <2>2
<1>6. ASSUME NEW v \in Writer PROVE MakingInv(v)'
  <2>1. CASE v = w BY <2>1, <1>1, <1>4 DEF MakingInv, Active
  <2>2. CASE v # w
    <3>1. saving'[v] = saving[v] BY <2>2, <1>1
    <3>2. ASSUME Active(v), saving[v].file = "label" PROVE Apart(v)' /\ inode'[v] = inode[v]
      BY <3>2, <2>2, <1>1, <1>3 DEF LabelsInv, MakingInv
    <3>3. MakingInv(v) BY DEF LabelsInv
    <3> QED BY <3>1, <3>2, <3>3 DEF MakingInv, Active
  <2> QED BY <2>1, <2>2
<1>7. SavedInv'
  <2>1. CASE saved'["label"] = w
    <3>1. s.pc = "saved" /\ s.file = "label" /\ n.holds \in Content /\ n.synced /\ j = w
      BY <2>1
    <3> QED BY <3>1, <2>1, <1>1, <1>4 DEF SavedInv
  <2>2. CASE saved'["label"] = saved["label"]
    <3>1. ASSUME NEW i \in Writer, i = saved["label"], i # NoFile
          PROVE  /\ Apart(i)' /\ inode'[i].synced /\ inode'[i].holds \in Content
                 /\ saving'[i].pc \in {"saved", "gone"}
      <4>1. /\ Apart(i) /\ inode[i].synced /\ inode[i].holds \in Content
            /\ saving[i].pc \in {"saved", "gone"}
        BY <3>1 DEF LabelsInv, SavedInv
      <4>2. i # w BY <3>1
      <4>3. i # j /\ Apart(i)' BY <4>1, <4>2, <1>3
      <4>4. inode'[i] = inode[i] /\ saving'[i] = saving[i] BY <4>1, <4>2, <4>3, <1>1
      <4> QED BY <4>1, <4>3, <4>4
    <3>2. saved["label"] # NoFile => saved["label"] \in Writer BY DEF LabelsInv, SavedInv
    <3> QED BY <2>2, <3>1, <3>2 DEF SavedInv
  <2> QED BY <2>1, <2>2
<1> QED BY <1>2, <1>5, <1>6, <1>7 DEF LabelsInv

\* Every step keeps a label's file its writer's own.
LEMMA LabelsInvStep == ASSUME LabelsInv, [FilesNext]_fileVars PROVE LabelsInv'
<1> USE DEF SavingAt
\* What a writer at work has.
<1>0. ASSUME NEW w \in Writer, saving[w].pc \in {"opened", "written", "synced"}
      PROVE  LET i == saving[w].to
             IN  /\ i \in Writer /\ saving[w].is \in Content /\ Active(w)
                 /\ saving[w] = [pc |-> saving[w].pc, file |-> saving[w].file,
                                 is |-> saving[w].is, to |-> i]
                 /\ inode[i] = [holds |-> inode[i].holds, synced |-> inode[i].synced]
                 /\ saved["label"] # w /\ (Apart(i) => i = w)
                 /\ MakingInv(w)
                 /\ (i = w /\ saving[w].file # "label" => ~Apart(w))
  <2>1. Active(w) /\ FormInv /\ MakingInv(w) BY <1>0 DEF Active, InHand, LabelsInv
  <2>2. saving[w] # [pc |-> "new"] /\ saving[w] # [pc |-> "gone"] BY <1>0
  <2>3. /\ saving[w].to \in Writer /\ saving[w].is \in Content
        /\ saving[w] = [pc |-> saving[w].pc, file |-> saving[w].file,
                        is |-> saving[w].is, to |-> saving[w].to]
    BY <2>1, <2>2 DEF FormInv
  <2>4. inode[saving[w].to] = [holds |-> inode[saving[w].to].holds,
                               synced |-> inode[saving[w].to].synced]
    BY <2>1, <2>3 DEF FormInv
  <2>5. saved["label"] # w
    <3>1. w # NoFile BY HubFilesAssumption
    <3> QED BY <3>1, <1>0 DEF LabelsInv, SavedInv
  <2>6. ASSUME NEW i \in Writer, Apart(i), saving[w].to = i
        PROVE  i = w /\ saving[w].file = "label"
    BY <2>1, <2>6 DEF Apart
  <2> QED BY <2>1, <2>3, <2>4, <2>5, <2>6
<1>7. ASSUME NEW w \in Writer, saving[w].pc \in {"opened", "written", "synced"},
             NEW pc, Goes(w, pc)
      PROVE  saving' = [saving EXCEPT ![w] = [pc |-> pc, file |-> saving[w].file,
                                              is |-> saving[w].is, to |-> saving[w].to]]
  <2> DEFINE r == saving[w]
             s == [pc |-> pc, file |-> r.file, is |-> r.is, to |-> r.to]
  <2>1. r = [pc |-> r.pc, file |-> r.file, is |-> r.is, to |-> r.to] BY <1>7, <1>0
  <2>2. [r EXCEPT !.pc = pc] = s BY <2>1
  <2>3. saving' = [saving EXCEPT ![w] = [r EXCEPT !.pc = pc]] BY <1>7 DEF Goes
  <2> HIDE DEF r, s
  <2>4. saving' = [saving EXCEPT ![w] = s] BY <2>2, <2>3
  <2> QED BY <2>4 DEF s, r
<1>1. CASE UNCHANGED SaverVars
  BY <1>1 DEF SaverVars, LabelsInv, FormInv, FreshInv, MakingInv, SavedInv, Apart, Active
<1>2. ASSUME NEW w \in Writer, OpenTemporary(w) PROVE LabelsInv'
  <2>1. PICK f \in Saved, c \in Content :
          LET i == IF f = "label" \/ temporary = NoFile THEN w ELSE temporary
          IN  /\ saving' = [saving EXCEPT ![w] = [pc |-> "opened", file |-> f, is |-> c, to |-> i]]
              /\ temporary' = IF f = "label" THEN temporary ELSE i
              /\ inode' = [inode EXCEPT ![i] = [holds |-> Nothing, synced |-> FALSE]]
    BY <1>2 DEF OpenTemporary
  <2> DEFINE j == IF f = "label" \/ temporary = NoFile THEN w ELSE temporary
             s == [pc |-> "opened", file |-> f, is |-> c, to |-> j]
             n == [holds |-> Nothing, synced |-> FALSE]
  <2>2. /\ saving' = [saving EXCEPT ![w] = s] /\ inode' = [inode EXCEPT ![j] = n]
        /\ temporary' \in {temporary, j} /\ saved' = saved /\ saving[w].pc = "new"
    BY <2>1, <1>2 DEF OpenTemporary
  <2>3. j \in Writer /\ (Apart(j) => j = w) /\ saved = [g \in Saved |-> saved[g]]
    BY DEF LabelsInv, FormInv, Apart
  <2>4. Apart(w) /\ saved["label"] # w BY <2>2 DEF LabelsInv, FreshInv
  <2>5. /\ s = [pc |-> s.pc, file |-> s.file, is |-> s.is, to |-> j]
        /\ s.pc = "opened" /\ s.is \in Content /\ s.pc \in InHand
        /\ n = [holds |-> n.holds, synced |-> n.synced] /\ n.holds = Nothing
    BY DEF InHand
  <2>6. s.file = "label" => j = w /\ UNCHANGED temporary BY <2>1
  <2> HIDE DEF j, s, n
  <2> QED BY <2>2, <2>3, <2>4, <2>5, <2>6, WriterMoves
<1>3. ASSUME NEW w \in Writer, WriteFile(w) PROVE LabelsInv'
  <2> DEFINE j == saving[w].to
             pc == IF saving[w].file = "label" THEN "written" ELSE "synced"
             s == [pc |-> pc, file |-> saving[w].file, is |-> saving[w].is, to |-> j]
  <2>1. PICK c \in {saving[w].is} \cup
                   (IF inode[j].holds \in {Nothing, saving[w].is} THEN {} ELSE {Mixed}) :
          inode' = [inode EXCEPT ![j] = [holds |-> c, synced |-> FALSE]]
    BY <1>3 DEF WriteFile
  <2> DEFINE n == [holds |-> c, synced |-> FALSE]
  <2>2. saving[w].pc = "opened" BY <1>3 DEF WriteFile
  <2>3. /\ saving' = [saving EXCEPT ![w] = s]
        /\ inode' = [inode EXCEPT ![j] = n] /\ UNCHANGED <<saved, temporary>>
    <3>1. Goes(w, pc) /\ UNCHANGED <<saved, temporary>> BY <1>3 DEF WriteFile
    <3>2. saving' = [saving EXCEPT ![w] = s] BY <3>1, <2>2, <1>7
    <3> QED BY <3>1, <3>2, <2>1
  <2>4. j \in Writer /\ (Apart(j) => j = w) /\ saved["label"] # w
    BY <2>2, <1>0
  <2>5. saved = [g \in Saved |-> saved[g]] BY DEF LabelsInv, FormInv
  <2>6. /\ s = [pc |-> s.pc, file |-> s.file, is |-> s.is, to |-> j]
        /\ s.pc = pc /\ s.file = saving[w].file
        /\ s.is \in Content /\ s.pc \in {"written", "synced"} /\ s.pc \in InHand
        /\ n = [holds |-> n.holds, synced |-> n.synced] /\ n.holds = c
    BY <2>2, <1>0 DEF InHand
  <2>7. saving[w].file = "label" => /\ j = w /\ Apart(w) /\ c \in Content /\ pc = "written"
    BY <2>1, <2>2, <1>0 DEF MakingInv
  <2>8. saving[w].file # "label" => pc = "synced" OBVIOUS
  <2> HIDE DEF j, s, n, pc
  <2> QED BY <2>3, <2>4, <2>5, <2>6, <2>7, <2>8, WriterMoves
<1>4. ASSUME NEW w \in Writer, SyncFile(w) PROVE LabelsInv'
  <2> DEFINE j == saving[w].to
             s == [pc |-> "synced", file |-> saving[w].file, is |-> saving[w].is, to |-> j]
             n == [holds |-> inode[j].holds, synced |-> TRUE]
  <2>1. saving[w].pc = "written" BY <1>4 DEF SyncFile
  <2>2. inode[j] = [holds |-> inode[j].holds, synced |-> inode[j].synced] /\ j \in Writer
    BY <2>1, <1>0
  <2>3. /\ saving' = [saving EXCEPT ![w] = s] /\ UNCHANGED <<saved, temporary>>
    BY <2>1, <1>4, <1>7 DEF SyncFile
  <2>4. inode' = [inode EXCEPT ![j] = n]
    <3>1. inode' = [inode EXCEPT ![j].synced = TRUE] BY <1>4 DEF SyncFile
    <3> DEFINE r == inode[j]
    <3>2. [r EXCEPT !.synced = TRUE] = n
      <4>1. r = [holds |-> r.holds, synced |-> r.synced] BY <2>2
      <4>2. n = [holds |-> r.holds, synced |-> TRUE] OBVIOUS
      <4> HIDE DEF r, n
      <4>3. \A t : [r EXCEPT !.synced = t] = [holds |-> r.holds, synced |-> t] BY <4>1
      <4>4. [r EXCEPT !.synced = TRUE] = [holds |-> r.holds, synced |-> TRUE]
        BY ONLY <4>3, Zenon
      <4> QED BY <4>2, <4>4
    <3>3. inode' = [inode EXCEPT ![j] = [inode[j] EXCEPT !.synced = TRUE]] BY <3>1
    <3> HIDE DEF n, j
    <3> QED BY <3>2, <3>3
  <2>5. (Apart(j) => j = w) /\ saved["label"] # w BY <2>1, <1>0
  <2>6. saved = [g \in Saved |-> saved[g]] BY DEF LabelsInv, FormInv
  <2>7. /\ s = [pc |-> s.pc, file |-> s.file, is |-> s.is, to |-> j]
        /\ s.pc = "synced" /\ s.file = saving[w].file
        /\ s.is \in Content /\ s.pc \in InHand
        /\ n = [holds |-> n.holds, synced |-> n.synced] /\ n.holds = inode[j].holds /\ n.synced
    BY <2>1, <1>0 DEF InHand
  <2>8. saving[w].file = "label" /\ j = w /\ Apart(w) /\ inode[j].holds \in Content
    BY <2>1, <1>0 DEF MakingInv
  <2> HIDE DEF j, s, n
  <2> QED BY <2>2, <2>3, <2>4, <2>5, <2>6, <2>7, <2>8, WriterMoves
<1>5. ASSUME NEW w \in Writer, RenameFile(w) PROVE LabelsInv'
  <2>1. PICK pc \in {"saved", "failed"} :
          /\ Goes(w, pc)
          /\ saving[w].file = "label" => /\ saved' = [saved EXCEPT !["label"] = saving[w].to]
                                         /\ pc = "saved" /\ UNCHANGED temporary
          /\ saving[w].file # "label" => /\ temporary' \in {temporary, NoFile}
                                         /\ \/ saved' = saved
                                            \/ saved' = [saved EXCEPT !["state"] = temporary]
    BY <1>5 DEF RenameFile
  <2> DEFINE j == saving[w].to
             s == [pc |-> pc, file |-> saving[w].file, is |-> saving[w].is, to |-> j]
             n == inode[j]
  <2>2. saving[w].pc = "synced" BY <1>5 DEF RenameFile
  <2>3. n = [holds |-> n.holds, synced |-> n.synced] /\ j \in Writer BY <2>2, <1>0
  <2>4. saving' = [saving EXCEPT ![w] = s] BY <2>1, <2>2, <1>7
  <2>5. inode' = [inode EXCEPT ![j] = n]
    BY <2>3, <1>5 DEF RenameFile, LabelsInv, FormInv
  <2>6. (Apart(j) => j = w) /\ saved["label"] # w BY <2>2, <1>0
  <2>7. saved = [g \in Saved |-> saved[g]] BY DEF LabelsInv, FormInv
  <2>8. /\ s = [pc |-> s.pc, file |-> s.file, is |-> s.is, to |-> j]
        /\ s.pc = pc /\ s.file = saving[w].file
        /\ s.is \in Content /\ s.pc \in InHand
    BY <2>2, <1>0 DEF InHand
  <2>9. saving[w].file = "label" =>
          j = w /\ Apart(w) /\ n.holds \in Content /\ n.synced
    BY <2>2, <1>0 DEF MakingInv
  <2>10. /\ temporary' \in {temporary, NoFile}
         /\ saving[w].file = "label" => saved'["label"] = j /\ UNCHANGED temporary /\ pc = "saved"
         /\ saving[w].file # "label" => saved'["label"] = saved["label"]
         /\ saved' = [g \in Saved |-> saved'[g]]
    BY <2>1, <2>7 DEF Saved
  <2> HIDE DEF j, s, n
  <2> QED BY <2>3, <2>4, <2>5, <2>6, <2>8, <2>9, <2>10, WriterMoves
<1>6. CASE FilesPowerLoss
  <2>1. /\ UNCHANGED <<saved, temporary>>
        /\ inode' = [w \in Writer |-> inode'[w]] /\ saving' = [w \in Writer |-> saving'[w]]
        /\ \A w \in Writer : inode[w].synced => inode'[w] = inode[w]
    BY <1>6 DEF FilesPowerLoss
  <2>2. ASSUME NEW w \in Writer
        PROVE  \/ saving'[w] = [pc |-> "new"] /\ saving[w].pc = "new"
               \/ saving'[w] = [pc |-> "gone"] /\ saving[w].pc # "new"
    BY <1>6 DEF FilesPowerLoss, LabelsInv, FormInv, Active, InHand
  <2>3. \A w \in Writer : ~Active(w)' BY <2>2 DEF Active, InHand
  <2>4. ASSUME NEW w \in Writer
        PROVE  inode'[w] = [holds |-> inode'[w].holds, synced |-> inode'[w].synced]
    BY <1>6 DEF FilesPowerLoss, LabelsInv, FormInv
  <2>5. FormInv' BY <2>1, <2>2, <2>4 DEF LabelsInv, FormInv
  <2>6. \A i \in Writer : Apart(i) => Apart(i)' BY <2>1, <2>3 DEF Apart
  <2>7. ASSUME NEW w \in Writer PROVE FreshInv(w)' /\ MakingInv(w)'
    BY <2>1, <2>2, <2>3, <2>6 DEF LabelsInv, FreshInv, MakingInv
  <2>8. SavedInv'
    <3>1. ASSUME saved["label"] # NoFile
          PROVE  LET i == saved["label"]
                 IN  /\ i \in Writer /\ Apart(i)' /\ inode'[i] = inode[i] /\ inode[i].synced
                     /\ inode[i].holds \in Content /\ saving'[i].pc = "gone"
      BY <3>1, <2>1, <2>2, <2>6 DEF LabelsInv, SavedInv
    <3> QED BY <3>1, <2>1 DEF SavedInv
  <2> QED BY <2>5, <2>7, <2>8 DEF LabelsInv
<1> QED
  BY <1>1, <1>2, <1>3, <1>4, <1>5, <1>6
    DEF FilesNext, fileVars, SaverVars, LeaveActions, PollActions, RemoveActions

\* "Unique temporary file permits concurrent views without truncating each other's
\* writes" (session_summary.rs:34): a label that is there is one that was saved, whole.
THEOREM WholeLabels == FilesSpec => []LabelsAreWhole
<1>1. LabelsInv => LabelsAreWhole BY DEF LabelsInv, SavedInv, LabelsAreWhole, Holds
<1> QED BY <1>1, LabelsInvInit, LabelsInvStep, PTL DEF FilesSpec

-------------------------------------------------------------------------------
(* The doorbell: what the view has heard, the wire, the channel, the note   *)
(* in the thread's hand and the frames it has not read carry, one after    *)
(* another, the numbers of all frames of output, and the last note has     *)
(* nothing behind it.                                                      *)

Note == ({"output"} \X (Nat \ {0})) \cup ({"heartbeat", "exited", "unsupported"} \X {0})
Frame == { f \in [data : BOOLEAN, next : Nat, exited : BOOLEAN] : f.data => f.next # 0 }

\* The number of a note or frame of output, zero for others.
Num(n) == IF n[1] = "output" THEN n[2] ELSE 0
FrameNum(f) == IF f.data THEN f.next ELSE 0
Numbers(q) == [i \in 1..Len(q) |-> Num(q[i])]
FrameNumbers(q) == [i \in 1..Len(q) |-> FrameNum(q[i])]

\* The first l of s are those behind a up to b in their order, with zeros between.
InOrder(s, l, a, b) ==
  /\ a <= b
  /\ \A i \in 1..l : s[i] \in Nat /\ (s[i] # 0 => a < s[i] /\ s[i] <= b)
  /\ \A i, j \in 1..l : i < j /\ s[i] # 0 /\ s[j] # 0 => s[i] < s[j]
  /\ \A n \in (a + 1)..b : \E i \in 1..l : s[i] = n

\* Nothing is in order when it need not show anything.
LEMMA OrderEmpty ==
  ASSUME NEW a \in Nat, NEW s, NEW b \in Nat
  PROVE  InOrder(s, 0, a, b) <=> a = b
BY DEF InOrder

\* What is added at the end is nothing, or the next.
LEMMA OrderAppend ==
  ASSUME NEW s, NEW t, NEW l \in Nat, NEW a \in Nat, NEW b \in Nat, InOrder(s, l, a, b),
         \A i \in 1..l : t[i] = s[i], NEW n \in Nat, t[l + 1] = n, n \in {0, b + 1}
  PROVE  InOrder(t, l + 1, a, IF n = 0 THEN b ELSE b + 1)
<1>1. \A i \in 1..(l + 1) : i \in 1..l \/ i = l + 1 OBVIOUS
<1>2. CASE n = 0
  <2>1. \A k \in (a + 1)..b : \E i \in 1..(l + 1) : t[i] = k BY DEF InOrder
  <2> QED BY <1>1, <1>2, <2>1 DEF InOrder
<1>3. CASE n # 0
  <2>1. \A i \in 1..l : t[i] \in Nat /\ (t[i] # 0 => a < t[i] /\ t[i] <= b) BY DEF InOrder
  <2>2. ASSUME NEW k \in (a + 1)..(b + 1) PROVE \E i \in 1..(l + 1) : t[i] = k
    <3>1. CASE k = b + 1 BY <3>1, <1>3
    <3>2. CASE k \in (a + 1)..b
      <4>1. PICK i \in 1..l : s[i] = k BY <3>2 DEF InOrder
      <4> QED BY <4>1
    <3> QED BY <2>2, <3>1, <3>2
  <2>3. ASSUME NEW i \in 1..(l + 1), NEW j \in 1..(l + 1), i < j, t[i] # 0, t[j] # 0
        PROVE  t[i] < t[j]
    <3>1. i \in 1..l BY <2>3
    <3>2. CASE j = l + 1 BY <3>1, <3>2, <2>1, <2>3, <1>3
    <3>3. CASE j \in 1..l BY <3>1, <3>3, <2>3 DEF InOrder
    <3> QED BY <1>1, <3>2, <3>3
  <2>4. a <= b + 1 BY DEF InOrder
  <2>5. \A i \in 1..(l + 1) : t[i] \in Nat /\ (t[i] # 0 => a < t[i] /\ t[i] <= b + 1)
    BY <1>1, <1>3, <2>1 DEF InOrder
  <2> QED BY <1>3, <2>2, <2>3, <2>4, <2>5 DEF InOrder
<1> QED BY <1>2, <1>3

\* What is taken from the front is nothing, or the first, and the rest goes on from it.
LEMMA OrderTail ==
  ASSUME NEW s, NEW t, NEW l \in Nat \ {0}, NEW a \in Nat, NEW b \in Nat, InOrder(s, l, a, b),
         \A i \in 1..(l - 1) : t[i] = s[i + 1]
  PROVE  /\ s[1] \in {0, a + 1}
         /\ InOrder(t, l - 1, IF s[1] = 0 THEN a ELSE a + 1, b)
<1>1. \A i \in 1..(l - 1) : i + 1 \in 1..l /\ 1 < i + 1 OBVIOUS
<1>2. 1 \in 1..l OBVIOUS
<1>3. s[1] \in Nat /\ (s[1] # 0 => a < s[1] /\ s[1] <= b) BY <1>2 DEF InOrder
<1>4. s[1] \in {0, a + 1}
  <2> SUFFICES ASSUME s[1] # 0, s[1] # a + 1 PROVE FALSE OBVIOUS
  <2>1. a + 1 \in (a + 1)..b BY <1>3
  <2>2. PICK i \in 1..l : s[i] = a + 1 BY <2>1 DEF InOrder
  <2>3. i # 1 /\ 1 < i BY <2>2
  <2>4. s[1] < s[i] BY <1>2, <2>2, <2>3 DEF InOrder
  <2> QED BY <1>3, <2>2, <2>4
<1> DEFINE c == IF s[1] = 0 THEN a ELSE a + 1
<1>5. \A i \in 1..(l - 1) : t[i] \in Nat /\ (t[i] # 0 => c < t[i] /\ t[i] <= b)
  <2> TAKE i \in 1..(l - 1)
  <2>1. s[i + 1] \in Nat /\ (s[i + 1] # 0 => a < s[i + 1] /\ s[i + 1] <= b) BY <1>1 DEF InOrder
  <2>2. s[1] # 0 /\ s[i + 1] # 0 => s[1] < s[i + 1] BY <1>1, <1>2 DEF InOrder
  <2> QED BY <2>1, <2>2, <1>3, <1>4
<1>6. \A i, j \in 1..(l - 1) : i < j /\ t[i] # 0 /\ t[j] # 0 => t[i] < t[j]
  <2> TAKE i, j \in 1..(l - 1)
  <2>1. i < j => i + 1 < j + 1 OBVIOUS
  <2> QED BY <1>1, <2>1 DEF InOrder
<1>7. \A n \in (c + 1)..b : \E i \in 1..(l - 1) : t[i] = n
  <2> TAKE n \in (c + 1)..b
  <2>1. n \in (a + 1)..b /\ n # s[1] BY <1>3, <1>4
  <2>2. PICK i \in 1..l : s[i] = n BY <2>1 DEF InOrder
  <2>3. i - 1 \in 1..(l - 1) /\ (i - 1) + 1 = i BY <2>1, <2>2
  <2> QED BY <2>2, <2>3
<1>8. c <= b BY <1>3, <1>4 DEF InOrder
<1> QED BY <1>4, <1>5, <1>6, <1>7, <1>8 DEF InOrder

\* The same of notes and of frames: a note is added to those in order.
LEMMA NotesAppend ==
  ASSUME NEW q \in Seq(Note), NEW n \in Note, NEW a \in Nat, NEW b \in Nat,
         InOrder(Numbers(q), Len(q), a, b), Num(n) \in {0, b + 1}, NEW r, r = Append(q, n)
  PROVE  /\ r \in Seq(Note) /\ Len(r) = Len(q) + 1 /\ r[Len(q) + 1] = n
         /\ \A i \in 1..Len(q) : r[i] = q[i]
         /\ Num(n) = 0 => InOrder(Numbers(r), Len(r), a, b)
         /\ Num(n) # 0 => InOrder(Numbers(r), Len(r), a, b + 1)
<1>1. /\ r \in Seq(Note) /\ Len(r) = Len(q) + 1 /\ r[Len(q) + 1] = n
      /\ \A i \in 1..Len(q) : r[i] = q[i] /\ Len(q) \in Nat
  OBVIOUS
<1>2. Len(q) \in Nat OBVIOUS
<1>3. \A i \in 1..Len(q) : Numbers(r)[i] = Numbers(q)[i] BY <1>1, <1>2 DEF Numbers
<1>4. Numbers(r)[Len(q) + 1] = Num(n) BY <1>1, <1>2 DEF Numbers
<1>5. Num(n) \in Nat BY DEF Num, Note
<1>6. InOrder(Numbers(r), Len(q) + 1, a, IF Num(n) = 0 THEN b ELSE b + 1)
  BY <1>2, <1>3, <1>4, <1>5, OrderAppend
<1> QED BY <1>1, <1>6

\* A note taken from the front is the next one.
LEMMA NotesTail ==
  ASSUME NEW q \in Seq(Note), q # <<>>, NEW a \in Nat, NEW b \in Nat,
         InOrder(Numbers(q), Len(q), a, b), NEW r, r = Tail(q),
         NEW h, h = Head(q)
  PROVE  /\ h = q[1] /\ h \in Note /\ Num(h) \in {0, a + 1}
         /\ r \in Seq(Note) /\ Len(r) = Len(q) - 1
         /\ \A i \in 1..Len(r) : r[i] = q[i + 1]
         /\ Num(h) = 0 => InOrder(Numbers(r), Len(r), a, b)
         /\ Num(h) # 0 => InOrder(Numbers(r), Len(r), a + 1, b)
<1>1. Len(q) \in Nat \ {0} OBVIOUS
<1>2. /\ h = q[1] /\ q[1] \in Note /\ r \in Seq(Note) /\ Len(r) = Len(q) - 1
      /\ \A i \in 1..(Len(q) - 1) : r[i] = q[i + 1]
  BY <1>1
<1>3. \A i \in 1..(Len(q) - 1) : Numbers(r)[i] = Numbers(q)[i + 1]
  BY <1>1, <1>2 DEF Numbers
<1>4. Numbers(q)[1] = Num(q[1]) BY <1>1 DEF Numbers
<1>5. /\ Numbers(q)[1] \in {0, a + 1}
      /\ InOrder(Numbers(r), Len(q) - 1, IF Numbers(q)[1] = 0 THEN a ELSE a + 1, b)
  BY <1>1, <1>3, OrderTail
<1> QED BY <1>2, <1>4, <1>5

\* A frame is added to those in order.
LEMMA FramesAppend ==
  ASSUME NEW q \in Seq(Frame), NEW f \in Frame, NEW a \in Nat, NEW b \in Nat,
         InOrder(FrameNumbers(q), Len(q), a, b), FrameNum(f) \in {0, b + 1}, NEW r, r = Append(q, f)
  PROVE  /\ r \in Seq(Frame) /\ Len(r) = Len(q) + 1 /\ r[Len(q) + 1] = f
         /\ \A i \in 1..Len(q) : r[i] = q[i]
         /\ FrameNum(f) = 0 => InOrder(FrameNumbers(r), Len(r), a, b)
         /\ FrameNum(f) # 0 => InOrder(FrameNumbers(r), Len(r), a, b + 1)
<1>1. /\ r \in Seq(Frame) /\ Len(r) = Len(q) + 1 /\ r[Len(q) + 1] = f
      /\ \A i \in 1..Len(q) : r[i] = q[i]
  OBVIOUS
<1>2. Len(q) \in Nat OBVIOUS
<1>3. \A i \in 1..Len(q) : FrameNumbers(r)[i] = FrameNumbers(q)[i] BY <1>1, <1>2 DEF FrameNumbers
<1>4. FrameNumbers(r)[Len(q) + 1] = FrameNum(f) BY <1>1, <1>2 DEF FrameNumbers
<1>5. FrameNum(f) \in Nat BY DEF FrameNum, Frame
<1>6. InOrder(FrameNumbers(r), Len(q) + 1, a, IF FrameNum(f) = 0 THEN b ELSE b + 1)
  BY <1>2, <1>3, <1>4, <1>5, OrderAppend
<1> QED BY <1>1, <1>6

\* A frame taken from the front is the next one.
LEMMA FramesTail ==
  ASSUME NEW q \in Seq(Frame), q # <<>>, NEW a \in Nat, NEW b \in Nat,
         InOrder(FrameNumbers(q), Len(q), a, b), NEW r, r = Tail(q),
         NEW h, h = Head(q)
  PROVE  /\ h = q[1] /\ h \in Frame /\ FrameNum(h) \in {0, a + 1}
         /\ r \in Seq(Frame) /\ Len(r) = Len(q) - 1
         /\ \A i \in 1..Len(r) : r[i] = q[i + 1]
         /\ FrameNum(h) = 0 => InOrder(FrameNumbers(r), Len(r), a, b)
         /\ FrameNum(h) # 0 => InOrder(FrameNumbers(r), Len(r), a + 1, b)
<1>1. Len(q) \in Nat \ {0} OBVIOUS
<1>2. /\ h = q[1] /\ q[1] \in Frame /\ r \in Seq(Frame) /\ Len(r) = Len(q) - 1
      /\ \A i \in 1..(Len(q) - 1) : r[i] = q[i + 1]
  BY <1>1
<1>3. \A i \in 1..(Len(q) - 1) : FrameNumbers(r)[i] = FrameNumbers(q)[i + 1]
  BY <1>1, <1>2 DEF FrameNumbers
<1>4. FrameNumbers(q)[1] = FrameNum(q[1]) BY <1>1 DEF FrameNumbers
<1>5. /\ FrameNumbers(q)[1] \in {0, a + 1}
      /\ InOrder(FrameNumbers(r), Len(q) - 1, IF FrameNumbers(q)[1] = 0 THEN a ELSE a + 1, b)
  BY <1>1, <1>3, OrderTail
<1> QED BY <1>2, <1>4, <1>5

\* The shapes of the queues.
DoorbellForm ==
  /\ heard \in Seq(Note) /\ wire \in Seq(Note) /\ notes \in Seq(Note)
  /\ note \in Note \cup {NoNote} /\ (thread = "noting" => note \in Note)
  /\ frames \in Seq(Frame) /\ output \in Nat

\* The view has heard of the first t frames of output, and perhaps the last note.
Heard(t) ==
  /\ t <= output /\ Len(heard) \in {t, t + 1}
  /\ \A i \in 1..t : heard[i] = <<"output", i>>
  /\ Len(heard) = t + 1 =>
       /\ heard[t + 1][1] \in LastNotes
       /\ heard[t + 1][1] = "exited" => output = t /\ keeper # "open"

\* Behind the last note nothing comes any more.
Silence == frames = <<>> /\ keeper # "open"
Over == Silence /\ thread = "ended" /\ note = NoNote

LastIn(q) == \A i \in 1..Len(q) : q[i][1] \in LastNotes => i = Len(q) /\ Over

\* The rest is on its way: up to b on the wire, up to c in the channel, up to d with
\* the thread, and in the frames it has not read.
OnItsWay(t, b, c, d) ==
  /\ InOrder(Numbers(wire), Len(wire), t, b)
  /\ InOrder(Numbers(notes), Len(notes), b, c)
  /\ d = IF Num(note) = 0 THEN c ELSE c + 1
  /\ Num(note) \in {0, d}
  /\ InOrder(FrameNumbers(frames), Len(frames), d, output)

LastIsLast ==
  /\ \A i \in 1..Len(heard) : heard[i][1] \in LastNotes => wire = <<>> /\ notes = <<>> /\ Over
  /\ LastIn(wire) /\ LastIn(notes)
  /\ \A i \in 1..Len(wire) : wire[i][1] \in LastNotes => notes = <<>>
  /\ note[1] \in LastNotes => Silence
  /\ \A i \in 1..Len(frames) :
       ~frames[i].data /\ frames[i].exited => i = Len(frames) /\ keeper # "open"

\* Where the task and the thread are when nothing is in their hands.
Places ==
  /\ thread # "noting" => note = NoNote
  /\ thread \in {"none", "connecting"} => frames = <<>>
  /\ ws \in {"auth", "subscribe"} => thread = "none"
  /\ ws = "closed" => thread = "ended" /\ notes = <<>>

\* All of it, behind the t frames the view knows.
Pipeline(t) ==
  LastIsLast /\ Places /\ \E b, c, d \in Nat : OnItsWay(t, b, c, d)

\* A view that has left is told no more: what it has heard stays as it is.
DoorbellInv ==
  /\ DoorbellForm
  /\ \E t \in Nat : Heard(t) /\ (view = "good" => Pipeline(t))

\* What the view has heard stays true while it hears nothing.
LEMMA HeardStays ==
  ASSUME NEW t \in Nat, Heard(t), DoorbellForm, heard' = heard,
         \/ output' = output /\ (keeper # "open" => keeper' # "open")
         \/ keeper = "open" /\ output' \in Nat /\ output <= output'
  PROVE  Heard(t)'
BY DEF Heard, DoorbellForm

\* What is on its way stays there while only the task's, the view's or the keeper's
\* own state changes.
LEMMA PipelineStays ==
  ASSUME NEW t \in Nat, Pipeline(t), UNCHANGED <<heard, wire, notes, note, frames, output>>,
         keeper' = keeper \/ keeper' # "open",
         \/ thread' = thread \/ (thread = "none" /\ thread' = "connecting")
         \/ (thread' = "reading" /\ thread = "connecting"),
         Places'
  PROVE  Pipeline(t)'
<1>1. PICK b \in Nat, c \in Nat, d \in Nat : OnItsWay(t, b, c, d) BY DEF Pipeline
<1>2. OnItsWay(t, b, c, d)' BY <1>1 DEF OnItsWay, InOrder, Numbers, FrameNumbers
<1>3. Silence => Silence' BY DEF Silence
<1>4. Over => Over' BY <1>3 DEF Over
<1>5. LastIsLast'
  BY <1>3, <1>4 DEF Pipeline, LastIsLast, LastIn
<1> QED BY <1>2, <1>5 DEF Pipeline

\* Every step of the doorbell keeps all output in order, and the last note last.
LEMMA DoorbellStep ==
  ASSUME DoorbellInv, [DoorbellNext]_doorbellVars
  PROVE  DoorbellInv'
<1> USE DEF keeperSide
<1>1. PICK t \in Nat : Heard(t) /\ (view = "good" => Pipeline(t)) BY DEF DoorbellInv
<1>2. DoorbellForm BY DEF DoorbellInv
<1>3. Num(NoNote) = 0 /\ Num(note) \in Nat
  BY <1>2 DEF NoNote, Note, Num, DoorbellForm
<1>4. ASSUME view = "good"
      PROVE  \E b, c, d \in Nat : OnItsWay(t, b, c, d)
  BY <1>1, <1>4 DEF Pipeline
\* The view still listens, what it has heard stays, and the pipeline too.
<1>5. ASSUME UNCHANGED <<heard, wire, notes, note, frames, output>>,
             keeper' = keeper \/ keeper' # "open", view' = view \/ view' # "good",
             \/ thread' = thread \/ (thread = "none" /\ thread' = "connecting")
         \/ (thread' = "reading" /\ thread = "connecting"),
             view' = "good" /\ Places => Places'
      PROVE  DoorbellInv'
  <2>1. DoorbellForm' BY <1>2, <1>5 DEF DoorbellForm
  <2>2. Heard(t)' BY <1>1, <1>2, <1>5, HeardStays
  <2>3. view' = "good" => view = "good" BY <1>5
  <2>4. view' = "good" => Pipeline(t)'
    BY <2>3, <1>1, <1>5, PipelineStays DEF Pipeline
  <2> QED BY <2>1, <2>2, <2>4 DEF DoorbellInv
<1>6. CASE Admit \/ TurnAway \/ Hangup
  <2>1. /\ UNCHANGED <<heard, wire, notes, note, frames, output, keeper, view>>
        /\ thread' = thread \/ (ws = "subscribe" /\ view = "good" /\ thread' = "connecting")
    BY <1>6 DEF Admit, TurnAway, Hangup
  <2>2. ws = "subscribe" /\ view = "good" => thread = "none" BY <1>1 DEF Pipeline, Places
  <2>3. ASSUME view' = "good", Places PROVE Places'
    <3>1. CASE Admit
      <4>1. ws \in {"auth", "subscribe"} /\ thread = "none" /\ note = NoNote /\ frames = <<>>
        BY <2>3, <3>1 DEF Admit, Places
      <4>2. /\ ws' = IF ws = "auth" THEN "subscribe" ELSE "ringing"
            /\ thread' = IF ws = "auth" THEN thread ELSE "connecting"
            /\ UNCHANGED <<note, frames>>
        BY <3>1 DEF Admit
      <4> QED BY <4>1, <4>2 DEF Places
    <3>2. CASE TurnAway BY <2>1, <2>3, <3>2 DEF TurnAway
    <3>3. CASE Hangup BY <2>1, <2>3, <3>3 DEF Hangup, Places
    <3> QED BY <1>6, <3>1, <3>2, <3>3
  <2> QED BY <2>1, <2>2, <2>3, <1>5
<1>7. CASE ViewLeaves
  <2>1. DoorbellForm' BY <1>2, <1>7 DEF ViewLeaves, DoorbellForm
  <2>2. Heard(t)' BY <1>1, <1>2, <1>7, HeardStays DEF ViewLeaves
  <2>3. view' # "good" BY <1>7 DEF ViewLeaves
  <2> QED BY <2>1, <2>2, <2>3 DEF DoorbellInv
<1>8. CASE KeeperLost
  <2>1. /\ UNCHANGED <<heard, wire, notes, note, frames, output, view, thread, ws>>
        /\ keeper' # "open"
    BY <1>8 DEF KeeperLost
  <2>2. Places => Places' BY <2>1 DEF Places
  <2> QED BY <2>1, <2>2, <1>5
<1>9. CASE Connect
  <2>1. /\ thread = "connecting"
        /\ UNCHANGED <<ws, view, wire, notes, keeper, frames, output, heard>>
        /\ IF keeper = "lost" THEN note' = <<"unsupported", 0>> /\ thread' = "noting"
                              ELSE thread' = "reading" /\ UNCHANGED note
    BY <1>9 DEF Connect, Notes
  <2>2. CASE keeper # "lost"
    <3>1. Places => Places' BY <2>1, <2>2 DEF Places
    <3> QED BY <2>1, <2>2, <3>1, <1>5
  <2>3. CASE keeper = "lost"
    <3>1. note' = <<"unsupported", 0>> /\ thread' = "noting" BY <2>1, <2>3
    <3>2. note' \in Note /\ Num(note') = 0 BY <3>1 DEF Note, Num
    <3>3. DoorbellForm' BY <1>2, <2>1, <3>2 DEF DoorbellForm
    <3>4. Heard(t)' BY <1>1, <1>2, <2>1, HeardStays
    <3>5. ASSUME view' = "good" PROVE Pipeline(t)'
      <4>1. Pipeline(t) BY <3>5, <1>1, <2>1
      <4>2. note = NoNote /\ frames = <<>> /\ Silence'
        BY <4>1, <2>1, <2>3 DEF Pipeline, Places, Silence
      <4>3. ~Over BY <2>1 DEF Over
      <4>4. LastIsLast' BY <4>1, <4>2, <4>3, <2>1 DEF Pipeline, LastIsLast, LastIn
      <4>5. Places' BY <4>1, <2>1, <3>1 DEF Pipeline, Places
      <4>6. PICK b \in Nat, c \in Nat, d \in Nat : OnItsWay(t, b, c, d) BY <4>1 DEF Pipeline
      <4>7. OnItsWay(t, b, c, d)'
        BY <4>2, <4>6, <3>2, <2>1, <1>3 DEF OnItsWay, InOrder, Numbers, FrameNumbers
      <4> QED BY <4>4, <4>5, <4>7 DEF Pipeline
    <3> QED BY <3>3, <3>4, <3>5 DEF DoorbellInv
  <2> QED BY <2>2, <2>3
<1>10. CASE ReadOther
  <2>1. /\ thread = "reading" /\ frames = <<>>
        /\ UNCHANGED <<ws, view, wire, notes, keeper, frames, output, heard>>
        /\ \/ keeper = "refused" /\ note' = <<"unsupported", 0>> /\ thread' = "noting"
           \/ keeper = "lost" /\ thread' = "ended" /\ UNCHANGED note
    BY <1>10 DEF ReadOther, Notes
  <2>2. Num(<<"unsupported", 0>>) = 0 /\ <<"unsupported", 0>> \in Note BY DEF Num, Note
  <2>3. DoorbellForm' BY <1>2, <2>1, <2>2 DEF DoorbellForm
  <2>4. Heard(t)' BY <1>1, <1>2, <2>1, HeardStays
  <2>5. ASSUME view' = "good" PROVE Pipeline(t)'
    <3>1. Pipeline(t) BY <2>5, <1>1, <2>1
    <3>2. note = NoNote BY <3>1, <2>1 DEF Pipeline, Places
    <3>3. ~Over BY <2>1 DEF Over
    <3>4. Silence' BY <2>1 DEF Silence
    <3>5. LastIsLast' BY <3>1, <3>3, <3>4, <2>1 DEF Pipeline, LastIsLast, LastIn
    <3>6. ws # "closed" BY <3>1, <2>1 DEF Pipeline, Places
    <3>7. Places' BY <3>1, <3>2, <3>6, <2>1 DEF Pipeline, Places
    <3>8. PICK b \in Nat, c \in Nat, d \in Nat : OnItsWay(t, b, c, d) BY <3>1 DEF Pipeline
    <3>9. Num(note') = 0 BY <2>1, <2>2, <3>2, <1>3
    <3>10. OnItsWay(t, b, c, d)'
      BY <3>2, <3>8, <3>9, <2>1, <1>3 DEF OnItsWay, InOrder, Numbers, FrameNumbers
    <3> QED BY <3>5, <3>7, <3>10 DEF Pipeline
  <2> QED BY <2>3, <2>4, <2>5 DEF DoorbellInv
<1>11. CASE ViewReads
  <2>1. /\ view = "good" /\ wire # <<>> /\ wire' = Tail(wire)
        /\ heard' = IF Head(wire)[1] = "heartbeat" THEN heard ELSE Append(heard, Head(wire))
        /\ UNCHANGED <<ws, view, thread, note, notes, keeper, frames, output>>
    BY <1>11 DEF ViewReads
  <2>2. PICK b \in Nat, c \in Nat, d \in Nat : OnItsWay(t, b, c, d) BY <2>1, <1>4
  <2>3. PICK h : h = Head(wire) OBVIOUS
  <2>4. PICK a : a = IF Num(h) = 0 THEN t ELSE t + 1 OBVIOUS
  <2>5. /\ h = wire[1] /\ h \in Note /\ Num(h) \in {0, t + 1}
        /\ wire' \in Seq(Note) /\ Len(wire') = Len(wire) - 1
        /\ \A i \in 1..Len(wire') : wire'[i] = wire[i + 1]
        /\ InOrder(Numbers(wire'), Len(wire'), a, b)
    <3>1. PICK q, r : q = wire /\ r = wire' OBVIOUS
    <3>2. q \in Seq(Note) /\ q # <<>> /\ r = Tail(q) /\ h = Head(q)
      BY <1>2, <2>1, <2>3, <3>1 DEF DoorbellForm
    <3>3. InOrder(Numbers(q), Len(q), t, b) BY <2>2, <3>1 DEF OnItsWay
    <3>4. /\ h = q[1] /\ h \in Note /\ Num(h) \in {0, t + 1}
          /\ r \in Seq(Note) /\ Len(r) = Len(q) - 1
          /\ \A i \in 1..Len(r) : r[i] = q[i + 1]
          /\ InOrder(Numbers(r), Len(r), a, b)

      <4>1. /\ h = q[1] /\ h \in Note /\ Num(h) \in {0, t + 1}
            /\ r \in Seq(Note) /\ Len(r) = Len(q) - 1
            /\ \A i \in 1..Len(r) : r[i] = q[i + 1]
        BY <3>2, <3>3, <2>2, <2>4, NotesTail
      <4>2. /\ Num(h) = 0 => InOrder(Numbers(r), Len(r), t, b)
            /\ Num(h) # 0 => InOrder(Numbers(r), Len(r), t + 1, b)
        BY <3>2, <3>3, <2>2, NotesTail
      <4>3. InOrder(Numbers(r), Len(r), a, b) BY <4>2, <2>4
      <4> QED BY <4>1, <4>3
    <3> QED BY <3>1, <3>4
  <2>6. Len(wire) \in Nat \ {0} BY <1>2, <2>1 DEF DoorbellForm
  <2>7. Pipeline(t) BY <1>1, <2>1
  <2>8. \A i \in 1..Len(heard) : heard[i][1] \notin LastNotes
    BY <2>1, <2>7 DEF Pipeline, LastIsLast
  <2>9. Len(heard) = t /\ \A i \in 1..t : heard[i] = <<"output", i>>
    BY <1>1, <2>8 DEF Heard
  <2>10. h[1] \in LastNotes => Len(wire) = 1 /\ notes = <<>> /\ Over
    BY <2>5, <2>6, <2>7 DEF Pipeline, LastIsLast, LastIn
  <2>11. h[1] \in LastNotes => t = output
    <3> SUFFICES ASSUME h[1] \in LastNotes PROVE t = output OBVIOUS
    <3>1. Num(h) = 0 BY DEF Num, LastNotes
    <3>2. Len(wire') = 0 /\ Len(notes) = 0 /\ Len(frames) = 0 /\ Num(note) = 0
      <4>1. Len(wire) = 1 /\ notes = <<>> /\ frames = <<>> /\ note = NoNote
        BY <2>10 DEF Over, Silence
      <4>2. Len(wire') = 0 BY <4>1, <2>5
      <4>3. Len(notes) = 0 /\ Len(frames) = 0 BY <4>1
      <4>4. Num(note) = 0 BY <4>1, <1>3
      <4> QED BY <4>2, <4>3, <4>4, Zenon
    <3>3. t = b
      <4>1. a = t BY <2>4, <3>1
      <4>2. InOrder(Numbers(wire'), Len(wire'), a, b) BY <2>5
      <4>3. InOrder(Numbers(wire'), 0, t, b) BY <4>1, <4>2, <3>2
      <4> QED BY <4>3, OrderEmpty
    <3>4. b = c BY <2>2, <3>2, OrderEmpty DEF OnItsWay
    <3>5. c = d BY <2>2, <3>2 DEF OnItsWay
    <3>6. d = output BY <1>2, <2>2, <3>2, OrderEmpty DEF OnItsWay, DoorbellForm
    <3> QED BY <3>3, <3>4, <3>5, <3>6
  <2>12. PICK g : g = heard' OBVIOUS
  <2>13. /\ h[1] = "heartbeat" => g = heard
         /\ h[1] # "heartbeat" =>
              g \in Seq(Note) /\ Len(g) = t + 1 /\ g[t + 1] = h /\ \A i \in 1..t : g[i] = heard[i]
    BY <1>2, <2>1, <2>3, <2>5, <2>9, <2>12 DEF DoorbellForm
  <2>14. /\ h[1] = "output" => h = <<"output", t + 1>> /\ Num(h) = t + 1
         /\ h[1] # "output" => Num(h) = 0 /\ h[1] \in LastNotes \cup {"heartbeat"}
    BY <2>5 DEF Num, Note, LastNotes
  <2>15. a \in Nat /\ a <= b /\ b <= c /\ c <= d /\ d <= output
    BY <2>2, <2>4, <2>5 DEF InOrder, OnItsWay
  <2>16. DoorbellForm' BY <1>2, <2>1, <2>5, <2>12, <2>13 DEF DoorbellForm
  <2>17. Heard(a)'
    <3>1. CASE h[1] = "output"
      <4>1. a = t + 1 BY <3>1, <2>4, <2>14
      <4>2. Len(g) = t + 1 /\ \A i \in 1..(t + 1) : g[i] = <<"output", i>>
        <5>1. \A i \in 1..(t + 1) : i \in 1..t \/ i = t + 1 OBVIOUS
        <5>2. Len(g) = t + 1 /\ g[t + 1] = h /\ \A i \in 1..t : g[i] = heard[i]
          BY <3>1, <2>13
        <5>3. h = <<"output", t + 1>> BY <3>1, <2>14
        <5>4. \A i \in 1..t : heard[i] = <<"output", i>> BY <2>9
        <5> QED BY <5>1, <5>2, <5>3, <5>4
      <4>3. t + 1 <= output /\ output' = output BY <4>1, <2>1, <2>2, <2>15, <1>2 DEF DoorbellForm
      <4>4. Len(g) # (t + 1) + 1 BY <4>2
      <4>5. Heard(t + 1)' BY <4>2, <4>3, <4>4, <2>12 DEF Heard
      <4> QED BY <4>1, <4>5
    <3>2. CASE h[1] = "heartbeat"
      <4>1. a = t /\ heard' = heard /\ UNCHANGED <<output, keeper>>
        BY <3>2, <2>1, <2>3, <2>4, <2>14
      <4> QED BY <4>1, <1>1, <1>2, HeardStays
    <3>3. CASE h[1] \in LastNotes
      <4>1. a = t /\ h[1] # "heartbeat" /\ keeper # "open"
        BY <3>3, <2>4, <2>10, <2>14 DEF LastNotes, Over, Silence
      <4> QED BY <4>1, <3>3, <2>1, <2>9, <2>11, <2>12, <2>13, <2>15 DEF Heard
    <3> QED BY <3>1, <3>2, <3>3, <2>14
  <2>18. LastIsLast'
    <3>1. Over' <=> Over BY <2>1 DEF Over, Silence
    <3>2. LastIn(wire)' /\ (\A i \in 1..Len(wire') : wire'[i][1] \in LastNotes => notes' = <<>>)
      <4>1. \A i \in 1..Len(wire') : i + 1 \in 1..Len(wire) /\ wire'[i] = wire[i + 1]
        BY <2>5, <2>6
      <4>2. ASSUME NEW i \in 1..Len(wire'), wire'[i][1] \in LastNotes
            PROVE  i = Len(wire') /\ Over' /\ notes' = <<>>
        <5>1. i + 1 = Len(wire) /\ Over /\ notes = <<>>
          BY <4>1, <4>2, <2>7 DEF Pipeline, LastIsLast, LastIn
        <5> QED BY <5>1, <3>1, <2>1, <2>5, <2>6
      <4> QED BY <4>2 DEF LastIn
    <3>3. LastIn(notes)' BY <3>1, <2>1, <2>7 DEF Pipeline, LastIsLast, LastIn
    <3>4. ASSUME NEW i \in 1..Len(g), g[i][1] \in LastNotes
          PROVE  wire' = <<>> /\ notes' = <<>> /\ Over'
      <4>1. g[i] = h /\ h[1] \in LastNotes
        BY <3>4, <2>8, <2>9, <2>13, <2>14
      <4>2. Len(wire') = 0 BY <4>1, <2>5, <2>10
      <4> QED BY <4>1, <4>2, <3>1, <2>1, <2>5, <2>10
    <3>5. (note[1] \in LastNotes => Silence)' BY <2>1, <2>7 DEF Pipeline, LastIsLast, Silence
    <3> QED BY <3>2, <3>3, <3>4, <3>5, <2>1, <2>7, <2>12 DEF Pipeline, LastIsLast
  <2>19. Places' BY <2>1, <2>7 DEF Pipeline, Places
  <2>20. OnItsWay(a, b, c, d)' BY <2>1, <2>2, <2>5 DEF OnItsWay, InOrder, Numbers, FrameNumbers
  <2> QED BY <2>15, <2>16, <2>17, <2>18, <2>19, <2>20 DEF DoorbellInv, Pipeline
<1>12. CASE Ring
  <2>1. /\ ws = "ringing" /\ notes # <<>> /\ notes' = Tail(notes)
        /\ UNCHANGED <<view, thread, note, keeper, frames, output, heard>>
        /\ IF view = "gone" THEN ws' = "closed" /\ UNCHANGED wire
           ELSE wire' = Append(wire, Head(notes)) /\ UNCHANGED ws
    BY <1>12 DEF Ring
  <2>2. Heard(t)' BY <1>1, <1>2, <2>1, HeardStays
  <2>3. Len(notes) \in Nat \ {0} /\ Head(notes) \in Note /\ notes' \in Seq(Note)
    BY <1>2, <2>1 DEF DoorbellForm
  <2>4. DoorbellForm' BY <1>2, <2>1, <2>3 DEF DoorbellForm
  <2>5. ASSUME view' = "good" PROVE Pipeline(t)'
    <3>1. Pipeline(t) /\ UNCHANGED ws /\ wire' = Append(wire, Head(notes)) BY <2>1, <2>5, <1>1
    <3>2. PICK b \in Nat, c \in Nat, d \in Nat : OnItsWay(t, b, c, d) BY <2>1, <2>5, <1>4
    <3>3. PICK h : h = Head(notes) OBVIOUS
    <3>4. PICK e : e = IF Num(h) = 0 THEN b ELSE b + 1 OBVIOUS
    <3>5. /\ h = notes[1] /\ h \in Note /\ Num(h) \in {0, b + 1}
          /\ Len(notes') = Len(notes) - 1
          /\ \A i \in 1..Len(notes') : notes'[i] = notes[i + 1]
          /\ InOrder(Numbers(notes'), Len(notes'), e, c)
      <4>1. PICK q, r : q = notes /\ r = notes' OBVIOUS
      <4>2. q \in Seq(Note) /\ q # <<>> /\ r = Tail(q) /\ h = Head(q)
        BY <1>2, <2>1, <3>3, <4>1 DEF DoorbellForm
      <4>3. InOrder(Numbers(q), Len(q), b, c) BY <3>2, <4>1 DEF OnItsWay
      <4>4. /\ h = q[1] /\ h \in Note /\ Num(h) \in {0, b + 1} /\ Len(r) = Len(q) - 1
            /\ \A i \in 1..Len(r) : r[i] = q[i + 1]
        BY <4>2, <4>3, NotesTail
      <4>5. /\ Num(h) = 0 => InOrder(Numbers(r), Len(r), b, c)
            /\ Num(h) # 0 => InOrder(Numbers(r), Len(r), b + 1, c)
        BY <4>2, <4>3, NotesTail
      <4>6. InOrder(Numbers(r), Len(r), e, c) BY <4>5, <3>4
      <4> QED BY <4>1, <4>4, <4>6
    <3>6. PICK w : w = wire' OBVIOUS
    <3>7. w = Append(wire, h) BY <3>1, <3>3, <3>6
    <3>8. /\ Len(w) = Len(wire) + 1 /\ w[Len(wire) + 1] = h
          /\ \A i \in 1..Len(wire) : w[i] = wire[i]
          /\ InOrder(Numbers(w), Len(w), t, e)
      <4>1. PICK q : q = wire OBVIOUS
      <4>2. q \in Seq(Note) /\ InOrder(Numbers(q), Len(q), t, b) /\ w = Append(q, h)
        BY <1>2, <3>2, <3>7, <4>1 DEF DoorbellForm, OnItsWay
      <4>3. /\ Len(w) = Len(q) + 1 /\ w[Len(q) + 1] = h
            /\ \A i \in 1..Len(q) : w[i] = q[i]
        BY <3>5, <4>2, NotesAppend
      <4>4. /\ Num(h) = 0 => InOrder(Numbers(w), Len(w), t, b)
            /\ Num(h) # 0 => InOrder(Numbers(w), Len(w), t, b + 1)
        BY <3>5, <4>2, NotesAppend
      <4>5. InOrder(Numbers(w), Len(w), t, e) BY <4>4, <3>4
      <4> QED BY <4>1, <4>3, <4>5
    <3>9. OnItsWay(t, e, c, d)'
      BY <2>1, <3>2, <3>5, <3>6, <3>8 DEF OnItsWay, InOrder, Numbers, FrameNumbers
    <3>10. e \in Nat BY <3>4
    <3>11. Len(wire) \in Nat /\ Len(notes) \in Nat \ {0} BY <1>2, <2>3 DEF DoorbellForm
    <3>12. Over' <=> Over BY <2>1 DEF Over, Silence
    <3>13. h[1] \in LastNotes => Len(notes) = 1 /\ Over
      BY <3>1, <3>5, <3>11 DEF Pipeline, LastIsLast, LastIn
    <3>14. \A i \in 1..Len(wire) : wire[i][1] \notin LastNotes
      BY <2>1, <3>1 DEF Pipeline, LastIsLast
    <3>15. LastIn(w)' /\ \A i \in 1..Len(w) : w[i][1] \in LastNotes => notes' = <<>>
      <4>1. ASSUME NEW i \in 1..Len(w), w[i][1] \in LastNotes
            PROVE  i = Len(w) /\ Over' /\ notes' = <<>>
        <5>1. i = Len(w) /\ w[i] = h BY <4>1, <3>8, <3>11, <3>14
        <5>2. Len(notes') = 0 BY <4>1, <5>1, <3>5, <3>13
        <5> QED BY <4>1, <5>1, <5>2, <2>3, <3>12, <3>13
      <4> QED BY <4>1 DEF LastIn
    <3>16. LastIn(notes)'
      <4>1. \A i \in 1..Len(notes') : i + 1 \in 1..Len(notes) /\ notes'[i] = notes[i + 1]
        BY <3>5, <3>11
      <4>2. ASSUME NEW i \in 1..Len(notes'), notes'[i][1] \in LastNotes
            PROVE  i = Len(notes') /\ Over'
        <5>1. i + 1 = Len(notes) /\ Over
          BY <4>1, <4>2, <3>1 DEF Pipeline, LastIsLast, LastIn
        <5> QED BY <5>1, <3>5, <3>11, <3>12
      <4> QED BY <4>2 DEF LastIn
    <3>17. \A i \in 1..Len(heard) : heard[i][1] \notin LastNotes
      BY <2>1, <3>1 DEF Pipeline, LastIsLast
    <3>18. (note[1] \in LastNotes => Silence)' BY <2>1, <3>1 DEF Pipeline, LastIsLast, Silence
    <3>19. LastIsLast'
      BY <2>1, <3>1, <3>6, <3>15, <3>16, <3>17, <3>18 DEF Pipeline, LastIsLast, LastIn
    <3>20. Places' BY <2>1, <3>1 DEF Pipeline, Places
    <3> QED BY <3>9, <3>10, <3>19, <3>20 DEF Pipeline
  <2> QED BY <2>2, <2>4, <2>5 DEF DoorbellInv
<1>13. CASE ReadFrame
  <2> DEFINE f == Head(frames)
             n == IF f.data THEN <<"output", f.next>>
                  ELSE IF f.exited THEN <<"exited", 0>> ELSE <<"heartbeat", 0>>
  <2>1. /\ thread = "reading" /\ frames # <<>> /\ frames' = Tail(frames)
        /\ note' = n /\ thread' = "noting"
        /\ UNCHANGED <<ws, view, wire, notes, keeper, output, heard>>
    BY <1>13 DEF ReadFrame, Notes
  <2> HIDE DEF f
  <2>2. f \in Frame /\ Len(frames) \in Nat \ {0} /\ frames' \in Seq(Frame) /\ f = frames[1]
    BY <1>2, <2>1 DEF DoorbellForm, f
  <2>3. n \in Note /\ Num(n) = FrameNum(f) /\ (n[1] \in LastNotes => ~f.data /\ f.exited)
    BY <2>2 DEF Note, Frame, Num, FrameNum, LastNotes
  <2> HIDE DEF n
  <2>4. DoorbellForm' BY <1>2, <2>1, <2>2, <2>3 DEF DoorbellForm
  <2>5. Heard(t)' BY <1>1, <1>2, <2>1, HeardStays
  <2>6. ASSUME view' = "good" PROVE Pipeline(t)'
    <3>1. Pipeline(t) BY <2>1, <2>6, <1>1
    <3>2. note = NoNote /\ Num(note) = 0 /\ ~Over
      BY <3>1, <2>1, <1>3 DEF Pipeline, Places, Over
    <3>3. PICK b \in Nat, c \in Nat, d \in Nat : OnItsWay(t, b, c, d) BY <2>1, <2>6, <1>4
    <3>4. d = c /\ InOrder(FrameNumbers(frames), Len(frames), c, output)
      BY <3>2, <3>3 DEF OnItsWay
    <3>5. PICK e : e = IF FrameNum(f) = 0 THEN c ELSE c + 1 OBVIOUS
    <3>6. /\ FrameNum(f) \in {0, c + 1} /\ Len(frames') = Len(frames) - 1
          /\ \A i \in 1..Len(frames') : frames'[i] = frames[i + 1]
          /\ InOrder(FrameNumbers(frames'), Len(frames'), e, output)
      <4>1. PICK q, r : q = frames /\ r = frames' OBVIOUS
      <4>2. /\ q \in Seq(Frame) /\ q # <<>> /\ r = Tail(q) /\ f = Head(q) /\ output \in Nat
            /\ InOrder(FrameNumbers(q), Len(q), c, output)
        BY <1>2, <2>1, <3>4, <4>1 DEF DoorbellForm, f
      <4>3. /\ FrameNum(f) \in {0, c + 1} /\ Len(r) = Len(q) - 1
            /\ \A i \in 1..Len(r) : r[i] = q[i + 1]
        BY <4>2, FramesTail
      <4>4. /\ FrameNum(f) = 0 => InOrder(FrameNumbers(r), Len(r), c, output)
            /\ FrameNum(f) # 0 => InOrder(FrameNumbers(r), Len(r), c + 1, output)
        BY <4>2, FramesTail
      <4>5. InOrder(FrameNumbers(r), Len(r), e, output) BY <4>4, <3>5
      <4> QED BY <4>1, <4>3, <4>5
    <3>7. e \in Nat /\ Num(note') \in {0, e} /\ e = IF Num(note') = 0 THEN c ELSE c + 1
      BY <2>1, <2>3, <3>5, <3>6
    <3>8. OnItsWay(t, b, c, e)'
      BY <2>1, <3>3, <3>6, <3>7 DEF OnItsWay, InOrder, Numbers
    <3>9. ASSUME n[1] \in LastNotes PROVE Silence'
      <4>1. 1 \in 1..Len(frames) /\ ~frames[1].data /\ frames[1].exited BY <3>9, <2>2, <2>3
      <4>2. 1 = Len(frames) /\ keeper # "open"
        BY <3>1, <4>1 DEF Pipeline, LastIsLast
      <4>3. Len(frames') = 0 BY <4>2, <3>6
      <4> QED BY <4>2, <4>3, <2>1, <2>2 DEF Silence
    <3>10. \A i \in 1..Len(frames') :
             ~frames'[i].data /\ frames'[i].exited => i = Len(frames') /\ keeper' # "open"
      <4> TAKE i \in 1..Len(frames')
      <4>1. i + 1 \in 1..Len(frames) /\ frames'[i] = frames[i + 1] BY <3>6, <2>2
      <4>2. ~frames[i + 1].data /\ frames[i + 1].exited => i + 1 = Len(frames) /\ keeper # "open"
        BY <3>1, <4>1 DEF Pipeline, LastIsLast
      <4>3. i + 1 = Len(frames) => i = Len(frames') BY <3>6, <2>2
      <4> QED BY <4>1, <4>2, <4>3, <2>1
    <3>11. LastIsLast'
      BY <3>1, <3>2, <3>9, <3>10, <2>1 DEF Pipeline, LastIsLast, LastIn
    <3>12. Places' BY <3>1, <2>1 DEF Pipeline, Places
    <3> QED BY <3>7, <3>8, <3>11, <3>12 DEF Pipeline
  <2> QED BY <2>4, <2>5, <2>6 DEF DoorbellInv
<1>14. CASE HandOver
  <2>1. /\ thread = "noting" /\ note' = NoNote
        /\ IF ws = "closed" THEN thread' = "ended" /\ UNCHANGED notes
           ELSE /\ notes' = Append(notes, note)
                /\ thread' = IF note[1] \in LastNotes THEN "ended" ELSE "reading"
        /\ UNCHANGED <<ws, view, wire, keeper, frames, output, heard>>
    BY <1>14 DEF HandOver
  <2>2. note \in Note /\ notes \in Seq(Note) BY <1>2, <2>1 DEF DoorbellForm
  <2>3. thread' \in {"ended", "reading"} BY <2>1
  <2>4. notes' \in Seq(Note) BY <2>1, <2>2
  <2>5. DoorbellForm' BY <1>2, <2>1, <2>3, <2>4 DEF DoorbellForm
  <2>6. Heard(t)' BY <1>1, <1>2, <2>1, HeardStays
  <2>7. ASSUME view' = "good" PROVE Pipeline(t)'
    <3>1. Pipeline(t) /\ ~Over /\ ws # "closed"
      BY <2>1, <2>7, <1>1 DEF Over, Pipeline, Places
    <3>2. PICK b \in Nat, c \in Nat, d \in Nat : OnItsWay(t, b, c, d) BY <2>1, <2>7, <1>4
    <3>3. PICK w : w = notes' OBVIOUS
    <3>4. /\ Len(w) = Len(notes) + 1 /\ w[Len(notes) + 1] = note
          /\ \A i \in 1..Len(notes) : w[i] = notes[i]
          /\ InOrder(Numbers(w), Len(w), b, d)
      <4>1. PICK q, n : q = notes /\ n = note OBVIOUS
      <4>2. /\ q \in Seq(Note) /\ n \in Note /\ w = Append(q, n)
            /\ InOrder(Numbers(q), Len(q), b, c) /\ Num(n) \in {0, c + 1}
        BY <2>1, <2>2, <3>1, <3>2, <3>3, <4>1 DEF OnItsWay
      <4>3. /\ Len(w) = Len(q) + 1 /\ w[Len(q) + 1] = n
            /\ \A i \in 1..Len(q) : w[i] = q[i]
        BY <4>2, NotesAppend
      <4>4. /\ Num(n) = 0 => InOrder(Numbers(w), Len(w), b, c)
            /\ Num(n) # 0 => InOrder(Numbers(w), Len(w), b, c + 1)
        BY <4>2, NotesAppend
      <4>5. InOrder(Numbers(w), Len(w), b, d) BY <4>1, <4>4, <3>2 DEF OnItsWay
      <4> QED BY <4>1, <4>3, <4>5
    <3>5. OnItsWay(t, b, d, d)'
      BY <2>1, <3>2, <3>3, <3>4, <1>3 DEF OnItsWay, InOrder, Numbers, FrameNumbers
    <3>6. Len(notes) \in Nat BY <2>2
    <3>7. ASSUME note[1] \in LastNotes PROVE Over'
      BY <3>1, <3>7, <2>1 DEF Pipeline, LastIsLast, Silence, Over
    <3>8. LastIn(w)'
      <4>1. ASSUME NEW i \in 1..Len(w), w[i][1] \in LastNotes PROVE i = Len(w) /\ Over'
        <5>1. \A j \in 1..Len(notes) : notes[j][1] \notin LastNotes
          BY <3>1 DEF Pipeline, LastIsLast, LastIn
        <5>2. i = Len(w) /\ w[i] = note BY <4>1, <5>1, <3>4, <3>6
        <5> QED BY <4>1, <5>2, <3>7
      <4> QED BY <4>1 DEF LastIn
    <3>9. NoNote[1] \notin LastNotes BY DEF NoNote, LastNotes
    <3>10. LastIsLast'
      BY <3>1, <3>3, <3>8, <3>9, <2>1 DEF Pipeline, LastIsLast, LastIn
    <3>11. Places' BY <3>1, <2>1, <2>3 DEF Pipeline, Places
    <3> QED BY <3>5, <3>10, <3>11 DEF Pipeline
  <2> QED BY <2>5, <2>6, <2>7 DEF DoorbellInv
\* The keeper sends a frame.
<1>15. ASSUME Subscribed, NEW r \in Frame, frames' = Append(frames, r),
              FrameNum(r) \in {0, output + 1},
              output' = IF FrameNum(r) = 0 THEN output ELSE output + 1,
              UNCHANGED <<ws, view, wire, thread, note, notes, heard>>,
              keeper' = "open" \/ output' = output,
              ~r.data /\ r.exited => keeper' # "open"
       PROVE  DoorbellInv'
  <2>1. thread \in {"reading", "noting"} /\ keeper = "open" BY <1>15 DEF Subscribed
  <2>2. frames \in Seq(Frame) /\ output \in Nat BY <1>2 DEF DoorbellForm
  <2>3. frames' \in Seq(Frame) /\ output' \in Nat /\ output <= output' BY <1>15, <2>2
  <2>4. DoorbellForm' BY <1>2, <1>15, <2>3 DEF DoorbellForm
  <2>5. Heard(t)' BY <1>1, <1>2, <1>15, <2>1, <2>3, HeardStays
  <2>6. ASSUME view' = "good" PROVE Pipeline(t)'
    <3>1. Pipeline(t) /\ ~Over BY <1>15, <2>1, <2>6, <1>1 DEF Over
    <3>2. PICK b \in Nat, c \in Nat, d \in Nat : OnItsWay(t, b, c, d) BY <1>15, <2>6, <1>4
    <3>3. PICK w, o : w = frames' /\ o = output' OBVIOUS
    <3>4. /\ Len(w) = Len(frames) + 1 /\ w[Len(frames) + 1] = r
          /\ \A i \in 1..Len(frames) : w[i] = frames[i]
          /\ InOrder(FrameNumbers(w), Len(w), d, o)
      <4>1. PICK q, p : q = frames /\ p = output OBVIOUS
      <4>2. /\ q \in Seq(Frame) /\ w = Append(q, r) /\ p \in Nat
            /\ InOrder(FrameNumbers(q), Len(q), d, p) /\ FrameNum(r) \in {0, p + 1}
        BY <1>15, <2>2, <3>2, <3>3, <4>1 DEF OnItsWay
      <4>3. /\ Len(w) = Len(q) + 1 /\ w[Len(q) + 1] = r
            /\ \A i \in 1..Len(q) : w[i] = q[i]
        BY <4>2, FramesAppend
      <4>4. /\ FrameNum(r) = 0 => InOrder(FrameNumbers(w), Len(w), d, p)
            /\ FrameNum(r) # 0 => InOrder(FrameNumbers(w), Len(w), d, p + 1)
        BY <4>2, FramesAppend
      <4>5. InOrder(FrameNumbers(w), Len(w), d, o) BY <4>1, <4>4, <3>3, <1>15
      <4> QED BY <4>1, <4>3, <4>5
    <3>5. OnItsWay(t, b, c, d)'
      BY <1>15, <3>2, <3>3, <3>4 DEF OnItsWay, InOrder, Numbers
    <3>6. note[1] \notin LastNotes /\ Len(frames) \in Nat
      BY <3>1, <2>1, <2>2 DEF Pipeline, LastIsLast, Silence
    <3>7. ASSUME NEW i \in 1..Len(w), ~w[i].data /\ w[i].exited
          PROVE  i = Len(w) /\ keeper' # "open"
      <4>1. \A j \in 1..Len(frames) : ~(~frames[j].data /\ frames[j].exited)
        BY <3>1, <2>1 DEF Pipeline, LastIsLast
      <4>2. i = Len(w) /\ w[i] = r BY <4>1, <3>4, <3>6, <3>7
      <4> QED BY <4>2, <3>7, <1>15
    <3>8. LastIsLast'
      BY <1>15, <3>1, <3>3, <3>6, <3>7 DEF Pipeline, LastIsLast, LastIn
    <3>9. Places' BY <1>15, <2>1, <3>1 DEF Pipeline, Places
    <3> QED BY <3>5, <3>8, <3>9 DEF Pipeline
  <2> QED BY <2>4, <2>5, <2>6 DEF DoorbellInv
<1>16. CASE KeeperSendsOutput
  <2>1. PICK gone \in BOOLEAN :
          /\ Subscribed /\ output' = output + 1
          /\ frames' = Append(frames, [data |-> TRUE, next |-> output + 1, exited |-> gone])
          /\ UNCHANGED <<ws, view, wire, thread, note, notes, keeper, heard>>
    BY <1>16 DEF KeeperSendsOutput, Sends
  <2>2. PICK r : r = [data |-> TRUE, next |-> output + 1, exited |-> gone] OBVIOUS
  <2>3. output \in Nat BY <1>2 DEF DoorbellForm
  <2>4. r \in Frame /\ FrameNum(r) = output + 1 /\ r.data BY <2>2, <2>3 DEF Frame, FrameNum
  <2>5. output + 1 # 0 BY <2>3
  <2>6. keeper = "open" /\ keeper' = keeper BY <2>1 DEF Subscribed
  <2>7. frames' = Append(frames, r) BY <2>1, <2>2
  <2> QED BY <1>15, <2>1, <2>4, <2>5, <2>6, <2>7
<1>17. CASE KeeperHeartbeat
  <2>1. /\ Subscribed /\ output' = output
        /\ frames' = Append(frames, [data |-> FALSE, next |-> output, exited |-> FALSE])
        /\ UNCHANGED <<ws, view, wire, thread, note, notes, keeper, heard>>
    BY <1>17 DEF KeeperHeartbeat, Sends
  <2>2. PICK r : r = [data |-> FALSE, next |-> output, exited |-> FALSE] OBVIOUS
  <2>3. output \in Nat BY <1>2 DEF DoorbellForm
  <2>4. r \in Frame /\ FrameNum(r) = 0 /\ ~r.exited BY <2>2, <2>3 DEF Frame, FrameNum
  <2>5. frames' = Append(frames, r) BY <2>1, <2>2
  <2> QED BY <1>15, <2>1, <2>4, <2>5
<1>18. CASE KeeperCloses
  <2>1. /\ Subscribed /\ UNCHANGED <<ws, view, wire, thread, note, notes, output, heard>>
        /\ \/ /\ frames' = Append(frames, [data |-> FALSE, next |-> output, exited |-> TRUE])
              /\ keeper' = "exited"
           \/ keeper' = "refused" /\ UNCHANGED frames
    BY <1>18 DEF KeeperCloses, Sends
  <2>2. CASE keeper' = "exited"
    <3>1. PICK r : r = [data |-> FALSE, next |-> output, exited |-> TRUE] OBVIOUS
    <3>2. output \in Nat BY <1>2 DEF DoorbellForm
    <3>3. r \in Frame /\ FrameNum(r) = 0 BY <3>1, <3>2 DEF Frame, FrameNum
    <3>4. frames' = Append(frames, r) BY <2>1, <2>2, <3>1
    <3> QED BY <1>15, <2>1, <2>2, <3>3, <3>4
  <2>3. CASE keeper' = "refused" /\ UNCHANGED frames
    <3>1. Places => Places' BY <2>1, <2>3 DEF Places
    <3> QED BY <1>5, <2>1, <2>3, <3>1
  <2> QED BY <2>1, <2>2, <2>3
<1>19. CASE UNCHANGED doorbellVars
  <2>1. UNCHANGED <<ws, heard, wire, notes, note, frames, output, keeper, view, thread>>
    BY <1>19 DEF doorbellVars
  <2>2. Places => Places' BY <2>1 DEF Places
  <2> QED BY <1>5, <2>1, <2>2
<1> QED
  BY <1>6, <1>7, <1>8, <1>9, <1>10, <1>11, <1>12, <1>13, <1>14, <1>16, <1>17, <1>18, <1>19
  DEF DoorbellNext, DoorbellTask, DoorbellThread, KeeperPushes

\* At first nothing is sent and nothing is heard.
LEMMA DoorbellStart ==
  ASSUME DoorbellInit
  PROVE  DoorbellInv
<1>1. /\ heard = <<>> /\ wire = <<>> /\ notes = <<>> /\ frames = <<>> /\ output = 0
      /\ note = NoNote /\ thread = "none" /\ ws = "auth"
  BY DEF DoorbellInit
<1>2. Num(NoNote) = 0 /\ NoNote[1] \notin LastNotes BY DEF NoNote, Num, LastNotes
<1>3. DoorbellForm BY <1>1 DEF DoorbellForm
<1>4. Len(heard) = 0 /\ Len(wire) = 0 /\ Len(notes) = 0 /\ Len(frames) = 0 BY <1>1
<1>5. Heard(0) BY <1>1, <1>4 DEF Heard
<1>6. OnItsWay(0, 0, 0, 0) BY <1>1, <1>2, <1>4, OrderEmpty DEF OnItsWay
<1>7. LastIsLast BY <1>1, <1>2, <1>4 DEF LastIsLast, LastIn
<1>8. Places BY <1>1 DEF Places
<1>9. Pipeline(0) BY <1>6, <1>7, <1>8 DEF Pipeline
<1> QED BY <1>3, <1>5, <1>9 DEF DoorbellInv

\* What is heard of such a pipeline is in order.
LEMMA HeardIsInOrder ==
  ASSUME DoorbellInv
  PROVE  ExitIsRungLast
<1>1. PICK t \in Nat : Heard(t) BY DEF DoorbellInv
<1>2. Len(heard) \in {t, t + 1} /\ DOMAIN heard = 1..Len(heard)
  BY <1>1 DEF DoorbellInv, DoorbellForm, Heard
<1>3. "output" \notin LastNotes /\ "output" # "exited" BY DEF LastNotes
<1>4. PICK l : l = Len(heard) /\ l \in {t, t + 1} BY <1>2
<1>5. ASSUME NEW i \in 1..l PROVE i \in 1..t \/ (i = t + 1 /\ l = t + 1) BY <1>4
<1>6. ASSUME NEW i \in DOMAIN heard
      PROVE  /\ heard[i][1] = "output" => heard[i][2] = i
             /\ heard[i][1] \in LastNotes => i = Len(heard)
             /\ heard[i][1] = "exited" => output = i - 1
  <2>1. i \in 1..t \/ (i = t + 1 /\ Len(heard) = t + 1) BY <1>2, <1>4, <1>5
  <2>2. CASE i \in 1..t
    <3>1. heard[i] = <<"output", i>> BY <1>1, <2>2 DEF Heard
    <3>2. heard[i][1] = "output" /\ heard[i][2] = i BY <3>1
    <3> QED BY <3>2, <1>3
  <2>3. CASE i = t + 1 /\ Len(heard) = t + 1
    <3>1. /\ heard[i][1] \in LastNotes
          /\ heard[i][1] = "exited" => output = t
      BY <1>1, <2>3 DEF Heard
    <3> QED BY <1>3, <2>3, <3>1
  <2> QED BY <2>1, <2>2, <2>3
<1> QED BY <1>6 DEF ExitIsRungLast

\* The view hears all output in the order it came, and the last note after all of it,
\* however the task, the thread, the keeper and the view take turns (main.rs:254).
THEOREM RungInOrder == DoorbellSpec => []ExitIsRungLast
<1>1. DoorbellInit => DoorbellInv BY DoorbellStart
<1>2. DoorbellInv /\ [DoorbellNext]_doorbellVars => DoorbellInv' BY DoorbellStep
<1>3. DoorbellInv => ExitIsRungLast BY HeardIsInOrder
<1> QED BY <1>1, <1>2, <1>3, PTL DEF DoorbellSpec

-------------------------------------------------------------------------------
(* The agent log: an answer holds the lines from where its request began,  *)
(* which is where the feed ended that it is folded into.                   *)

Event == [kind : {Call, Typed}, line : Nat]
Shown == UNION { [D -> Nat \ {0}] : D \in SUBSET Event }
Once(items) == \A e \in DOMAIN items : e.kind = Call => items[e] = 1

\* From b to this position are whole lines, or nothing.
Passed(at, b) == at <= b \/ (at <= Len(log) /\ log[at] = Newline)

\* The lines behind a feed's base and before the position are in it.
Covered(f, at) ==
  /\ at <= Len(log) /\ Passed(at, feed[f].base)
  /\ EventsBetween(feed[f].base, at) \subseteq DOMAIN feed[f].items

FeedInv(f) == Covered(f, feed[f].next) /\ Once(feed[f].items)

Waiting == [pc : {"tail", "open"}, feed : Pull, at : Nat, tail : BOOLEAN]
Reading == [pc : {"reading", "answered"}, feed : Pull, tail : BOOLEAN, base : Nat, at : Nat,
            events : SUBSET Event]
Feed == [base : Nat, next : Nat, items : Shown]

\* What a request has read are the lines from where it began, which is where its feed
\* ended when it asked, unless it asked for the tail.
PullInv(p) ==
  LET q == pull[p]
  IN  /\ q.pc = "tail" => q.tail
      /\ q.pc = "open" /\ ~q.tail => Covered(q.feed, q.at)
      /\ q.pc \in {"reading", "answered"} =>
           /\ q.base <= q.at /\ q.at <= Len(log) /\ Passed(q.at, q.base)
           /\ EventsBetween(q.base, q.at) \subseteq q.events
           /\ ~q.tail => Covered(q.feed, q.base)

\* Before the first answer every request has a feed of its own.
AloneInv ==
  agentFeed = NoPull =>
    \A p \in Pull : feed[p] = NoFeed /\ (pull[p] # Idle => pull[p].feed = p)

AgentForm ==
  /\ log \in Seq({Call, Typed, Newline}) /\ agentFeed \in Pull \cup {NoPull}
  /\ feed \in [Pull -> Feed] /\ pull \in [Pull -> {Idle} \cup Waiting \cup Reading]

AgentInv ==
  AgentForm /\ AloneInv /\ \A p \in Pull : FeedInv(p) /\ PullInv(p)

\* A line that ends has a first end.
LEMMA FirstEnd ==
  ASSUME NEW i \in Nat, Ends(i) # {}
  PROVE  /\ EndOf(i) \in Ends(i) /\ \A k \in Ends(i) : EndOf(i) <= k
<1>1. IsWellFoundedOn(OpToRel(<, Nat), Nat) BY NatLessThanWellFounded
<1>2. Ends(i) \in SUBSET Nat BY DEF Ends
<1>3. PICK n \in Ends(i) : \A m \in Ends(i) : <<m, n>> \notin OpToRel(<, Nat)
  BY <1>1, <1>2, WFMin, Zenon
<1>4. \A m \in Ends(i) : ~(m < n) BY <1>2, <1>3 DEF OpToRel
<1>5. \E j \in Ends(i) : \A k \in Ends(i) : j <= k
  <2>1. n \in Nat /\ \A m \in Ends(i) : m \in Nat BY <1>2
  <2> QED BY <1>4, <2>1
<1> QED BY <1>5 DEF EndOf

\* What begins at a position is an event of its line.
LEMMA EventsAreOfLine ==
  ASSUME AgentForm, NEW i \in Nat, Ends(i) # {}
  PROVE  EventsOf(i) \subseteq Event
<1>1. PICK j \in (i + 1)..Len(log) : TRUE BY DEF Ends
<1>2. Len(log) \in Nat BY DEF AgentForm
<1>3. i + 1 \in 1..Len(log) BY <1>1, <1>2
<1>4. log[i + 1] \in {Call, Typed, Newline} BY <1>3 DEF AgentForm
<1> QED BY <1>4 DEF EventsOf, Event

\* A line is read whole: between its first byte and its end no other begins.
LEMMA ReadsOneLine ==
  ASSUME AgentForm, NEW b \in Nat, NEW at \in Nat, b <= at, Ends(at) # {}
  PROVE  EventsBetween(b, EndOf(at)) \subseteq EventsBetween(b, at) \cup EventsOf(at)
<1>1. EndOf(at) \in Ends(at) /\ \A k \in Ends(at) : EndOf(at) <= k BY FirstEnd
<1>2. Len(log) \in Nat BY DEF AgentForm
<1>3. EndOf(at) \in (at + 1)..Len(log) BY <1>1 DEF Ends
<1>4. ASSUME NEW j \in b..(EndOf(at) - 1), Ends(j) # {}, NEW e \in EventsOf(j)
      PROVE  e \in EventsBetween(b, at) \cup EventsOf(at)
  <2>1. CASE j < at
    <3>1. j \in b..(at - 1) BY <2>1, <1>3
    <3> QED BY <3>1, <1>4 DEF EventsBetween
  <2>2. CASE j = at BY <2>2, <1>4
  <2>3. CASE j > at
    <3>1. log[j] = Newline /\ j \in (at + 1)..Len(log)
      BY <2>3, <1>2, <1>3, <1>4 DEF EventsOf, IsStart
    <3>2. j \in Ends(at) BY <3>1 DEF Ends
    <3> QED BY <3>2, <1>1, <1>3
  <2> QED BY <1>3, <2>1, <2>2, <2>3
<1> QED BY <1>4 DEF EventsBetween

\* The log grows behind what is passed: its lines are what they were.
LEMMA PassedStays ==
  ASSUME AgentForm, NEW c, log' = Append(log, c), NEW at \in Nat, NEW b \in Nat,
         Passed(at, b), at <= Len(log)
  PROVE  Passed(at, b)' /\ at <= Len(log') /\ EventsBetween(b, at)' = EventsBetween(b, at)
<1>1. PICK l, m : l = log /\ m = log' OBVIOUS
<1>2. /\ Len(l) \in Nat /\ Len(m) = Len(l) + 1
      /\ \A i \in 1..Len(l) : m[i] = l[i]
  BY <1>1 DEF AgentForm
<1>3. at <= Len(m) BY <1>1, <1>2
<1>4. CASE at <= b
  <2>1. b..(at - 1) = {} BY <1>4
  <2> QED BY <1>1, <1>3, <1>4, <2>1 DEF Passed, EventsBetween
<1>5. CASE at > b
  <2>1. at \in 1..Len(l) /\ l[at] = Newline BY <1>1, <1>2, <1>5 DEF Passed
  <2>2. Passed(at, b)' BY <1>1, <1>2, <1>3, <2>1 DEF Passed
  <2>3. ASSUME NEW j \in b..(at - 1)
        PROVE  Ends(j) # {} /\ Ends(j)' # {} /\ EventsOf(j)' = EventsOf(j)
    <3>1. j \in Nat /\ j + 1 \in 1..Len(l) /\ at \in (j + 1)..Len(l) /\ at \in (j + 1)..Len(m)
      BY <1>2, <2>1, <2>3
    <3>2. Ends(j) # {} BY <1>1, <2>1, <3>1 DEF Ends
    <3>3. m[at] = Newline /\ m[j + 1] = l[j + 1] BY <1>2, <2>1, <3>1
    <3>4. Ends(j)' # {} BY <1>1, <3>1, <3>3 DEF Ends
    <3>5. j = 0 \/ m[j] = l[j]
      <4>1. j # 0 => j \in 1..Len(l) BY <1>2, <3>1
      <4> QED BY <1>2, <4>1
    <3>6. IsStart(j)' <=> IsStart(j) BY <1>1, <1>2, <3>1, <3>5 DEF IsStart
    <3> QED BY <1>1, <3>2, <3>3, <3>4, <3>6 DEF EventsOf
  <2>4. EventsBetween(b, at)' = EventsBetween(b, at) BY <2>3 DEF EventsBetween
  <2> QED BY <1>1, <1>3, <2>2, <2>4
<1> QED BY <1>4, <1>5

\* What is folded is there, and a call only once.
LEMMA FoldAdds ==
  ASSUME NEW items \in Shown, NEW events \in SUBSET Event, Once(items)
  PROVE  /\ Fold(items, events) \in Shown
         /\ DOMAIN Fold(items, events) = DOMAIN items \cup events
         /\ Once(Fold(items, events))
<1>1. PICK D \in SUBSET Event : items \in [D -> Nat \ {0}] BY DEF Shown
<1>2. DOMAIN items = D /\ \A e \in D : items[e] \in Nat \ {0} BY <1>1
<1>3. PICK g : g = Fold(items, events) OBVIOUS
<1>4. /\ DOMAIN g = D \cup events
      /\ \A e \in D \cup events :
           g[e] = IF e \in events /\ ~(e.kind = Call /\ e \in D)
                    THEN Times(items, e) + 1 ELSE Times(items, e)
      /\ g = [e \in D \cup events |-> g[e]]
  BY <1>2, <1>3 DEF Fold
<1>5. \A e \in D : Times(items, e) = items[e] BY <1>2 DEF Times
<1>6. \A e \in events : e \notin D => Times(items, e) = 0 BY <1>2 DEF Times
<1>7. \A e \in D \cup events : g[e] \in Nat \ {0} BY <1>2, <1>4, <1>5, <1>6
<1>8. D \cup events \in SUBSET Event OBVIOUS
<1>9. g \in [D \cup events -> Nat \ {0}] BY <1>4, <1>7
<1>10. g \in Shown BY <1>8, <1>9 DEF Shown
<1>11. \A e \in D \cup events : e.kind = Call => g[e] = 1
  BY <1>2, <1>4, <1>5, <1>6 DEF Once
<1> QED BY <1>2, <1>3, <1>4, <1>10, <1>11 DEF Once

\* What a feed has it keeps, and it never needs more than it did.
LEMMA CoveredStays ==
  ASSUME NEW f \in Pull, NEW at \in Nat, Covered(f, at), AgentForm, AgentForm', log' = log,
         feed[f].base <= feed'[f].base, DOMAIN feed[f].items \subseteq DOMAIN feed'[f].items
  PROVE  Covered(f, at)'
<1> PICK b, c : b = feed[f].base /\ c = feed'[f].base OBVIOUS
<1>1. b \in Nat /\ c \in Nat /\ b <= c BY DEF AgentForm, Feed
<1>2. Passed(at, b) => Passed(at, c)' BY <1>1 DEF Passed
<1>3. EventsBetween(c, at)' \subseteq EventsBetween(b, at)
  <2>1. c..(at - 1) \subseteq b..(at - 1) BY <1>1
  <2>2. \A j : IsStart(j)' = IsStart(j) /\ Ends(j)' = Ends(j) BY DEF IsStart, Ends
  <2>3. \A j : EventsOf(j)' = EventsOf(j) BY <2>2 DEF EventsOf
  <2> QED BY <2>1, <2>2, <2>3 DEF EventsBetween
<1> QED BY <1>2, <1>3 DEF Covered

\* A request's pc says what it knows.
LEMMA PullShape ==
  ASSUME AgentForm, NEW p \in Pull
  PROVE  /\ pull[p].pc \in {"tail", "open"} => pull[p] \in Waiting
         /\ pull[p].pc \in {"reading", "answered"} => pull[p] \in Reading
         /\ pull[p] # Idle => pull[p].pc # "idle" /\ pull[p].feed \in Pull
<1>1. pull[p] \in {Idle} \cup Waiting \cup Reading BY DEF AgentForm
<1>2. ASSUME NEW q \in Waiting PROVE q.pc \in {"tail", "open"} /\ q.feed \in Pull
  BY DEF Waiting
<1>3. ASSUME NEW q \in Reading PROVE q.pc \in {"reading", "answered"} /\ q.feed \in Pull
  BY DEF Reading
<1>4. Idle.pc = "idle" BY DEF Idle
<1> QED BY <1>1, <1>2, <1>3, <1>4

\* One request moves, for the feed it was made for.
LEMMA OnePullMoves ==
  ASSUME AgentInv, NEW p \in Pull, NEW r \in {Idle} \cup Waiting \cup Reading,
         pull' = [pull EXCEPT ![p] = r], UNCHANGED <<log, feed, agentFeed>>,
         agentFeed = NoPull => r = Idle \/ r.feed = p, PullInv(p)'
  PROVE  AgentInv'
<1>1. AgentForm' BY DEF AgentInv, AgentForm
<1>2. /\ pull \in [Pull -> {Idle} \cup Waiting \cup Reading]
      /\ pull'[p] = r /\ \A q \in Pull \ {p} : pull'[q] = pull[q]
  BY DEF AgentInv, AgentForm
<1>3. AloneInv' BY <1>2 DEF AgentInv, AloneInv
<1>4. \A q \in Pull : FeedInv(q)'
  BY DEF AgentInv, FeedInv, Covered, Passed, EventsBetween, EventsOf, Ends, IsStart
<1>5. \A q \in Pull \ {p} : PullInv(q)'
  BY <1>2 DEF AgentInv, PullInv, Covered, Passed, EventsBetween, EventsOf, Ends, IsStart
<1> QED BY <1>1, <1>3, <1>4, <1>5 DEF AgentInv

\* Every step keeps the feeds covered.
LEMMA AgentStep ==
  ASSUME AgentInv, [AgentNext]_agentVars
  PROVE  AgentInv'
<1>1. AgentForm /\ Len(log) \in Nat BY DEF AgentInv, AgentForm
<1>2. \A f \in Pull : feed[f] \in Feed BY <1>1 DEF AgentForm
<1>3. CASE AgentWrites
  <2>1. PICK c \in {Call, Typed, Newline} :
          log' = Append(log, c) /\ UNCHANGED <<pull, feed, agentFeed>>
    BY <1>3 DEF AgentWrites
  <2>2. AgentForm' BY <1>1, <2>1 DEF AgentForm
  <2>3. ASSUME NEW f \in Pull, NEW at \in Nat, Covered(f, at) PROVE Covered(f, at)'
    <3>1. feed[f].base \in Nat BY <1>2 DEF Feed
    <3>2. at <= Len(log) /\ Passed(at, feed[f].base) BY <2>3 DEF Covered
    <3> QED BY <1>1, <2>1, <2>3, <3>1, <3>2, PassedStays DEF Covered
  <2>4. \A p \in Pull : FeedInv(p)' BY <1>2, <2>1, <2>3 DEF AgentInv, FeedInv, Feed
  <2>5. ASSUME NEW p \in Pull PROVE PullInv(p)'
    <3>1. PullInv(p) BY DEF AgentInv
    <3>2. CASE pull[p].pc \in {"tail", "open"}
      <4>1. pull[p] \in Waiting BY <1>1, <3>2, PullShape
      <4>2. pull[p].at \in Nat /\ pull[p].feed \in Pull BY <4>1 DEF Waiting
      <4> QED BY <2>1, <2>3, <3>1, <3>2, <4>2 DEF PullInv
    <3>3. CASE pull[p].pc \in {"reading", "answered"}
      <4>1. pull[p] \in Reading BY <1>1, <3>3, PullShape
      <4>2. pull[p].at \in Nat /\ pull[p].base \in Nat /\ pull[p].feed \in Pull
        BY <4>1 DEF Reading
      <4>3. Passed(pull[p].at, pull[p].base) /\ pull[p].at <= Len(log) BY <3>1, <3>3 DEF PullInv
      <4>4. /\ Passed(pull[p].at, pull[p].base)' /\ pull[p].at <= Len(log')
            /\ EventsBetween(pull[p].base, pull[p].at)' = EventsBetween(pull[p].base, pull[p].at)
        BY <1>1, <2>1, <4>2, <4>3, PassedStays
      <4> QED BY <2>1, <2>3, <3>1, <3>3, <4>2, <4>4 DEF PullInv
    <3> QED BY <2>1, <3>1, <3>2, <3>3 DEF PullInv
  <2>6. AloneInv' BY <2>1 DEF AgentInv, AloneInv
  <2> QED BY <2>2, <2>4, <2>5, <2>6 DEF AgentInv
<1>4. ASSUME NEW p \in Pull, PullAgent(p) PROVE AgentInv'
  <2>1. feed' = feed
    <3>1. agentFeed = NoPull => feed[p] = NoFeed BY DEF AgentInv, AloneInv
    <3>2. feed \in [Pull -> Feed] BY <1>1 DEF AgentForm
    <3> QED BY <1>4, <3>1, <3>2 DEF PullAgent
  <2>2. PICK f : f = IF agentFeed = NoPull THEN p ELSE agentFeed OBVIOUS
  <2>3. f \in Pull BY <1>1, <2>2 DEF AgentForm
  <2>4. feed[f].next \in Nat BY <1>2, <2>3 DEF Feed
  <2>5. PICK r : r = [pc |-> IF feed[f].next = 0 THEN "tail" ELSE "open", feed |-> f,
                      at |-> feed[f].next, tail |-> feed[f].next = 0]
    OBVIOUS
  <2>6. pull' = [pull EXCEPT ![p] = r] /\ UNCHANGED <<log, agentFeed>>
    BY <1>4, <2>1, <2>2, <2>5 DEF PullAgent
  <2>7. /\ r \in Waiting /\ r.feed = f
        /\ r.pc = "tail" => r.tail
        /\ r.pc \in {"tail", "open"} /\ r.at = feed[f].next
    BY <2>3, <2>4, <2>5 DEF Waiting
  <2>8. Covered(f, feed[f].next) BY <2>3 DEF AgentInv, FeedInv
  <2>9. Covered(f, feed[f].next)'
    BY <2>1, <2>6, <2>8 DEF Covered, Passed, EventsBetween, EventsOf, Ends, IsStart
  <2>10. pull'[p] = r BY <1>1, <2>6 DEF AgentForm
  <2>11. PullInv(p)' BY <2>1, <2>7, <2>9, <2>10 DEF PullInv
  <2> QED BY <2>1, <2>2, <2>6, <2>7, <2>11, OnePullMoves
<1>5. ASSUME NEW p \in Pull, OpenTail(p) PROVE AgentInv'
  <2>1. PICK size \in { Len(log), IF Len(log) = 0 THEN 0 ELSE Len(log) - 1 } :
          pull' = [pull EXCEPT ![p].pc = "open", ![p].at = TailStart(size)]
    BY <1>5 DEF OpenTail
  <2>2. TailStart(size) \in Nat
    <3>1. size \in Nat BY <1>1
    <3>2. CASE size <= TailBytes BY <3>2 DEF TailStart
    <3>3. CASE size > TailBytes
      <4>1. size - TailBytes \in Nat BY <3>1, <3>3, AgentLogAssumption
      <4>2. Ends(size - TailBytes) # {} => EndOf(size - TailBytes) \in Nat
        BY <4>1, FirstEnd DEF Ends
      <4> QED BY <3>1, <4>2 DEF TailStart
    <3> QED BY <3>1, <3>2, <3>3, AgentLogAssumption
  <2>3. pull[p] \in Waiting /\ pull[p].tail
    BY <1>1, <1>5, PullShape DEF OpenTail, AgentInv, PullInv
  <2>4. PICK r : r = [pull[p] EXCEPT !.pc = "open", !.at = TailStart(size)] OBVIOUS
  <2>5. r \in Waiting /\ r.pc = "open" /\ r.tail /\ r.feed = pull[p].feed
    BY <2>2, <2>3, <2>4 DEF Waiting
  <2>6. pull' = [pull EXCEPT ![p] = r] BY <1>1, <2>1, <2>4 DEF AgentForm
  <2>7. UNCHANGED <<log, feed, agentFeed>> BY <1>5 DEF OpenTail
  <2>8. pull'[p] = r BY <1>1, <2>6 DEF AgentForm
  <2>9. PullInv(p)' BY <2>5, <2>8 DEF PullInv
  <2>10. pull[p] # Idle BY <1>5 DEF OpenTail, Idle
  <2>11. agentFeed = NoPull => r.feed = p BY <2>5, <2>10 DEF AgentInv, AloneInv
  <2> QED BY <2>5, <2>6, <2>7, <2>9, <2>11, OnePullMoves
<1>6. ASSUME NEW p \in Pull, OpenLog(p) PROVE AgentInv'
  <2>1. PICK q : q = pull[p] OBVIOUS
  <2>2. PICK at : at = IF q.at <= Len(log) THEN q.at ELSE Len(log) OBVIOUS
  <2>3. q \in Waiting /\ q.pc = "open" /\ PullInv(p) /\ q # Idle
    BY <1>1, <1>6, <2>1, PullShape DEF OpenLog, AgentInv, Idle
  <2>4. at \in Nat /\ at <= Len(log) BY <1>1, <2>2, <2>3 DEF Waiting
  <2>5. PICK r : r = [pc |-> "reading", feed |-> q.feed, tail |-> q.tail,
                      base |-> at, at |-> at, events |-> {}]
    OBVIOUS
  <2>6. /\ r \in Reading /\ r.pc = "reading" /\ r.feed = q.feed /\ r.base = at /\ r.at = at
        /\ r.tail = q.tail /\ r.events = {}
    BY <2>3, <2>4, <2>5 DEF Waiting, Reading
  <2>7. pull' = [pull EXCEPT ![p] = r] /\ UNCHANGED <<log, feed, agentFeed>>
    BY <1>1, <1>6, <2>1, <2>2, <2>5 DEF OpenLog, AgentForm
  <2>8. pull'[p] = r BY <1>1, <2>7 DEF AgentForm
  <2>9. EventsBetween(at, at)' = {} /\ Passed(at, at)'
    <3>1. at..(at - 1) = {} BY <2>4
    <3> QED BY <2>4, <3>1 DEF EventsBetween, Passed
  <2>10. ~q.tail => Covered(q.feed, at)'
    <3>1. ~q.tail => Covered(q.feed, q.at) BY <2>1, <2>3 DEF PullInv
    <3>2. ~q.tail => at = q.at BY <2>2, <3>1 DEF Covered
    <3> QED BY <2>7, <3>1, <3>2 DEF Covered, Passed, EventsBetween, EventsOf, Ends, IsStart
  <2>11. PullInv(p)' BY <2>4, <2>6, <2>7, <2>8, <2>9, <2>10 DEF PullInv
  <2>12. agentFeed = NoPull => r.feed = p BY <2>1, <2>3, <2>6 DEF AgentInv, AloneInv
  <2> QED BY <2>6, <2>7, <2>11, <2>12, OnePullMoves
<1>7. ASSUME NEW p \in Pull, ReadLine(p) PROVE AgentInv'
  <2>1. PICK q : q = pull[p] OBVIOUS
  <2>2. /\ q \in Reading /\ q.pc = "reading" /\ PullInv(p) /\ q # Idle
        /\ Ends(q.at) # {} /\ UNCHANGED <<log, feed, agentFeed>>
        /\ pull' = [pull EXCEPT ![p].at = EndOf(@), ![p].events = @ \cup EventsOf(q.at)]
    BY <1>1, <1>7, <2>1, PullShape DEF ReadLine, AgentInv, Idle
  <2>3. q.at \in Nat /\ q.base \in Nat /\ q.events \subseteq Event /\ q.base <= q.at
    BY <2>1, <2>2 DEF Reading, PullInv
  <2>4. PICK e : e = EndOf(q.at) OBVIOUS
  <2>5. e \in Ends(q.at) BY <2>2, <2>3, <2>4, FirstEnd
  <2>6. e \in (q.at + 1)..Len(log) /\ log[e] = Newline BY <2>5 DEF Ends
  <2>7. EventsOf(q.at) \subseteq Event BY <1>1, <2>2, <2>3, EventsAreOfLine
  <2>8. PICK s, r : s = q.events \cup EventsOf(q.at) /\ r = [q EXCEPT !.at = e, !.events = s]
    OBVIOUS
  <2>9. /\ r \in Reading /\ r.pc = "reading" /\ r.feed = q.feed /\ r.base = q.base /\ r.at = e
        /\ r.tail = q.tail /\ r.events = q.events \cup EventsOf(q.at)
    <3>1. e \in Nat /\ s \in SUBSET Event BY <1>1, <2>3, <2>6, <2>7, <2>8
    <3> QED BY <2>2, <2>8, <3>1 DEF Reading
  <2>10. pull' = [pull EXCEPT ![p] = r] BY <1>1, <2>1, <2>2, <2>4, <2>8 DEF AgentForm
  <2>11. pull'[p] = r BY <1>1, <2>10 DEF AgentForm
  <2>12. EventsBetween(q.base, e) \subseteq r.events
    <3>1. EventsBetween(q.base, e) \subseteq EventsBetween(q.base, q.at) \cup EventsOf(q.at)
      BY <1>1, <2>2, <2>3, <2>4, ReadsOneLine
    <3>2. EventsBetween(q.base, q.at) \subseteq q.events BY <2>1, <2>2 DEF PullInv
    <3> QED BY <2>9, <3>1, <3>2
  <2>13. EventsBetween(r.base, r.at)' \subseteq r.events
    BY <2>2, <2>9, <2>12 DEF EventsBetween, EventsOf, Ends, IsStart
  <2>14. /\ r.base <= r.at /\ r.at <= Len(log') /\ Passed(r.at, r.base)'
    BY <1>1, <2>2, <2>3, <2>6, <2>9 DEF Passed
  <2>15. ~r.tail => Covered(r.feed, r.base)'
    <3>1. ~r.tail => Covered(r.feed, r.base) BY <2>1, <2>2, <2>9 DEF PullInv
    <3> QED BY <2>2, <3>1 DEF Covered, Passed, EventsBetween, EventsOf, Ends, IsStart
  <2>16. PullInv(p)' BY <2>9, <2>11, <2>13, <2>14, <2>15 DEF PullInv
  <2>17. agentFeed = NoPull => r.feed = p BY <2>1, <2>2, <2>9 DEF AgentInv, AloneInv
  <2> QED BY <2>2, <2>9, <2>10, <2>16, <2>17, OnePullMoves
<1>8. ASSUME NEW p \in Pull, StopReading(p) PROVE AgentInv'
  <2>1. PICK q : q = pull[p] OBVIOUS
  <2>2. /\ q \in Reading /\ q.pc = "reading" /\ PullInv(p) /\ q # Idle
        /\ UNCHANGED <<log, feed, agentFeed>> /\ pull' = [pull EXCEPT ![p].pc = "answered"]
    BY <1>1, <1>8, <2>1, PullShape DEF StopReading, AgentInv, Idle
  <2>3. PICK r : r = [q EXCEPT !.pc = "answered"] OBVIOUS
  <2>4. /\ r \in Reading /\ r.pc = "answered" /\ r.feed = q.feed /\ r.base = q.base
        /\ r.at = q.at /\ r.tail = q.tail /\ r.events = q.events
    BY <2>2, <2>3 DEF Reading
  <2>5. pull' = [pull EXCEPT ![p] = r] BY <1>1, <2>1, <2>2, <2>3 DEF AgentForm
  <2>6. pull'[p] = r BY <1>1, <2>5 DEF AgentForm
  <2>7. /\ q.base <= q.at /\ q.at <= Len(log) /\ Passed(q.at, q.base)
        /\ EventsBetween(q.base, q.at) \subseteq q.events
        /\ ~q.tail => Covered(q.feed, q.base)
    BY <2>1, <2>2 DEF PullInv
  <2>8. PullInv(p)'
    <3>1. ~q.tail => Covered(q.feed, q.base)'
      BY <2>2, <2>7 DEF Covered, Passed, EventsBetween, EventsOf, Ends, IsStart
    <3>2. Passed(q.at, q.base)' /\ EventsBetween(q.base, q.at)' \subseteq q.events
      BY <2>2, <2>7 DEF Passed, EventsBetween, EventsOf, Ends, IsStart
    <3> QED BY <2>2, <2>4, <2>6, <2>7, <3>1, <3>2 DEF PullInv
  <2>9. agentFeed = NoPull => r.feed = p BY <2>1, <2>2, <2>4 DEF AgentInv, AloneInv
  <2> QED BY <2>2, <2>4, <2>5, <2>8, <2>9, OnePullMoves
<1>9. ASSUME NEW p \in Pull, PullFails(p) PROVE AgentInv'
  <2>1. pull' = [pull EXCEPT ![p] = Idle] /\ UNCHANGED <<log, feed, agentFeed>>
    BY <1>9 DEF PullFails
  <2>2. pull'[p] = Idle BY <1>1, <2>1 DEF AgentForm
  <2>3. PullInv(p)' BY <2>2 DEF PullInv, Idle
  <2> QED BY <2>1, <2>3, OnePullMoves
<1>10. ASSUME NEW p \in Pull, PullReturns(p) PROVE AgentInv'
  <2>1. PICK q : q = pull[p] OBVIOUS
  <2>2. q \in Reading /\ q.pc = "answered" /\ PullInv(p)
    BY <1>1, <1>10, <2>1, PullShape DEF PullReturns, AgentInv
  <2>3. PICK f : f = q.feed OBVIOUS
  <2>4. /\ f \in Pull /\ q.at \in Nat /\ q.base \in Nat /\ q.events \in SUBSET Event
        /\ q.tail \in BOOLEAN
    BY <2>2, <2>3 DEF Reading
  <2>5. /\ feed[f] \in Feed /\ feed[f].base \in Nat /\ feed[f].items \in Shown
        /\ Once(feed[f].items)
    BY <1>2, <2>4 DEF Feed, AgentInv, FeedInv
  <2>6. PICK b : b = IF q.tail /\ q.base > feed[f].base THEN q.base ELSE feed[f].base OBVIOUS
  <2>7. PICK g : g = Fold(feed[f].items, q.events) OBVIOUS
  <2>8. g \in Shown /\ DOMAIN g = DOMAIN feed[f].items \cup q.events /\ Once(g)
    BY <2>4, <2>5, <2>7, FoldAdds
  <2>9. b \in Nat /\ feed[f].base <= b /\ (q.tail => q.base <= b) /\ (~q.tail => b = feed[f].base)
    BY <2>4, <2>5, <2>6
  <2>10. PICK n : n = [feed[f] EXCEPT !.items = g, !.next = q.at, !.base = b] OBVIOUS
  <2>11. n \in Feed /\ n.items = g /\ n.next = q.at /\ n.base = b
    BY <2>4, <2>5, <2>8, <2>9, <2>10 DEF Feed
  <2>12. /\ feed' = [feed EXCEPT ![f] = n] /\ agentFeed' = f
         /\ pull' = [pull EXCEPT ![p] = Idle] /\ log' = log
    BY <1>1, <1>10, <2>1, <2>3, <2>6, <2>7, <2>10 DEF PullReturns, AgentForm
  <2>13. feed'[f] = n /\ \A o \in Pull \ {f} : feed'[o] = feed[o]
    BY <1>1, <2>4, <2>12 DEF AgentForm
  <2>14. pull'[p] = Idle /\ \A o \in Pull \ {p} : pull'[o] = pull[o]
    BY <1>1, <2>12 DEF AgentForm
  <2>15. AgentForm' BY <1>1, <2>4, <2>11, <2>12 DEF AgentForm
  <2>16. AloneInv' BY <2>4, <2>12, AgentLogAssumption DEF AloneInv
  <2>17. ASSUME NEW o \in Pull, NEW at \in Nat, Covered(o, at) PROVE Covered(o, at)'
    <3>1. feed[o].base <= feed'[o].base /\ DOMAIN feed[o].items \subseteq DOMAIN feed'[o].items
      <4>1. feed[o].base \in Nat BY <1>2 DEF Feed
      <4> QED BY <4>1, <2>8, <2>9, <2>11, <2>13
    <3> QED BY <1>1, <2>12, <2>15, <2>17, <3>1, CoveredStays
  <2>18. Covered(f, q.at)'
    <3>1. /\ q.base <= q.at /\ q.at <= Len(log) /\ Passed(q.at, q.base)
          /\ EventsBetween(q.base, q.at) \subseteq q.events
          /\ ~q.tail => Covered(f, q.base)
      BY <2>1, <2>2, <2>3 DEF PullInv
    <3>2. Passed(q.at, b)
      <4>1. CASE q.tail BY <4>1, <2>4, <2>9, <3>1 DEF Passed
      <4>2. CASE ~q.tail
        <5>1. Passed(q.base, b) BY <4>2, <2>9, <3>1 DEF Covered
        <5> QED BY <5>1, <2>4, <2>9, <3>1 DEF Passed
      <4> QED BY <4>1, <4>2
    <3>3. EventsBetween(b, q.at) \subseteq DOMAIN g
      <4>1. CASE q.tail
        <5>1. b..(q.at - 1) \subseteq q.base..(q.at - 1) BY <4>1, <2>4, <2>9
        <5>2. EventsBetween(b, q.at) \subseteq EventsBetween(q.base, q.at)
          BY <5>1 DEF EventsBetween
        <5> QED BY <5>2, <2>8, <3>1
      <4>2. CASE ~q.tail
        <5>1. EventsBetween(b, q.base) \subseteq DOMAIN feed[f].items
          BY <4>2, <2>9, <3>1 DEF Covered
        <5>2. b..(q.at - 1) \subseteq b..(q.base - 1) \cup q.base..(q.at - 1) BY <2>4, <2>9
        <5>3. EventsBetween(b, q.at)
                \subseteq EventsBetween(b, q.base) \cup EventsBetween(q.base, q.at)
          BY <5>2 DEF EventsBetween
        <5> QED BY <5>1, <5>3, <2>8, <3>1
      <4> QED BY <4>1, <4>2
    <3> QED BY <2>11, <2>12, <2>13, <3>1, <3>2, <3>3
        DEF Covered, Passed, EventsBetween, EventsOf, Ends, IsStart
  <2>19. ASSUME NEW o \in Pull PROVE FeedInv(o)'
    <3>1. CASE o = f BY <3>1, <2>8, <2>11, <2>13, <2>18 DEF FeedInv
    <3>2. CASE o # f
      <4>1. feed[o].next \in Nat BY <1>2 DEF Feed
      <4> QED BY <3>2, <4>1, <2>13, <2>17 DEF AgentInv, FeedInv
    <3> QED BY <3>1, <3>2
  <2>20. ASSUME NEW o \in Pull PROVE PullInv(o)'
    <3>1. CASE o = p BY <3>1, <2>14 DEF PullInv, Idle
    <3>2. CASE o # p
      <4>1. PICK u : u = pull[o] OBVIOUS
      <4>2. pull'[o] = u BY <3>2, <4>1, <2>14
      <4>3. PullInv(o) BY DEF AgentInv
      <4>4. CASE u.pc \in {"tail", "open"}
        <5>1. u.at \in Nat /\ u.feed \in Pull BY <1>1, <4>1, <4>4, PullShape DEF Waiting
        <5>2. u.pc = "open" /\ ~u.tail => Covered(u.feed, u.at)'
          BY <4>1, <4>3, <5>1, <2>17 DEF PullInv
        <5> QED BY <4>1, <4>2, <4>3, <4>4, <5>2 DEF PullInv
      <4>5. CASE u.pc \in {"reading", "answered"}
        <5>1. u.base \in Nat /\ u.feed \in Pull BY <1>1, <4>1, <4>5, PullShape DEF Reading
        <5>2. /\ u.base <= u.at /\ u.at <= Len(log) /\ Passed(u.at, u.base)
              /\ EventsBetween(u.base, u.at) \subseteq u.events
              /\ ~u.tail => Covered(u.feed, u.base)
          BY <4>1, <4>3, <4>5 DEF PullInv
        <5>3. ~u.tail => Covered(u.feed, u.base)' BY <5>1, <5>2, <2>17
        <5>4. /\ Passed(u.at, u.base)'
              /\ EventsBetween(u.base, u.at)' \subseteq u.events
          BY <5>2, <2>12 DEF Passed, EventsBetween, EventsOf, Ends, IsStart
        <5> QED BY <4>2, <4>5, <5>2, <5>3, <5>4, <2>12 DEF PullInv
      <4> QED BY <4>2, <4>4, <4>5 DEF PullInv
    <3> QED BY <3>1, <3>2
  <2> QED BY <2>15, <2>16, <2>19, <2>20 DEF AgentInv
<1>11. CASE UNCHANGED agentVars
  <2>1. UNCHANGED <<log, pull, feed, agentFeed>> BY <1>11 DEF agentVars
  <2>2. AgentForm' /\ AloneInv' BY <2>1 DEF AgentInv, AgentForm, AloneInv
  <2>3. \A p \in Pull : FeedInv(p)' /\ PullInv(p)'
    BY <2>1 DEF AgentInv, FeedInv, PullInv, Covered, Passed, EventsBetween, EventsOf, Ends, IsStart
  <2> QED BY <2>2, <2>3 DEF AgentInv
<1> QED
  BY <1>3, <1>4, <1>5, <1>6, <1>7, <1>8, <1>9, <1>10, <1>11 DEF AgentNext

\* At first the pane shows nothing.
LEMMA AgentStart == AgentInit => AgentInv
<1> SUFFICES ASSUME AgentInit PROVE AgentInv OBVIOUS
<1>1. /\ log = <<>> /\ agentFeed = NoPull
      /\ pull = [p \in Pull |-> Idle] /\ feed = [p \in Pull |-> NoFeed]
  BY DEF AgentInit
<1>2. PICK none : none = [e \in {} |-> 0] OBVIOUS
<1>3. DOMAIN none = {} /\ none \in [{} -> Nat \ {0}] BY <1>2
<1>4. none \in Shown BY <1>3 DEF Shown
<1>5. NoFeed \in Feed /\ NoFeed.base = 0 /\ NoFeed.next = 0 /\ NoFeed.items = none
  BY <1>2, <1>4 DEF NoFeed, Feed
<1>6. Len(log) = 0 BY <1>1
<1>7. EventsBetween(0, 0) = {}
  <2>1. 0..(0 - 1) = {} OBVIOUS
  <2> QED BY <2>1 DEF EventsBetween
<1>8. \A p \in Pull : FeedInv(p)
  BY <1>1, <1>3, <1>5, <1>6, <1>7 DEF FeedInv, Covered, Passed, Once
<1>9. \A p \in Pull : PullInv(p) BY <1>1 DEF PullInv, Idle
<1>10. AgentForm BY <1>1, <1>5 DEF AgentForm
<1>11. AloneInv BY <1>1 DEF AloneInv
<1> QED BY <1>8, <1>9, <1>10, <1>11 DEF AgentInv

\* "Only whole lines are consumed" (agent_log.rs:160): however answers overlap with each
\* other and with the agent's writing, the pane has every line it has passed, and no call
\* twice.
THEOREM PaneHasAll == AgentSpec => []CallsShownOnce
<1>1. ASSUME AgentInv PROVE CallsShownOnce
  <2>1. agentFeed # NoPull => agentFeed \in Pull BY <1>1 DEF AgentInv, AgentForm
  <2> QED BY <1>1, <2>1 DEF CallsShownOnce, AgentInv, FeedInv, Covered, Once
<1> QED BY <1>1, AgentStart, AgentStep, PTL DEF AgentSpec

-------------------------------------------------------------------------------
(* The input path: what waits follows what is on its way, which follows     *)
(* what has arrived.                                                        *)

\* Pieces that follow one another from f to t, n bytes of them.
Pieces(f, q, n, t) ==
  /\ f \in Borders /\ q \in SUBSET Borders /\ n \in Nat
  /\ q = {} => n = 0
  /\ q # {} => f + n = t /\ t \in q /\ \A e \in q : f < e /\ e <= t

\* What has arrived, and what waited behind a failure, is in front of this place.
ArrivedBefore(place) == \A i \in 1..Len(arrived) : arrived[i].to <= place
BehindBefore(place) == \A n \in behind : n <= place

\* The request on its way is the first piece, unless the view has moved on: what waits
\* is behind it then.
OnTheWay(r) ==
  /\ r \in Request /\ r.from \in Borders /\ r.to \in Borders /\ r.from < r.to /\ r.to <= submitted
  /\ r.state = "asleep" => ~r.taken
  /\ r.epoch <= epoch
  /\ r.epoch = epoch => queue # {} /\ r.from = front /\ r.to \in queue /\ \A e \in queue : r.to <= e
  /\ r.epoch # epoch /\ queue # {} => r.to <= front
  /\ r.taken => ArrivedBefore(r.to)
  /\ ~r.taken => ArrivedBefore(r.from)
  /\ Bytes(r) \cap behind = {}

\* One loop runs while anything waits, and it awaits one request.
LoopInv ==
  \/ ~running /\ requests = {} /\ queue = {}
  \/ running /\ \E r \in requests : requests = {r} /\ OnTheWay(r)

InputForm ==
  /\ submitted \in Borders /\ front <= submitted /\ chunk \in MinChunk..ChunkBytes
  /\ {epoch, sentBytes, discarded, doubtful} \subseteq Nat
  /\ arrived \in Seq([from : Nat, to : Nat]) /\ behind \in SUBSET Nat

\* Nothing later than what was typed has arrived or was given up, and nothing has that
\* should not have.
PastInv ==
  /\ ArrivedBefore(submitted) /\ BehindBefore(submitted)
  /\ InTypedOrder /\ NothingBehindFailure

InputInv ==
  /\ InputForm /\ Pieces(front, queue, queued, submitted) /\ LoopInv
  /\ PastInv /\ (queue # {} => BehindBefore(front)) /\ NothingDropped

\* Numbers have a smallest, and if they are bounded a largest.
LEMMA MinOf ==
  ASSUME NEW S \in SUBSET Nat, S # {}
  PROVE  Min(S) \in S /\ \A e \in S : Min(S) <= e
<1>1. IsWellFoundedOn(OpToRel(<, Nat), Nat) BY NatLessThanWellFounded
<1>2. PICK n \in S : \A m \in S : <<m, n>> \notin OpToRel(<, Nat) BY <1>1, WFMin, Zenon
<1>3. \A m \in S : ~(m < n) BY <1>2 DEF OpToRel
<1>4. \E x \in S : \A y \in S : x =< y
  <2>1. n \in Nat /\ \A m \in S : m \in Nat OBVIOUS
  <2> QED BY <1>3, <2>1
<1> QED BY <1>4 DEF Min

LEMMA MaxOf ==
  ASSUME NEW S \in SUBSET Nat, S # {}, NEW b \in Nat, \A e \in S : e <= b
  PROVE  Max(S) \in S /\ \A e \in S : e <= Max(S)
<1> DEFINE T == { n \in Nat : \A e \in S : e <= n }
<1>1. T \in SUBSET Nat /\ b \in T OBVIOUS
<1>2. PICK n : n = Min(T) OBVIOUS
<1>3. n \in T /\ \A m \in T : n <= m BY <1>1, <1>2, MinOf
<1>4. n \in S
  <2> SUFFICES ASSUME n \notin S PROVE FALSE OBVIOUS
  <2>1. \A e \in S : e \in Nat /\ e <= n /\ e # n BY <1>3
  <2>2. n # 0 /\ n \in Nat
    <3>1. PICK e \in S : TRUE OBVIOUS
    <3> QED BY <1>3, <2>1, <3>1
  <2>3. n - 1 \in Nat /\ \A e \in S : e <= n - 1 BY <2>1, <2>2
  <2>4. n - 1 \in T BY <2>3
  <2>5. n <= n - 1 BY <1>3, <2>4
  <2> QED BY <2>2, <2>5
<1>5. \E x \in S : \A y \in S : x >= y
  <2>1. \A y \in S : n >= y BY <1>3
  <2> QED BY <1>4, <2>1
<1> QED BY <1>5 DEF Max

\* A cut leads on, not beyond the end, and to a border.
LEMMA CutsAtBorder ==
  ASSUME NEW at \in Borders, NEW end \in Borders, at < end, NEW most \in Nat, MinChunk <= most
  PROVE  /\ CutAt(at, end, most) \in Borders
         /\ at < CutAt(at, end, most) /\ CutAt(at, end, most) <= end
<1>1. at \in Nat /\ end \in Nat /\ MinChunk \in Nat BY InputControllerAssumption
<1>2. CASE end <= at + most BY <1>1, <1>2 DEF CutAt
<1>3. CASE ~(end <= at + most)
  <2>1. PICK whole : whole = { b \in Borders : at < b /\ b <= at + most } OBVIOUS
  <2>2. PICK d \in Borders : at < d /\ d <= at + MinChunk BY InputControllerAssumption
  <2>3. d \in Nat BY InputControllerAssumption
  <2>4. d \in whole BY <1>1, <2>1, <2>2, <2>3
  <2>5. whole \in SUBSET Nat /\ \A e \in whole : e <= at + most
    BY <2>1, InputControllerAssumption
  <2>6. Max(whole) \in whole
    <3>1. PICK last \in Nat : last = at + most BY <1>1
    <3>2. whole \in SUBSET Nat /\ whole # {} /\ \A e \in whole : e <= last
      BY <2>4, <2>5, <3>1
    <3> QED BY <3>2, MaxOf
  <2>7. CutAt(at, end, most) = Max(whole)
    <3>1. whole # {} BY <2>4
    <3>2. CutAt(at, end, most) = IF whole = {} THEN at + most ELSE Max(whole)
      BY <1>3, <2>1, Zenon DEF CutAt
    <3> QED BY <3>1, <3>2
  <2>8. Max(whole) \in Borders /\ at < Max(whole) /\ Max(whole) <= at + most BY <2>1, <2>6
  <2>9. Max(whole) \in Nat BY <2>8, InputControllerAssumption
  <2> QED BY <1>1, <1>3, <2>7, <2>8, <2>9
<1> QED BY <1>2, <1>3

\* So every piece of a text that is cut ends at a border.
LEMMA PiecesEndAtBorders ==
  ASSUME NEW from \in Borders, NEW end \in Borders, from < end, NEW most \in Nat,
         MinChunk <= most
  PROVE  \A e \in ChunkUtf8(from, end, most) : e \in Borders /\ from < e /\ e < end
<1>1. from \in Nat /\ end \in Nat BY InputControllerAssumption
<1>2. PICK cuts : cuts = { b \in Borders : b \in (from + 1)..(end - 1) } OBVIOUS
<1>3. ASSUME NEW at \in {from} \cup cuts PROVE CutAt(at, end, most) \in cuts \cup {end}
  <2>1. at \in Borders /\ at \in Nat /\ from <= at /\ at < end
    BY <1>1, <1>2, InputControllerAssumption
  <2>2. PICK c : c = CutAt(at, end, most) OBVIOUS
  <2>3. c \in Borders /\ at < c /\ c <= end BY <2>1, <2>2, CutsAtBorder
  <2>4. c \in Nat BY <2>3, InputControllerAssumption
  <2>5. c = end \/ c \in (from + 1)..(end - 1) BY <1>1, <2>1, <2>3, <2>4
  <2> QED BY <1>2, <2>2, <2>3, <2>5
<1>4. cuts \in SUBSET ((from + 1)..(end - 1)) BY <1>2
<1>5. ASSUME NEW e \in ChunkUtf8(from, end, most) PROVE e \in cuts
  <2>1. \A some \in SUBSET ((from + 1)..(end - 1)) :
          (\A at \in {from} \cup some : CutAt(at, end, most) \in some \cup {end}) => e \in some
    BY <1>5, Zenon DEF ChunkUtf8
  <2> QED BY <1>3, <1>4, <2>1, Zenon
<1> QED
  <2> TAKE e \in ChunkUtf8(from, end, most)
  <2>1. e \in cuts BY <1>5
  <2> QED BY <1>1, <1>2, <2>1

\* Gathering keeps the pieces one behind the other, to the same end.
LEMMA GatherKeeps ==
  ASSUME NEW f, NEW q, NEW n, NEW t, Pieces(f, q, n, t), q # {},
         NEW most \in MinChunk..ChunkBytes
  PROVE  Pieces(f, Gather(f, q, most), n, t) /\ Gather(f, q, most) # {}
<1>1. /\ f \in Borders /\ q \in SUBSET Borders /\ n \in Nat
      /\ f + n = t /\ t \in q /\ \A e \in q : f < e /\ e <= t
  BY DEF Pieces
<1>2. most \in Nat /\ MinChunk <= most /\ q \in SUBSET Nat /\ f \in Nat /\ t \in Nat
  BY <1>1, InputControllerAssumption
<1>3. Min(q) \in q BY <1>1, <1>2, MinOf
<1>4. CASE Min(q) <= f + most
  <2>1. Gather(f, q, most) = { e \in q : ~\E later \in q : e < later /\ later <= f + most }
    BY <1>4 DEF Gather
  <2>2. t \in Gather(f, q, most)
    <3>1. \A later \in q : later \in Nat /\ ~(t < later) BY <1>1, <1>2
    <3> QED BY <1>1, <2>1, <3>1
  <2>3. Gather(f, q, most) \subseteq q BY <2>1
  <2> QED BY <1>1, <2>2, <2>3 DEF Pieces
<1>5. CASE ~(Min(q) <= f + most)
  <2>1. Gather(f, q, most) = q \cup ChunkUtf8(f, Min(q), most) BY <1>5 DEF Gather
  <2>2. Min(q) \in Borders /\ f < Min(q) /\ Min(q) <= t /\ Min(q) \in Nat BY <1>1, <1>2, <1>3
  <2>3. \A e \in ChunkUtf8(f, Min(q), most) : e \in Borders /\ f < e /\ e < Min(q)
    BY <1>1, <1>2, <2>2, PiecesEndAtBorders
  <2>4. \A e \in ChunkUtf8(f, Min(q), most) : e \in Borders /\ f < e /\ e <= t
    <3> TAKE e \in ChunkUtf8(f, Min(q), most)
    <3>1. e \in Borders /\ f < e /\ e < Min(q) BY <2>3
    <3>2. e \in Nat BY <3>1, InputControllerAssumption
    <3> QED BY <1>2, <2>2, <3>1, <3>2
  <2> QED BY <1>1, <2>1, <2>4 DEF Pieces
<1> QED BY <1>4, <1>5

\* The bytes of batches that are all in front of a place are in front of it.
LEMMA BytesInFront ==
  ASSUME NEW place \in Nat, arrived \in Seq([from : Nat, to : Nat]), ArrivedBefore(place)
  PROVE  \A n \in BytesArrived : n \in Nat /\ n <= place
<1> TAKE n \in BytesArrived
<1>1. PICK i \in DOMAIN arrived : n \in Bytes(arrived[i]) BY DEF BytesArrived
<1>2. i \in 1..Len(arrived) /\ arrived[i] \in [from : Nat, to : Nat]
  BY <1>1, LenProperties, ElementOfSeq
<1>3. PICK b : b = arrived[i] OBVIOUS
<1>4. b.from \in Nat /\ b.to \in Nat BY <1>2, <1>3
<1>5. n \in (b.from + 1)..b.to BY <1>1, <1>3 DEF Bytes
<1>6. b.to <= place BY <1>2, <1>3 DEF ArrivedBefore
<1> QED BY <1>4, <1>5, <1>6

\* What has arrived is in front of the request, or of what follows it.
LEMMA ArrivedBehind ==
  ASSUME InputForm, NEW r \in requests, OnTheWay(r)
  PROVE  ArrivedBefore(r.to)
<1>1. r.from \in Nat /\ r.to \in Nat /\ r.from < r.to
  BY InputControllerAssumption DEF OnTheWay, Request
<1>2. \A i \in 1..Len(arrived) : arrived[i].to \in Nat
  <2> TAKE i \in 1..Len(arrived)
  <2>1. arrived[i] \in [from : Nat, to : Nat] BY ElementOfSeq DEF InputForm
  <2> QED BY <2>1
<1>3. CASE r.taken BY <1>3 DEF OnTheWay
<1>4. CASE ~r.taken BY <1>1, <1>2, <1>4 DEF OnTheWay, ArrivedBefore
<1> QED BY <1>3, <1>4

\* The loop goes on with what waits, or ends.
LEMMA TurnKeeps ==
  ASSUME InputForm, NEW f, NEW q, NEW n, NEW t \in Borders, f <= t, Pieces(f, q, n, t),
         NEW most \in MinChunk..ChunkBytes, Turn(f, q, n, most, {}), epoch' = epoch, submitted' = t,
         q # {} => \A i \in 1..Len(arrived') : arrived'[i].to <= f,
         q # {} => \A b \in behind' : b <= f,
         behind' \in SUBSET Nat
  PROVE  Pieces(front, queue, queued, submitted)' /\ LoopInv' /\ front' = f /\ queued' = n
         /\ (queue' # {} => q # {})
<1>1. front' = f /\ queued' = n BY DEF Turn
<1>2. CASE q = {}
  <2>1. queue' = {} /\ requests' = {} /\ running' = FALSE BY <1>2, Zenon DEF Turn
  <2> QED BY <1>1, <1>2, <2>1 DEF Pieces, LoopInv
<1>3. CASE q # {}
  <2>1. PICK g : g = Gather(f, q, most) OBVIOUS
  <2>2. PICK to : to = Min(g) OBVIOUS
  <2>3. PICK r : r = [from |-> f, to |-> to, epoch |-> epoch, attempt |-> 0,
                      state |-> "out", taken |-> FALSE]
    OBVIOUS
  <2>4. queue' = g /\ running' = TRUE /\ requests' = {r}
    BY <1>3, <2>1, <2>2, <2>3, Zenon DEF Turn
  <2>5. Pieces(f, g, n, t) /\ g # {} BY <1>3, <2>1, GatherKeeps DEF InputForm
  <2>6. g \in SUBSET Nat BY <2>5, InputControllerAssumption DEF Pieces
  <2>7. to \in g /\ \A e \in g : to <= e BY <2>2, <2>5, <2>6, MinOf
  <2>8. f \in Borders /\ to \in Borders /\ f < to /\ to <= t BY <2>5, <2>7 DEF Pieces
  <2>9. f \in Nat /\ to \in Nat /\ t \in Nat BY <2>8, InputControllerAssumption
  <2>10. r \in Request /\ r.from = f /\ r.to = to /\ r.epoch = epoch /\ r.state = "out"
         /\ ~r.taken
    BY <2>3, <2>9 DEF Request, InputForm
  <2>11. Bytes(r) \cap behind' = {} BY <1>3, <2>9, <2>10 DEF Bytes
  <2>12. ArrivedBefore(r.from)' BY <1>3, <2>10 DEF ArrivedBefore
  <2>13. OnTheWay(r)'
    <3>1. r.epoch = epoch' /\ r.epoch \in Nat BY <2>10 DEF InputForm
    <3>2. queue' # {} /\ r.from = front' /\ r.to \in queue' /\ \A e \in queue' : r.to <= e
      BY <1>1, <2>4, <2>5, <2>7, <2>10
    <3> QED BY <2>8, <2>10, <2>11, <2>12, <3>1, <3>2 DEF OnTheWay
  <2> QED BY <1>1, <1>3, <2>4, <2>5, <2>13 DEF LoopInv
<1> QED BY <1>2, <1>3

\* Where nothing arrives and nothing fails, the past stays what it was.
LEMMA PastKept ==
  ASSUME PastInv, UNCHANGED <<submitted, arrived, behind>>
  PROVE  PastInv'
BY DEF PastInv, ArrivedBefore, BehindBefore, InTypedOrder, NothingBehindFailure, BytesArrived,
       Bytes

\* A request on its way is the only one.
LEMMA TheRequest ==
  ASSUME LoopInv, NEW r \in requests
  PROVE  requests = {r} /\ running /\ OnTheWay(r)
BY DEF LoopInv

\* Its size is that of the first piece.
LEMMA SizeOf ==
  ASSUME InputForm, Pieces(front, queue, queued, submitted), NEW r \in requests, OnTheWay(r)
  PROVE  /\ r.from \in Nat /\ r.to \in Nat /\ r.from < r.to /\ Size(r) \in Nat
         /\ r.epoch = epoch => /\ queue # {} /\ Min(queue) = r.to /\ r.from = front
                               /\ Size(r) <= queued /\ front + Size(r) = r.to
                               /\ front + queued = submitted
<1>1. r.from \in Nat /\ r.to \in Nat /\ r.from < r.to
  BY InputControllerAssumption DEF OnTheWay, Request
<1>2. Size(r) \in Nat /\ r.from + Size(r) = r.to BY <1>1 DEF Size
<1>3. ASSUME r.epoch = epoch
      PROVE  /\ queue # {} /\ Min(queue) = r.to /\ r.from = front
             /\ Size(r) <= queued /\ front + Size(r) = r.to /\ front + queued = submitted
  <2>1. queue # {} /\ r.from = front /\ r.to \in queue /\ \A e \in queue : r.to <= e
    BY <1>3 DEF OnTheWay
  <2>2. queue \in SUBSET Nat BY InputControllerAssumption DEF Pieces
  <2>3. Min(queue) \in queue /\ \A e \in queue : Min(queue) <= e BY <2>1, <2>2, MinOf
  <2>4. Min(queue) <= r.to /\ r.to <= Min(queue) /\ Min(queue) \in Nat BY <2>1, <2>2, <2>3
  <2>5. Min(queue) = r.to BY <1>1, <2>4
  <2>6. front + queued = submitted /\ r.to <= submitted /\ queued \in Nat
    BY <2>1 DEF Pieces, OnTheWay
  <2>7. submitted \in Nat BY InputControllerAssumption DEF InputForm
  <2> QED BY <1>1, <1>2, <2>1, <2>5, <2>6, <2>7
<1> QED BY <1>1, <1>2, <1>3

\* The loop of an earlier epoch leaves the queue as it was, to a loop of this one.
LEMMA LeaveKeeps ==
  ASSUME InputInv, NEW r \in requests, NEW most \in MinChunk..ChunkBytes, Leave(r, most),
         r.epoch # epoch,
         UNCHANGED <<submitted, epoch, arrived, behind>>
  PROVE  /\ Pieces(front, queue, queued, submitted)' /\ LoopInv' /\ PastInv'
         /\ (queue # {} => BehindBefore(front))' /\ UNCHANGED <<front, queued>>
<1>1. requests = {r} /\ OnTheWay(r) BY TheRequest DEF InputInv
<1>2. PastInv' BY PastKept DEF InputInv
<1>3. CASE queue = {}
  <2>1. running' = FALSE /\ requests' = {} /\ UNCHANGED <<front, queue, queued>>
    BY <1>1, <1>3, Zenon DEF Leave
  <2> QED BY <1>2, <1>3, <2>1 DEF InputInv, Pieces, LoopInv
<1>4. CASE queue # {}
  <2>1. Turn(front, queue, queued, most, {}) BY <1>1, <1>4, Zenon DEF Leave
  <2>2. r.to <= front BY <1>1, <1>4 DEF OnTheWay
  <2>3. ArrivedBefore(r.to) BY <1>1, ArrivedBehind DEF InputInv
  <2>4. front \in Nat /\ r.to \in Nat /\ submitted \in Borders /\ front <= submitted
    BY <1>1, InputControllerAssumption DEF InputInv, InputForm, Pieces, OnTheWay
  <2>5. \A i \in 1..Len(arrived) : arrived[i].to <= front
    <3> TAKE i \in 1..Len(arrived)
    <3>1. arrived[i] \in [from : Nat, to : Nat] BY ElementOfSeq DEF InputInv, InputForm
    <3>2. arrived[i].to \in Nat BY <3>1
    <3>3. arrived[i].to <= r.to BY <2>3 DEF ArrivedBefore
    <3> QED BY <2>2, <2>4, <3>2, <3>3
  <2>6. \A b \in behind : b <= front BY <1>4 DEF InputInv, BehindBefore
  <2>7. PICK f, q, n, t : f = front /\ q = queue /\ n = queued /\ t = submitted OBVIOUS
  <2>8. Pieces(f, q, n, t) /\ Turn(f, q, n, most, {}) /\ InputForm BY <2>1, <2>7 DEF InputInv
  <2>9. \A i \in 1..Len(arrived') : arrived'[i].to <= f BY <2>5, <2>7
  <2>10. \A b \in behind' : b <= f BY <2>6, <2>7
  <2>11. behind' \in SUBSET Nat BY DEF InputInv, InputForm
  <2>12. t \in Borders /\ f <= t /\ submitted' = t BY <2>4, <2>7
  <2>13. Pieces(front, queue, queued, submitted)' /\ LoopInv' /\ front' = f /\ queued' = n
    BY <2>8, <2>9, <2>10, <2>11, <2>12, TurnKeeps
  <2>14. BehindBefore(front)' BY <2>10, <2>13 DEF BehindBefore
  <2> QED BY <1>2, <2>7, <2>13, <2>14
<1> QED BY <1>3, <1>4

\* What waited behind a request that failed is given up, and none of it has arrived.
LEMMA StopKeeps ==
  ASSUME InputInv, NEW r \in requests, NEW outcome, Stop(r, outcome), r.epoch = epoch,
         UNCHANGED <<submitted, arrived>>
  PROVE  /\ Pieces(front, queue, queued, submitted)' /\ LoopInv' /\ PastInv' /\ queue' = {}
         /\ behind' \in SUBSET Nat
<1>1. requests = {r} /\ OnTheWay(r) BY TheRequest DEF InputInv
<1>2. queue' = {} /\ queued' = 0 /\ front' = front /\ running' = FALSE /\ requests' = {}
  BY <1>1 DEF Stop
<1>3. Pieces(front, queue, queued, submitted)' /\ LoopInv' BY <1>2 DEF InputInv, Pieces, LoopInv
<1>4. /\ r.to \in Nat /\ Min(queue) = r.to /\ front + queued = submitted
  BY <1>1, SizeOf DEF InputInv
<1>5. PICK late : late = (r.to + 1)..submitted OBVIOUS
<1>6. behind' = behind \cup late BY <1>4, <1>5 DEF Stop
<1>7. submitted \in Nat BY InputControllerAssumption DEF InputInv, InputForm
<1>8. \A n \in late : n \in Nat /\ r.to < n /\ n <= submitted BY <1>4, <1>5, <1>7
<1>9. BehindBefore(submitted)' BY <1>6, <1>8 DEF InputInv, PastInv, BehindBefore
<1>10. ArrivedBefore(r.to) BY <1>1, ArrivedBehind DEF InputInv
<1>11. \A n \in BytesArrived : n \in Nat /\ n <= r.to
  BY <1>4, <1>10, BytesInFront DEF InputInv, InputForm
<1>12. BytesArrived \cap late = {} BY <1>4, <1>8, <1>11
<1>13. BytesArrived \cap (behind \cup late) = {}
  BY <1>12 DEF InputInv, PastInv, NothingBehindFailure
<1>14. BytesArrived' = BytesArrived BY DEF BytesArrived, Bytes
<1>15. NothingBehindFailure' BY <1>6, <1>13, <1>14 DEF NothingBehindFailure
<1>16. (ArrivedBefore(submitted) /\ InTypedOrder)'
  BY DEF InputInv, PastInv, ArrivedBefore, InTypedOrder
<1>17. behind' \in SUBSET Nat BY <1>6, <1>8 DEF InputInv, InputForm
<1> QED BY <1>2, <1>3, <1>9, <1>15, <1>16, <1>17 DEF PastInv

\* A request that fails, of this epoch or of an earlier one.
LEMMA FailsKeeps ==
  ASSUME InputInv, NEW r \in requests, NEW outcome, Fails(r, outcome)
  PROVE  InputInv'
<1>1. OnTheWay(r) /\ UNCHANGED <<submitted, chunk, sentBytes, arrived>>
  BY TheRequest DEF Fails, InputInv
<1>2. /\ submitted \in Nat /\ {epoch, sentBytes, discarded, doubtful, queued, front} \subseteq Nat
      /\ submitted <= sentBytes + discarded + doubtful + queued
  BY InputControllerAssumption DEF InputInv, InputForm, Pieces, NothingDropped
<1>3. CASE r.epoch = epoch
  <2>1. Stop(r, outcome) BY <1>3 DEF Fails
  <2>2. /\ Pieces(front, queue, queued, submitted)' /\ LoopInv' /\ PastInv' /\ queue' = {}
        /\ behind' \in SUBSET Nat
    BY <1>1, <1>3, <2>1, StopKeeps
  <2>3. Size(r) \in Nat /\ Size(r) <= queued BY <1>1, <1>3, SizeOf DEF InputInv
  <2>4. /\ epoch' = epoch + 1 /\ doubtful' = doubtful + Size(r) /\ front' = front
        /\ queued' = 0 /\ discarded' = discarded + (queued - Size(r))
    BY <2>1 DEF Stop
  <2>5. NothingDropped' BY <1>1, <1>2, <2>3, <2>4 DEF NothingDropped
  <2>6. PICK unsent \in Nat : unsent = queued - Size(r) BY <1>2, <2>3
  <2>7. {epoch, sentBytes, discarded, doubtful}' \subseteq Nat
    BY <1>1, <1>2, <2>3, <2>4, <2>6
  <2>8. (submitted \in Borders /\ front <= submitted /\ chunk \in MinChunk..ChunkBytes)'
    BY <1>1, <2>4 DEF InputInv, InputForm
  <2>9. (arrived \in Seq([from : Nat, to : Nat]))' BY <1>1 DEF InputInv, InputForm
  <2>10. InputForm' BY <2>2, <2>7, <2>8, <2>9 DEF InputForm
  <2> QED BY <2>2, <2>5, <2>10 DEF InputInv
<1>4. CASE r.epoch # epoch
  <2>1. Leave(r, chunk) /\ UNCHANGED <<epoch, discarded, doubtful, behind>> BY <1>4 DEF Fails
  <2>2. /\ Pieces(front, queue, queued, submitted)' /\ LoopInv' /\ PastInv'
        /\ (queue # {} => BehindBefore(front))' /\ UNCHANGED <<front, queued>>
    <3>1. PICK most \in MinChunk..ChunkBytes : Leave(r, most)
      BY <2>1 DEF InputInv, InputForm
    <3> QED BY <1>1, <1>4, <2>1, <3>1, LeaveKeeps
  <2>3. InputForm' /\ NothingDropped'
    BY <1>1, <2>1, <2>2 DEF InputInv, InputForm, NothingDropped
  <2> QED BY <2>2, <2>3 DEF InputInv
<1> QED BY <1>3, <1>4

\* An answer: the next request goes out, in front of nothing that arrived.
LEMMA SentKeeps ==
  ASSUME InputInv, NEW r \in requests, Sent(r)
  PROVE  InputInv'
<1>1. /\ requests = {r} /\ OnTheWay(r)
      /\ UNCHANGED <<submitted, epoch, discarded, doubtful, arrived, behind>>
      /\ r.taken /\ sentBytes' = sentBytes + Size(r)
  BY TheRequest DEF Sent, InputInv, history
<1>2. /\ submitted \in Nat /\ {epoch, sentBytes, discarded, doubtful, queued, front} \subseteq Nat
      /\ submitted <= sentBytes + discarded + doubtful + queued
  BY InputControllerAssumption DEF InputInv, InputForm, Pieces, NothingDropped
<1>3. chunk' \in MinChunk..ChunkBytes
  <2>1. /\ MinChunk \in Nat /\ ChunkBytes \in Nat /\ chunk \in Nat
        /\ MinChunk <= chunk /\ chunk <= ChunkBytes
    BY InputControllerAssumption DEF InputInv, InputForm
  <2>2. PICK half \in Nat : half = chunk \div 2 /\ half <= chunk BY <2>1
  <2>3. PICK twice \in Nat : twice = chunk * 2 /\ chunk <= twice BY <2>1
  <2>4. Min({ChunkBytes, twice}) \in {ChunkBytes, twice}
        /\ Min({ChunkBytes, twice}) <= ChunkBytes
    BY <2>1, <2>3, MinOf
  <2>5. PICK two : two = {MinChunk, half} BY Zenon
  <2>6. two \in SUBSET Nat /\ two # {} /\ \A e \in two : e <= chunk BY <2>1, <2>2, <2>5
  <2>7. Max(two) \in two /\ \A e \in two : e <= Max(two) BY <2>1, <2>6, MaxOf
  <2>8. chunk' \in {chunk, Max(two), Min({ChunkBytes, twice})}
    BY <2>2, <2>3, <2>5, Zenon DEF Sent
  <2>9. Max(two) \in Nat /\ MinChunk <= Max(two) /\ Max(two) <= chunk
    BY <2>5, <2>6, <2>7
  <2> QED BY <2>1, <2>3, <2>4, <2>8, <2>9
<1>4. CASE r.epoch = epoch
  <2>1. PICK f, q, n, t : f = r.to /\ q = queue \ {r.to} /\ n = queued - Size(r) /\ t = submitted
    OBVIOUS
  <2>2. /\ r.to \in Nat /\ Size(r) \in Nat /\ Size(r) <= queued /\ Min(queue) = r.to
        /\ queue # {} /\ front + Size(r) = r.to /\ front + queued = submitted
        /\ r.from = front /\ r.from < r.to
    BY <1>1, <1>4, SizeOf DEF InputInv
  <2>3. Turn(f, q, n, chunk', {}) BY <1>1, <1>4, <2>1, <2>2 DEF Sent
  <2>4. n \in Nat /\ f + n = t BY <1>2, <2>1, <2>2
  <2>5. /\ r.to \in Borders /\ r.to <= submitted /\ r.to \in queue
        /\ \A e \in queue : r.to <= e
    BY <1>1, <1>4 DEF OnTheWay
  <2>6. queue \in SUBSET Borders /\ submitted \in queue /\ \A e \in queue : e <= submitted
    BY <2>2 DEF InputInv, Pieces
  <2>7. q # {} => t \in q
    <3> SUFFICES ASSUME submitted = r.to PROVE q = {} BY <2>1, <2>6
    <3>1. \A e \in queue : e = r.to
      <4> TAKE e \in queue
      <4>1. e \in Nat /\ e <= r.to /\ r.to <= e
        BY <2>5, <2>6, InputControllerAssumption
      <4> QED BY <2>2, <4>1
    <3> QED BY <2>1, <3>1
  <2>8. q = {} => n = 0
    <3> SUFFICES ASSUME q = {} PROVE n = 0 OBVIOUS
    <3>1. submitted = r.to BY <2>1, <2>6
    <3> QED BY <2>1, <2>4, <3>1, <2>2
  <2>9. \A e \in q : f < e /\ e <= t
    <3> TAKE e \in q
    <3>1. e \in queue /\ e # r.to /\ e \in Nat BY <2>1, <2>6, InputControllerAssumption
    <3> QED BY <2>1, <2>2, <2>5, <2>6, <3>1
  <2>10. Pieces(f, q, n, t) /\ t \in Borders /\ f <= t /\ submitted' = t
    BY <1>1, <2>1, <2>4, <2>5, <2>6, <2>7, <2>8, <2>9 DEF Pieces, InputInv, InputForm
  <2>11. \A i \in 1..Len(arrived') : arrived'[i].to <= f
    BY <1>1, <2>1 DEF OnTheWay, ArrivedBefore
  <2>12. \A b \in behind' : b <= f /\ b \in Nat
    <3> TAKE b \in behind'
    <3>1. b \in Nat /\ b <= front BY <1>1, <2>2 DEF InputInv, InputForm, BehindBefore
    <3> QED BY <1>2, <2>1, <2>2, <3>1
  <2>13. InputForm /\ behind' \in SUBSET Nat BY <2>12 DEF InputInv
  <2>14. Pieces(front, queue, queued, submitted)' /\ LoopInv' /\ front' = f /\ queued' = n
    <3>1. PICK most \in MinChunk..ChunkBytes : Turn(f, q, n, most, {}) BY <1>3, <2>3
    <3> QED BY <1>1, <2>10, <2>11, <2>12, <2>13, <3>1, TurnKeeps
  <2>15. PastInv' BY <1>1, PastKept DEF InputInv
  <2>16. BehindBefore(front)' BY <2>12, <2>14 DEF BehindBefore
  <2>17. NothingDropped' BY <1>1, <1>2, <2>1, <2>2, <2>14 DEF NothingDropped
  <2>18. InputForm'
    <3>1. {epoch, sentBytes, discarded, doubtful}' \subseteq Nat BY <1>1, <1>2, <2>2
    <3>2. (submitted \in Borders /\ front <= submitted)' BY <1>1, <2>1, <2>10, <2>14
    <3>3. (arrived \in Seq([from : Nat, to : Nat]))' BY <1>1 DEF InputInv, InputForm
    <3> QED BY <1>3, <2>13, <3>1, <3>2, <3>3 DEF InputForm
  <2> QED BY <2>14, <2>15, <2>16, <2>17, <2>18 DEF InputInv
<1>5. CASE r.epoch # epoch
  <2>1. Leave(r, chunk') BY <1>5 DEF Sent
  <2>2. /\ Pieces(front, queue, queued, submitted)' /\ LoopInv' /\ PastInv'
        /\ (queue # {} => BehindBefore(front))' /\ UNCHANGED <<front, queued>>
    <3>1. PICK most \in MinChunk..ChunkBytes : Leave(r, most) BY <1>3, <2>1
    <3> QED BY <1>1, <1>5, <3>1, LeaveKeeps
  <2>3. Size(r) \in Nat BY <1>1, SizeOf DEF InputInv
  <2>4. NothingDropped' BY <1>1, <1>2, <2>2, <2>3 DEF NothingDropped
  <2>5. InputForm' BY <1>1, <1>2, <1>3, <2>2, <2>3 DEF InputInv, InputForm
  <2> QED BY <2>2, <2>4, <2>5 DEF InputInv
<1> QED BY <1>4, <1>5

\* A retry, or the pause before it: the request is the same one.
LEMMA SameRequest ==
  ASSUME InputInv, NEW r \in requests, NEW s \in Request,
         s.from = r.from, s.to = r.to, s.epoch = r.epoch, ~s.taken, ~r.taken,
         requests' = (requests \ {r}) \cup {s},
         UNCHANGED <<submitted, front, queue, queued, running, epoch, chunk, sentBytes, discarded,
                     arrived, doubtful, behind>>
  PROVE  InputInv'
<1>1. requests = {r} /\ running /\ OnTheWay(r) BY TheRequest DEF InputInv
<1>2. requests' = {s} BY <1>1
<1>3. OnTheWay(s)' BY <1>1, <1>2 DEF OnTheWay, ArrivedBefore, Bytes
<1>4. LoopInv' BY <1>1, <1>2, <1>3 DEF LoopInv
<1>5. PastInv' BY PastKept DEF InputInv
<1> QED BY <1>4, <1>5 DEF InputInv, InputForm, Pieces, BehindBefore, NothingDropped

\* A busy answer, and the end of the pause.
LEMMA RetryKeeps ==
  ASSUME InputInv, NEW r \in requests, Busy(r) \/ Wake(r)
  PROVE  InputInv'
<1>1. OnTheWay(r) /\ r \in Request BY TheRequest DEF InputInv, OnTheWay
<1>2. CASE Busy(r)
  <2>1. PICK a : a = r.attempt + 1 OBVIOUS
  <2>2. PICK s : s = [r EXCEPT !.state = "asleep", !.attempt = a] OBVIOUS
  <2>3. a \in Nat BY <1>1, <2>1 DEF Request
  <2>4. s \in Request BY <1>1, <2>2, <2>3 DEF Request
  <2>5. s.from = r.from /\ s.to = r.to /\ s.epoch = r.epoch
    BY <1>1, <2>2 DEF Request
  <2>6. s.taken = r.taken BY <1>1, <2>2, Zenon DEF Request
  <2>7. ~r.taken /\ ~s.taken BY <1>2, <2>6, Zenon DEF Busy
  <2>8. requests' = (requests \ {r}) \cup {s} BY <1>2, <2>1, <2>2, Zenon DEF Busy
  <2>9. UNCHANGED <<submitted, front, queue, queued, running, epoch, chunk, sentBytes, discarded,
                    arrived, doubtful, behind>>
    BY <1>2 DEF Busy, history
  <2> QED BY <2>4, <2>5, <2>7, <2>8, <2>9, SameRequest
<1>3. CASE Wake(r)
  <2>1. PICK s : s = [r EXCEPT !.state = "out"] OBVIOUS
  <2>2. /\ s \in Request /\ s.from = r.from /\ s.to = r.to /\ s.epoch = r.epoch
        /\ s.taken = r.taken
    BY <1>1, <2>1 DEF Request
  <2>3. ~r.taken BY <1>1, <1>3 DEF Wake, OnTheWay
  <2>4. ~s.taken BY <2>2, <2>3, Zenon
  <2>5. requests' = (requests \ {r}) \cup {s} BY <1>3, <2>1, Zenon DEF Wake
  <2>6. UNCHANGED <<submitted, front, queue, queued, running, epoch, chunk, sentBytes, discarded,
                    arrived, doubtful, behind>>
    BY <1>3 DEF Wake, history
  <2> QED BY <2>2, <2>3, <2>4, <2>5, <2>6, SameRequest
<1> QED BY <1>2, <1>3

\* What arrives begins behind everything that arrived before.
LEMMA TakeKeeps ==
  ASSUME InputInv, NEW r \in requests, Take(r)
  PROVE  InputInv'
<1>1. requests = {r} /\ running /\ OnTheWay(r) /\ r \in Request
  BY TheRequest DEF InputInv, OnTheWay
<1>2. PICK s : s = [r EXCEPT !.taken = TRUE] OBVIOUS
<1>3. PICK b : b = [from |-> r.from, to |-> r.to] OBVIOUS
<1>4. /\ s \in Request /\ s.from = r.from /\ s.to = r.to /\ s.epoch = r.epoch
      /\ s.taken /\ s.state = r.state
  BY <1>1, <1>2, Zenon DEF Request
<1>5. requests' = {s} BY <1>1, <1>2 DEF Take
<1>6. /\ r.from \in Nat /\ r.to \in Nat /\ r.from < r.to /\ r.to <= submitted /\ submitted \in Nat
  BY <1>1, InputControllerAssumption DEF OnTheWay, Request, InputInv, InputForm
<1>7. b \in [from : Nat, to : Nat] /\ b.from = r.from /\ b.to = r.to BY <1>3, <1>6
<1>8. arrived \in Seq([from : Nat, to : Nat]) BY DEF InputInv, InputForm
<1>9. arrived' = Append(arrived, b) BY <1>3 DEF Take
<1>10. PICK n \in Nat : n = Len(arrived) BY <1>8, LenProperties
<1>11. /\ arrived' \in Seq([from : Nat, to : Nat]) /\ Len(arrived') = n + 1
       /\ \A i \in 1..n : arrived'[i] = arrived[i]
       /\ arrived'[n + 1] = b
  BY <1>7, <1>8, <1>9, <1>10, AppendProperties
<1>12. \A i \in 1..n : arrived[i].to <= r.from /\ arrived[i].to \in Nat
  <2> TAKE i \in 1..n
  <2>1. ~r.taken BY DEF Take
  <2>2. arrived[i].to <= r.from BY <1>1, <1>10, <2>1 DEF OnTheWay, ArrivedBefore
  <2>3. arrived[i] \in [from : Nat, to : Nat] BY <1>8, <1>10, ElementOfSeq
  <2> QED BY <2>2, <2>3
<1>13. \A i \in 1..Len(arrived') : arrived'[i].to <= r.to
  <2> TAKE i \in 1..Len(arrived')
  <2>1. CASE i \in 1..n
    <3>1. arrived'[i] = arrived[i] BY <1>11, <2>1
    <3>2. arrived[i].to <= r.from /\ arrived[i].to \in Nat BY <1>12, <2>1
    <3> QED BY <1>6, <3>1, <3>2
  <2>2. CASE i = n + 1 BY <1>6, <1>7, <1>11, <2>2
  <2> QED BY <1>10, <1>11, <2>1, <2>2
<1>14. InTypedOrder'
  <2> SUFFICES ASSUME NEW i \in 1..(Len(arrived') - 1)
               PROVE  arrived'[i].to <= arrived'[i + 1].from
    BY DEF InTypedOrder
  <2>1. i \in 1..n BY <1>10, <1>11
  <2>2. CASE i = n BY <1>7, <1>11, <1>12, <2>1, <2>2
  <2>3. CASE i # n
    <3>1. i \in 1..(n - 1) /\ i + 1 \in 1..n BY <1>10, <2>1, <2>3
    <3>2. arrived[i].to <= arrived[i + 1].from
      BY <1>10, <3>1 DEF InputInv, PastInv, InTypedOrder
    <3> QED BY <1>11, <2>1, <3>1, <3>2
  <2> QED BY <2>2, <2>3
<1>15. ArrivedBefore(submitted)'
  <2>1. submitted' = submitted BY DEF Take
  <2> SUFFICES ASSUME NEW i \in 1..Len(arrived') PROVE arrived'[i].to <= submitted
    BY <2>1 DEF ArrivedBefore
  <2>2. arrived'[i] \in [from : Nat, to : Nat] BY <1>11, ElementOfSeq
  <2>3. arrived'[i].to \in Nat /\ arrived'[i].to <= r.to BY <1>13, <2>2
  <2> QED BY <1>6, <2>3
<1>16. NothingBehindFailure'
  <2>1. behind' = behind BY DEF Take
  <2> SUFFICES ASSUME NEW c \in BytesArrived', c \in behind PROVE FALSE
    BY <2>1 DEF NothingBehindFailure
  <2>2. PICK i \in DOMAIN arrived' : c \in Bytes(arrived'[i]) BY DEF BytesArrived, Bytes
  <2>3. i \in 1..Len(arrived') BY <1>11, <2>2, LenProperties
  <2>4. CASE i \in 1..n
    <3>1. i \in DOMAIN arrived /\ arrived'[i] = arrived[i]
      BY <1>8, <1>10, <1>11, <2>4, LenProperties
    <3>2. c \in BytesArrived BY <2>2, <3>1 DEF BytesArrived
    <3> QED BY <3>2 DEF InputInv, PastInv, NothingBehindFailure
  <2>5. CASE i = n + 1
    <3>1. c \in Bytes(r) BY <1>7, <1>11, <2>2, <2>5 DEF Bytes
    <3> QED BY <1>1, <3>1 DEF OnTheWay
  <2> QED BY <1>10, <1>11, <2>3, <2>4, <2>5
<1>17. BehindBefore(submitted)' BY DEF InputInv, PastInv, BehindBefore, Take
<1>18. PastInv' BY <1>14, <1>15, <1>16, <1>17 DEF PastInv
<1>19. ArrivedBefore(s.to)' BY <1>4, <1>13 DEF ArrivedBefore
<1>20. OnTheWay(s)'
  <2>1. r.state = "out" BY DEF Take
  <2>2. UNCHANGED <<submitted, front, queue, epoch, behind>> BY DEF Take
  <2> QED BY <1>1, <1>4, <1>19, <2>1, <2>2 DEF OnTheWay, Bytes
<1>21. LoopInv'
  <2>1. running' BY <1>1 DEF Take
  <2> QED BY <1>5, <1>20, <2>1 DEF LoopInv
<1>22. InputForm' BY <1>11 DEF Take, InputInv, InputForm
<1>23. Pieces(front, queue, queued, submitted)' /\ (queue # {} => BehindBefore(front))'
       /\ NothingDropped'
  BY DEF Take, InputInv, Pieces, BehindBefore, NothingDropped
<1> QED BY <1>18, <1>21, <1>22, <1>23 DEF InputInv

\* What is typed goes behind what waits.
LEMMA SubmitKeeps ==
  ASSUME InputInv, NEW to \in Borders, Submit(to)
  PROVE  InputInv'
<1>1. /\ submitted < to /\ submitted' = to
      /\ UNCHANGED <<epoch, chunk, sentBytes, discarded, arrived, doubtful, behind>>
  BY DEF Submit, history
<1>2. /\ to \in Nat /\ submitted \in Nat /\ submitted <= to
      /\ {epoch, sentBytes, discarded, doubtful, queued, front} \subseteq Nat
      /\ submitted <= sentBytes + discarded + doubtful + queued
      /\ front \in Borders /\ front <= submitted /\ submitted \in Borders
  BY <1>1, InputControllerAssumption DEF InputInv, InputForm, Pieces, NothingDropped
<1>3. \A i \in 1..Len(arrived) : arrived[i].to \in Nat /\ arrived[i].to <= submitted
  <2> TAKE i \in 1..Len(arrived)
  <2>1. arrived[i] \in [from : Nat, to : Nat] BY ElementOfSeq DEF InputInv, InputForm
  <2> QED BY <2>1 DEF InputInv, PastInv, ArrivedBefore
<1>4. \A b \in behind : b \in Nat /\ b <= submitted
  BY DEF InputInv, InputForm, PastInv, BehindBefore
<1>5. PICK from : from = IF queue = {} THEN submitted ELSE front OBVIOUS
<1>6. (queue = {} => from = submitted) /\ (queue # {} => from = front) BY <1>5, Zenon
<1>7. PICK q, n : q = queue \cup {to} /\ n = queued + (to - submitted) OBVIOUS
<1>8. from \in Borders /\ from \in Nat /\ from <= submitted BY <1>2, <1>6
<1>9. n \in Nat /\ from + n = to
  <2>1. queue = {} => queued = 0 BY DEF InputInv, Pieces
  <2>2. queue # {} => front + queued = submitted BY DEF InputInv, Pieces
  <2> QED BY <1>1, <1>2, <1>6, <1>7, <2>1, <2>2
<1>10. Pieces(from, q, n, to)
  <2>1. \A e \in q : from < e /\ e <= to /\ e \in Borders
    <3> TAKE e \in q
    <3>1. CASE e = to BY <1>1, <1>2, <1>8, <3>1
    <3>2. CASE e \in queue
      <4>1. front < e /\ e <= submitted /\ e \in Borders BY <3>2 DEF InputInv, Pieces
      <4>2. e \in Nat BY <4>1, InputControllerAssumption
      <4> QED BY <1>1, <1>2, <1>6, <3>2, <4>1, <4>2
    <3> QED BY <1>7, <3>1, <3>2
  <2> QED BY <1>7, <1>8, <1>9, <2>1 DEF Pieces
<1>11. BehindBefore(from)
  <2>1. queue = {} => BehindBefore(from) BY <1>6 DEF InputInv, PastInv
  <2>2. queue # {} => BehindBefore(from) BY <1>6 DEF InputInv
  <2> QED BY <2>1, <2>2
<1>12. PastInv'
  <2>1. ArrivedBefore(submitted)' BY <1>1, <1>2, <1>3 DEF ArrivedBefore
  <2>2. BehindBefore(submitted)' BY <1>1, <1>2, <1>4 DEF BehindBefore
  <2>3. (InTypedOrder /\ NothingBehindFailure)'
    BY <1>1 DEF InputInv, PastInv, InTypedOrder, NothingBehindFailure, BytesArrived, Bytes
  <2> QED BY <2>1, <2>2, <2>3 DEF PastInv
<1>13. Pieces(front, queue, queued, submitted)' /\ LoopInv' /\ front' = from /\ queued' = n
  <2>1. CASE running
    <3>1. front' = from /\ queue' = q /\ queued' = n /\ UNCHANGED <<running, requests>>
      BY <1>5, <1>7, <2>1, Zenon DEF Submit
    <3>2. PICK r \in requests : requests = {r} /\ OnTheWay(r) BY <2>1 DEF InputInv, LoopInv
    <3>3. r.to \in Nat /\ r.to <= submitted
      BY <3>2, InputControllerAssumption DEF OnTheWay
    <3>4. (r.epoch = epoch =>
             queue # {} /\ r.from = front /\ r.to \in queue /\ \A e \in queue : r.to <= e)'
      <4> SUFFICES ASSUME r.epoch = epoch
                   PROVE  q # {} /\ r.from = from /\ r.to \in q /\ \A e \in q : r.to <= e
        BY <1>1, <3>1
      <4>1. queue # {} /\ r.from = front /\ r.to \in queue /\ \A e \in queue : r.to <= e
        BY <3>2 DEF OnTheWay
      <4>2. r.to <= to BY <1>2, <3>3
      <4> QED BY <1>6, <1>7, <4>1, <4>2
    <3>5. (r.epoch # epoch /\ queue # {} => r.to <= front)'
      <4> SUFFICES ASSUME r.epoch # epoch PROVE r.to <= from BY <1>1, <3>1
      <4>1. queue # {} => r.to <= front BY <3>2 DEF OnTheWay
      <4> QED BY <1>6, <3>3, <4>1
    <3>6. r.to <= to BY <1>2, <3>3
    <3>7. OnTheWay(r)'
      BY <1>1, <3>2, <3>4, <3>5, <3>6 DEF OnTheWay, ArrivedBefore, Bytes
    <3>8. LoopInv' BY <2>1, <3>1, <3>2, <3>7 DEF LoopInv
    <3> QED BY <1>1, <1>10, <3>1, <3>8
  <2>2. CASE ~running
    <3>1. requests = {} /\ queue = {} BY <2>2 DEF InputInv, LoopInv
    <3>2. Turn(from, q, n, chunk, {}) BY <1>5, <1>7, <2>2, <3>1, Zenon DEF Submit
    <3>3. from = submitted BY <1>6, <3>1
    <3>4. \A i \in 1..Len(arrived') : arrived'[i].to <= from BY <1>1, <1>3, <3>3
    <3>5. \A b \in behind' : b <= from BY <1>1, <1>4, <3>3
    <3>6. behind' \in SUBSET Nat BY <1>1, <1>4
    <3>7. from <= to BY <1>2, <3>3
    <3>8. InputForm BY DEF InputInv
    <3>9. PICK most \in MinChunk..ChunkBytes : Turn(from, q, n, most, {})
      BY <3>2 DEF InputInv, InputForm
    <3> QED BY <1>1, <1>10, <3>4, <3>5, <3>6, <3>7, <3>8, <3>9, TurnKeeps
  <2> QED BY <2>1, <2>2
<1>14. BehindBefore(front)' BY <1>1, <1>11, <1>13 DEF BehindBefore
<1>15. NothingDropped' BY <1>1, <1>2, <1>7, <1>13 DEF NothingDropped
<1>16. InputForm'
  <2>1. front' <= submitted' BY <1>1, <1>2, <1>8, <1>13
  <2> QED BY <1>1, <2>1 DEF InputInv, InputForm
<1> QED BY <1>12, <1>13, <1>14, <1>15, <1>16 DEF InputInv

\* The view moves on, and the request on its way is that of an earlier epoch.
LEMMA ResetKeeps ==
  ASSUME InputInv, Reset
  PROVE  InputInv'
<1>1. /\ epoch' = epoch + 1 /\ discarded' = discarded + queued /\ queue' = {} /\ queued' = 0
      /\ UNCHANGED <<submitted, front, running, chunk, sentBytes, requests, arrived, doubtful,
                     behind>>
  BY DEF Reset
<1>2. /\ submitted \in Nat /\ {epoch, sentBytes, discarded, doubtful, queued} \subseteq Nat
      /\ submitted <= sentBytes + discarded + doubtful + queued
  BY InputControllerAssumption DEF InputInv, InputForm, Pieces, NothingDropped
<1>3. LoopInv'
  <2>1. CASE ~running BY <1>1, <2>1 DEF InputInv, LoopInv
  <2>2. CASE running
    <3>1. PICK r \in requests : requests = {r} /\ OnTheWay(r) BY <2>2 DEF InputInv, LoopInv
    <3>2. r.epoch \in Nat /\ r.epoch <= epoch BY <3>1 DEF OnTheWay, Request
    <3>3. r.epoch # epoch' /\ r.epoch <= epoch' BY <1>1, <1>2, <3>2
    <3>4. OnTheWay(r)' BY <1>1, <3>1, <3>3 DEF OnTheWay, ArrivedBefore, Bytes
    <3> QED BY <1>1, <2>2, <3>1, <3>4 DEF LoopInv
  <2> QED BY <2>1, <2>2
<1>4. PastInv' BY <1>1, PastKept DEF InputInv
<1>5. Pieces(front, queue, queued, submitted)' BY <1>1 DEF InputInv, Pieces
<1>6. NothingDropped' BY <1>1, <1>2 DEF NothingDropped
<1>7. InputForm' BY <1>1, <1>2 DEF InputInv, InputForm
<1> QED BY <1>1, <1>3, <1>4, <1>5, <1>6, <1>7 DEF InputInv

\* What changes nothing the invariant speaks of.
LEMMA InputStill ==
  ASSUME InputInv,
         UNCHANGED <<submitted, front, queue, queued, running, epoch, chunk, sentBytes, discarded,
                     requests, arrived, doubtful, behind>>
  PROVE  InputInv'
<1>1. PastInv' BY PastKept DEF InputInv
<1>2. LoopInv' BY DEF InputInv, LoopInv, OnTheWay, ArrivedBefore, Bytes
<1> QED BY <1>1, <1>2 DEF InputInv, InputForm, Pieces, BehindBefore, NothingDropped

\* The invariant holds at the beginning and every step keeps it.
LEMMA InputAtFirst == InputInit => InputInv
<1> SUFFICES ASSUME InputInit PROVE InputInv OBVIOUS
<1>1. 0 \in Borders /\ MinChunk <= ChunkBytes /\ MinChunk \in Nat /\ ChunkBytes \in Nat
  BY InputControllerAssumption
<1>2. Len(arrived) = 0 /\ arrived \in Seq([from : Nat, to : Nat]) /\ arrived = <<>>
  BY DEF InputInit
<1>3. InputForm BY <1>1, <1>2 DEF InputInit, InputForm
<1>4. LoopInv /\ Pieces(front, queue, queued, submitted) BY <1>1 DEF InputInit, LoopInv, Pieces
<1>5. PastInv
  <2>1. ArrivedBefore(submitted) /\ InTypedOrder BY <1>2 DEF ArrivedBefore, InTypedOrder
  <2>2. BehindBefore(submitted) /\ NothingBehindFailure
    BY DEF InputInit, BehindBefore, NothingBehindFailure
  <2> QED BY <2>1, <2>2 DEF PastInv
<1>6. NothingDropped /\ queue = {} BY DEF InputInit, NothingDropped
<1> QED BY <1>3, <1>4, <1>5, <1>6 DEF InputInv

LEMMA InputStep == InputInv /\ [InputNext]_inputVars => InputInv'
<1> SUFFICES ASSUME InputInv, [InputNext]_inputVars PROVE InputInv' OBVIOUS
<1>1. ASSUME NEW to \in Borders, Submit(to) PROVE InputInv' BY <1>1, SubmitKeeps
<1>2. ASSUME NEW to \in Borders, SubmitRefused(to) PROVE InputInv'
  BY <1>2, InputStill DEF SubmitRefused, history
<1>3. ASSUME NEW r \in requests, Sent(r) PROVE InputInv' BY <1>3, SentKeeps
<1>4. ASSUME NEW r \in requests, Busy(r) \/ Wake(r) PROVE InputInv' BY <1>4, RetryKeeps
<1>5. ASSUME NEW r \in requests, BusyTooLong(r) \/ Fenced(r) \/ Unknown(r) PROVE InputInv'
  BY <1>5, FailsKeeps DEF BusyTooLong, Fenced, Unknown
<1>6. ASSUME NEW r \in requests, Take(r) PROVE InputInv' BY <1>6, TakeKeeps
<1>7. CASE Reset BY <1>7, ResetKeeps
<1>8. CASE ControlChanges BY <1>8, InputStill DEF ControlChanges, inputState, history
<1>9. CASE UNCHANGED inputVars BY <1>9, InputStill DEF inputVars, inputState, history
<1> QED BY <1>1, <1>2, <1>3, <1>4, <1>5, <1>6, <1>7, <1>8, <1>9 DEF InputNext, Settle

LEMMA InputInvariant == InputSpec => []InputInv
<1> QED BY InputAtFirst, InputStep, PTL DEF InputSpec

\* Bytes arrive in the order they were typed and none arrives twice, whatever failed, was
\* retried or was left behind by a reset in between.
THEOREM TypedOrder == InputSpec => []InTypedOrder
<1>1. InputInv => InTypedOrder BY DEF InputInv, PastInv
<1> QED BY <1>1, InputInvariant, PTL

\* Nothing that was taken for sending is dropped without being counted or reported.
THEOREM NoneDropped == InputSpec => []NothingDropped
<1>1. InputInv => NothingDropped BY DEF InputInv
<1> QED BY <1>1, InputInvariant, PTL

\* What waited behind a request that failed never arrives.
THEOREM FailureStopsTheQueue == InputSpec => []NothingBehindFailure
<1>1. InputInv => NothingBehindFailure BY DEF InputInv, PastInv
<1> QED BY <1>1, InputInvariant, PTL

\* A request begins and ends between characters, whatever its budget shrank to.
THEOREM CharactersStayWhole == InputSpec => []WholeCharacters
<1>1. InputInv => WholeCharacters
  <2> SUFFICES ASSUME InputInv, NEW r \in requests PROVE {r.from, r.to} \subseteq Borders
    BY DEF WholeCharacters
  <2>1. OnTheWay(r) BY TheRequest DEF InputInv
  <2> QED BY <2>1 DEF OnTheWay
<1> QED BY <1>1, InputInvariant, PTL
===============================================================================
