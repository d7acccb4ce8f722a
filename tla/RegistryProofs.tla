---------------------------- MODULE RegistryProofs ----------------------------
(***************************************************************************)
(* The commands of a node implement PeerBook, for any number of processes, *)
(* devices, names, peers and faults.  What a process is about to rename    *)
(* over the registry is a change of the registry as it is at that moment,  *)
(* because everybody who gets so far holds the lock (Lawful).              *)
(***************************************************************************)
EXTENDS Registry, SequenceTheorems, WellFoundedInduction, TLAPS

\* Where a process holds the lock, and where it has something to be saved.
Locking == {"begun", "create", "write", "sync", "rename", "saved", "cert", "done",
            "answer", "accepted"}
Saving == {"create", "write", "sync", "rename"}

\* What PeerBook lets become of b.
Change(b, new) ==
  \/ b = Missing /\ new = <<>>
  \/ b # Missing /\ \/ \E q \in Book!Peer : \/ Book!CanPair(b, q) /\ new = Book!Paired(b, q)
                                            \/ Book!CanInvite(b, q) /\ new = Book!Invited(b, q)
                    \/ \E n \in Name : new = Book!Without(b, n)

JobForm(j) ==
  \/ j = Resting
  \/ /\ j = [pc |-> j.pc, cmd |-> j.cmd, device |-> j.device, file |-> j.file,
             content |-> j.content, tries |-> j.tries, late |-> j.late]
     /\ j.pc \in Locking \cup Inviting

\* What a command was given, and the device that joined.
Given(j) ==
  /\ j.cmd.kind \in {"pair", "invite"} => j.cmd.name \in Name /\ j.cmd.grants \in Grants
  /\ j.cmd.kind = "revoke" => j.cmd.name \in Name
  /\ j.cmd.kind = "pair" \/ j.pc \in {"asking", "approved"} => j.device \in Device
  /\ j.pc \in Inviting => j.cmd.kind = "invite"
  /\ j.file \in {"identity", "peers"}

\* What process p may be at, when the registry is b, the file beside it holds beside
\* (on the disk if whole), and l has the lock.
Lawful(j, p, b, beside, whole, l) ==
  /\ JobForm(j)
  /\ j.pc # "rest" => Given(j)
  /\ j.pc \in Locking => l = p
  /\ j.pc \in Saving /\ j.file = "peers" =>
       /\ Change(b, j.content)
       /\ j.pc \in {"sync", "rename"} => beside = j.content
       /\ j.pc = "rename" => whole

Whole == "peers.pending" \notin unsynced

RegistryInv ==
  /\ store = [f \in File |-> store[f]] /\ disk = [f \in File |-> disk[f]]
  /\ "peers" \notin unsynced
  /\ job = [p \in Process |-> job[p]]
  /\ \A p \in Process : Lawful(job[p], p, store["peers"], store["peers.pending"], Whole, lock)

\* A command is given what its kind says.
LEMMA CommandGiven ==
  ASSUME NEW c \in Command
  PROVE  /\ c.kind \in {"pair", "invite"} => c.name \in Name /\ c.grants \in Grants
         /\ c.kind \in {"pair"} => c.device \in Device
         /\ c.kind = "revoke" => c.name \in Name
BY DEF Command

\* At first every process rests.
LEMMA RegistryInit == Init => RegistryInv
BY DEF Init, RegistryInv, Lawful, JobForm, Resting, Locking, Saving

\* While process p moves, the others stay lawful if it leaves the registry, its file
\* and the lock alone, or has the lock, or takes it from nobody.
LEMMA OneProcess ==
  ASSUME RegistryInv, NEW p \in Process, NEW j,
         job' = [job EXCEPT ![p] = j],
         store' = [f \in File |-> store'[f]], disk' = disk, "peers" \notin unsynced',
         \/ lock \in {p, Nobody} /\ lock' \in {p, Nobody}
         \/ /\ UNCHANGED lock /\ store'["peers"] = store["peers"] /\ Whole' = Whole
            /\ store'["peers.pending"] = store["peers.pending"],
         Lawful(j, p, store'["peers"], store'["peers.pending"], Whole', lock')
  PROVE  RegistryInv'
<1>1. /\ job' = [q \in Process |-> job'[q]] /\ job'[p] = j
      /\ \A q \in Process : q # p => job'[q] = job[q]
  BY DEF RegistryInv
<1>2. ASSUME NEW q \in Process, q # p
      PROVE  Lawful(job[q], q, store'["peers"], store'["peers.pending"], Whole', lock')
  <2>1. Lawful(job[q], q, store["peers"], store["peers.pending"], Whole, lock)
    BY DEF RegistryInv
  <2>2. CASE lock \in {p, Nobody} /\ lock' \in {p, Nobody}
    <3>1. lock # q BY <2>2, <1>2, RegistryAssumption
    <3>2. job[q].pc \notin Locking BY <2>1, <3>1 DEF Lawful
    <3>3. job[q].pc \notin Saving BY <3>2 DEF Locking, Saving
    <3> QED BY <2>1, <3>2, <3>3 DEF Lawful
  <2>3. CASE /\ UNCHANGED lock /\ store'["peers"] = store["peers"] /\ Whole' = Whole
             /\ store'["peers.pending"] = store["peers.pending"]
    BY <2>1, <2>3
  <2> QED BY <2>2, <2>3
<1> QED BY <1>1, <1>2 DEF RegistryInv

\* Where a command returns, dies or fails, nothing of the registry has changed.
LEMMA Ending ==
  ASSUME RegistryInv, NEW p \in Process,
         job' = [job EXCEPT ![p] = Resting], lock' = IF lock = p THEN Nobody ELSE lock,
         store' = store \/ store' = [store EXCEPT !["qr"] = Missing],
         UNCHANGED <<unsynced, disk>>
  PROVE  RegistryInv' /\ UNCHANGED <<store["peers"], disk["peers"]>>
<1>1. /\ store' = [f \in File |-> store'[f]] /\ store'["peers"] = store["peers"]
      /\ store'["peers.pending"] = store["peers.pending"]
  BY DEF RegistryInv, File
<1>2. Lawful(Resting, p, store'["peers"], store'["peers.pending"], Whole', lock')
  BY DEF Lawful, JobForm, Resting, Locking, Saving
<1>3. "peers" \notin unsynced' /\ Whole' = Whole BY DEF RegistryInv, Whole
<1>4. \/ lock \in {p, Nobody} /\ lock' \in {p, Nobody}
      \/ lock' = lock
  OBVIOUS
<1>5. RegistryInv' BY <1>1, <1>2, <1>3, <1>4, OneProcess
<1> QED BY <1>1, <1>5

\* A change under the lock is one that PeerBook makes in one step.
LEMMA ChangeIsNext ==
  ASSUME Change(store["peers"], store'["peers"]), disk'["peers"] = disk["peers"]
  PROVE  Book!Next
BY DEF Change, Book!Next, Book!Found, Book!Enroll, Book!Revoke

\* The fields of a process that goes on, and of one that begins to save.
LEMMA GoesOn ==
  ASSUME NEW j, JobForm(j), Given(j), j.pc # "rest",
         NEW pc \in Locking \cup Inviting, NEW k, k = [j EXCEPT !.pc = pc]
  PROVE  /\ JobForm(k) /\ k.pc = pc /\ k.cmd = j.cmd /\ k.device = j.device
         /\ k.file = j.file /\ k.content = j.content
<1>1. j = [pc |-> j.pc, cmd |-> j.cmd, device |-> j.device, file |-> j.file,
           content |-> j.content, tries |-> j.tries, late |-> j.late]
  BY DEF JobForm, Resting
<1>2. k = [pc |-> pc, cmd |-> j.cmd, device |-> j.device, file |-> j.file,
           content |-> j.content, tries |-> j.tries, late |-> j.late]
  BY <1>1
<1> QED BY <1>2 DEF JobForm

\* A process that begins to save is given the file and what to write into it.
LEMMA SavesOn ==
  ASSUME NEW p \in Process, JobForm(job[p]), job[p].pc # "rest", NEW f, NEW content,
         Saves(p, f, content)
  PROVE  \E k : /\ job' = [job EXCEPT ![p] = k]
                /\ JobForm(k) /\ k.pc = "create" /\ k.cmd = job[p].cmd
                /\ k.device = job[p].device /\ k.file = f /\ k.content = content
<1> DEFINE j == job[p]
           k == [pc |-> "create", cmd |-> j.cmd, device |-> j.device, file |-> f,
                 content |-> content, tries |-> j.tries, late |-> j.late]
<1>1. j = [pc |-> j.pc, cmd |-> j.cmd, device |-> j.device, file |-> j.file,
           content |-> j.content, tries |-> j.tries, late |-> j.late]
  BY DEF JobForm, Resting
<1>2. [j EXCEPT !.pc = "create", !.file = f, !.content = content] = k
  <2> HIDE DEF j, k
  <2>1. PICK r : r = [j EXCEPT !.pc = "create", !.file = f, !.content = content] OBVIOUS
  <2>2. r = [pc |-> "create", cmd |-> j.cmd, device |-> j.device, file |-> f,
             content |-> content, tries |-> j.tries, late |-> j.late]
    BY <1>1, <2>1
  <2> QED BY <2>1, <2>2 DEF k
<1>3. job' = [job EXCEPT ![p] = [j EXCEPT !.pc = "create", !.file = f, !.content = content]]
  BY DEF Saves
<1>4. job' = [job EXCEPT ![p] = k] BY <1>2, <1>3
<1>5. /\ JobForm(k) /\ k.pc = "create" /\ k.cmd = job[p].cmd
      /\ k.device = job[p].device /\ k.file = f /\ k.content = content
  BY DEF JobForm, Locking
<1> HIDE DEF k
<1> QED BY <1>4, <1>5

BookStep == [Book!Next]_<<store["peers"], disk["peers"]>>

\* Every step keeps what processes are at lawful, and is a step of PeerBook or none.
LEMMA RegistryStep ==
  ASSUME RegistryInv, [Next]_vars
  PROVE  RegistryInv' /\ BookStep
<1> DEFINE Kept == UNCHANGED <<store["peers"], disk["peers"]>>
           Busy(p) == /\ JobForm(job[p]) /\ Given(job[p]) /\ job[p].pc # "rest"
                      /\ job[p].pc \in Locking => lock = p
           L(p, j) == Lawful(j, p, store'["peers"], store'["peers.pending"], Whole', lock')
<1>1. ASSUME NEW p \in Process, job[p].pc # "rest" PROVE Busy(p)
  BY <1>1 DEF RegistryInv, Lawful
<1>2. ASSUME NEW p \in Process, Lawful(job[p], p, store["peers"], store["peers.pending"],
                                       Whole, lock)
      PROVE  job[p].pc \in Saving /\ job[p].file = "peers" =>
               /\ Change(store["peers"], job[p].content)
               /\ job[p].pc \in {"sync", "rename"} => store["peers.pending"] = job[p].content
               /\ job[p].pc = "rename" => Whole
  BY <1>2 DEF Lawful
\* A process goes on, and touches no file.
<1>3. ASSUME NEW p \in Process, NEW pc \in Locking \cup Inviting, Goes(p, pc),
             job[p].pc # "rest",
             pc \in Saving => job[p].file # "peers", pc \in Locking => lock = p,
             pc \in {"asking", "approved"} => job[p].device \in Device,
             pc \in Inviting => job[p].cmd.kind = "invite", UNCHANGED <<files, lock>>
      PROVE  RegistryInv' /\ BookStep
  <2> DEFINE k == [job[p] EXCEPT !.pc = pc]
  <2>1. Busy(p) BY <1>1, <1>3
  <2>2. /\ JobForm(k) /\ k.pc = pc /\ k.cmd = job[p].cmd /\ k.device = job[p].device
        /\ k.file = job[p].file
    BY <2>1, <1>3, GoesOn
  <2>3. job' = [job EXCEPT ![p] = k] BY <1>3 DEF Goes
  <2>4. UNCHANGED <<store, unsynced, disk, lock>> BY <1>3 DEF files
  <2> HIDE DEF k
  <2>5. Given(k) BY <2>1, <2>2, <1>3 DEF Given
  <2>6. L(p, k) BY <2>2, <2>4, <2>5, <1>3 DEF Lawful
  <2>7. store' = [f \in File |-> store'[f]] /\ "peers" \notin unsynced' /\ Whole' = Whole
    BY <2>4 DEF RegistryInv, Whole
  <2>8. RegistryInv' BY <2>3, <2>4, <2>6, <2>7, OneProcess
  <2> QED BY <2>4, <2>8 DEF BookStep
\* A process begins to save, under the lock.
<1>4. ASSUME NEW p \in Process, NEW f \in {"identity", "peers"}, NEW content,
             Saves(p, f, content), job[p].pc # "rest", job[p].pc \notin {"asking", "listening"},
             lock' = p, lock \in {p, Nobody}, UNCHANGED files,
             f = "peers" => Change(store["peers"], content)
      PROVE  RegistryInv' /\ BookStep
  <2>1. Busy(p) BY <1>1, <1>4
  <2>2. PICK k : /\ job' = [job EXCEPT ![p] = k]
                 /\ JobForm(k) /\ k.pc = "create" /\ k.cmd = job[p].cmd
                 /\ k.device = job[p].device /\ k.file = f /\ k.content = content
    BY <2>1, <1>4, SavesOn
  <2>4. UNCHANGED <<store, unsynced, disk>> BY <1>4 DEF files
  <2>5. Given(k) BY <2>1, <2>2 DEF Given, Inviting
  <2>6. L(p, k) BY <2>2, <2>4, <2>5, <1>4 DEF Lawful
  <2>7. store' = [g \in File |-> store'[g]] /\ "peers" \notin unsynced'
    BY <2>4 DEF RegistryInv
  <2>8. RegistryInv' BY <2>2, <2>4, <2>6, <2>7, <1>4, OneProcess
  <2> QED BY <2>4, <2>8 DEF BookStep
\* A process goes on, and has written to a file under the lock, but not to the registry.
<1>5. ASSUME NEW p \in Process, NEW pc \in Locking, Goes(p, pc),
             job[p].pc \in Locking, UNCHANGED <<disk, lock>>,
             store' = [f \in File |-> store'[f]], store'["peers"] = store["peers"],
             "peers" \notin unsynced',
             pc \in Saving /\ job[p].file = "peers" =>
               /\ Change(store["peers"], job[p].content)
               /\ pc \in {"sync", "rename"} => store'["peers.pending"] = job[p].content
               /\ pc = "rename" => Whole'
      PROVE  RegistryInv' /\ BookStep
  <2> DEFINE k == [job[p] EXCEPT !.pc = pc]
  <2>0. job[p].pc # "rest" /\ pc \notin {"asking", "approved"} /\ pc \notin Inviting
    BY <1>5 DEF Locking, Inviting
  <2>1. Busy(p) /\ lock = p BY <1>1, <1>5, <2>0
  <2>2. /\ JobForm(k) /\ k.pc = pc /\ k.cmd = job[p].cmd /\ k.device = job[p].device
        /\ k.file = job[p].file /\ k.content = job[p].content
    BY <2>1, GoesOn
  <2>3. job' = [job EXCEPT ![p] = k] BY <1>5 DEF Goes
  <2> HIDE DEF k
  <2>4. Given(k) BY <2>0, <2>1, <2>2 DEF Given
  <2>5. L(p, k) BY <2>1, <2>2, <2>4, <1>5 DEF Lawful
  <2>6. RegistryInv' BY <2>1, <2>3, <2>5, <1>5, OneProcess
  <2> QED BY <2>6, <1>5 DEF BookStep
<1>6. ASSUME NEW p \in Process, Returns(p) PROVE RegistryInv' /\ BookStep
  <2>1. store' = store \/ store' = [store EXCEPT !["qr"] = Missing] BY <1>6 DEF Returns
  <2> QED BY <2>1, <1>6, Ending DEF Returns, BookStep
<1>7. ASSUME NEW p \in Process, Stops(p) PROVE RegistryInv' /\ BookStep
  BY <1>6, <1>7 DEF Stops
<1>8. ASSUME NEW p \in Process, NEW c \in Command, Start(p, c)
      PROVE  RegistryInv' /\ BookStep
  <2> DEFINE d == IF c.kind = "pair" THEN c.device ELSE Nobody
             k == [pc |-> "begun", cmd |-> c, device |-> d, file |-> "peers",
                   content |-> Missing, tries |-> 0, late |-> FALSE]
  <2>1. /\ job' = [job EXCEPT ![p] = k] /\ UNCHANGED <<store, unsynced, disk>>
        /\ lock = Nobody /\ lock' = p
    BY <1>8 DEF Start, Begins, files
  <2>2. JobForm(k) /\ Given(k) BY CommandGiven DEF JobForm, Given, Locking, Inviting
  <2>3. L(p, k) BY <2>1, <2>2 DEF Lawful, Saving
  <2> HIDE DEF k
  <2>4. store' = [f \in File |-> store'[f]] /\ "peers" \notin unsynced'
    BY <2>1 DEF RegistryInv
  <2>5. RegistryInv' BY <2>1, <2>3, <2>4, OneProcess
  <2> QED BY <2>1, <2>5 DEF BookStep
<1>9. ASSUME NEW p \in Process, NEW c \in Command, Invite(p, c)
      PROVE  RegistryInv' /\ BookStep
  <2> DEFINE k == [pc |-> "listening", cmd |-> c, device |-> Nobody, file |-> "peers",
                   content |-> Missing, tries |-> 0, late |-> FALSE]
  <2>1. /\ job' = [job EXCEPT ![p] = k] /\ store' = [store EXCEPT !["qr"] = Torn]
        /\ unsynced' = unsynced \cup {"qr"} /\ UNCHANGED <<disk, lock>> /\ c.kind = "invite"
    BY <1>9 DEF Invite, Begins
  <2>2. JobForm(k) /\ Given(k) BY <2>1, CommandGiven DEF JobForm, Given, Inviting
  <2>3. L(p, k) BY <2>2 DEF Lawful, Saving, Locking
  <2> HIDE DEF k
  <2>4. /\ store' = [f \in File |-> store'[f]] /\ "peers" \notin unsynced'
        /\ store'["peers"] = store["peers"] /\ Whole' = Whole
        /\ store'["peers.pending"] = store["peers.pending"]
    BY <2>1 DEF RegistryInv, Whole, File
  <2>5. RegistryInv' BY <2>1, <2>3, <2>4, OneProcess
  <2> QED BY <2>1, <2>4, <2>5 DEF BookStep
<1>10. ASSUME NEW p \in Process, MakeIdentity(p) PROVE RegistryInv' /\ BookStep
  <2>1. job[p].pc = "begun" BY <1>10 DEF MakeIdentity, At
  <2>2. lock = p BY <2>1, <1>1 DEF Locking
  <2>3. CASE Stops(p) BY <2>3, <1>7
  <2>4. CASE Saves(p, "identity", Generated) /\ UNCHANGED <<files, lock>>
    BY <2>1, <2>2, <2>4, <1>4
  <2> QED BY <2>3, <2>4, <1>10 DEF MakeIdentity
<1>11. ASSUME NEW p \in Process, Pair(p) PROVE RegistryInv' /\ BookStep
  <2>1. job[p].pc = "begun" /\ job[p].cmd.kind = "pair" BY <1>11 DEF Pair, At
  <2>2. lock = p /\ Given(job[p]) BY <2>1, <1>1 DEF Locking
  <2>3. PeerOf(job[p]) \in Book!Peer BY <2>1, <2>2 DEF PeerOf, Book!Peer, Given
  <2>4. CASE Stops(p) BY <2>4, <1>7
  <2>5. CASE /\ Readable("peers") /\ Book!CanPair(store["peers"], PeerOf(job[p]))
             /\ Saves(p, "peers", Book!Paired(store["peers"], PeerOf(job[p])))
             /\ UNCHANGED <<files, lock>>
    <3>1. Change(store["peers"], Book!Paired(store["peers"], PeerOf(job[p])))
      BY <2>3, <2>5 DEF Change, Readable
    <3> QED BY <2>1, <2>2, <2>5, <3>1, <1>4
  <2> QED BY <2>4, <2>5, <1>11 DEF Pair
<1>12. ASSUME NEW p \in Process, Revoke(p) PROVE RegistryInv' /\ BookStep
  <2>1. job[p].pc = "begun" /\ job[p].cmd.kind = "revoke" BY <1>12 DEF Revoke, At
  <2>2. lock = p /\ job[p].cmd.name \in Name BY <2>1, <1>1 DEF Locking, Given
  <2>3. CASE Stops(p) BY <2>3, <1>7
  <2>4. CASE /\ Readable("peers")
             /\ Saves(p, "peers", Book!Without(store["peers"], job[p].cmd.name))
             /\ UNCHANGED <<files, lock>>
    <3>1. Change(store["peers"], Book!Without(store["peers"], job[p].cmd.name))
      BY <2>2, <2>4 DEF Change, Readable
    <3> QED BY <2>1, <2>2, <2>4, <3>1, <1>4
  <2> QED BY <2>3, <2>4, <1>12 DEF Revoke
\* Where a process saves.
<1>13. ASSUME NEW p \in Process, job[p].pc \in Saving
       PROVE  /\ job[p].pc \in Locking
              /\ job[p].file \in {"identity", "peers"}
              /\ Beside(p) = IF job[p].file = "peers" THEN "peers.pending"
                             ELSE "identity.pending"
              /\ job[p].file = "peers" =>
                   /\ Change(store["peers"], job[p].content)
                   /\ job[p].pc \in {"sync", "rename"} => store["peers.pending"] = job[p].content
                   /\ job[p].pc = "rename" => Whole
  <2>1. job[p].pc # "rest" /\ job[p].pc \in Locking BY <1>13 DEF Saving, Locking
  <2>2. job[p].file \in {"identity", "peers"} BY <2>1, <1>1 DEF Given
  <2>3. Beside(p) = IF job[p].file = "peers" THEN "peers.pending" ELSE "identity.pending"
    BY <2>2 DEF Beside, Pending
  <2>4. Lawful(job[p], p, store["peers"], store["peers.pending"], Whole, lock)
    BY DEF RegistryInv
  <2> QED BY <2>1, <2>2, <2>3, <2>4, <1>13 DEF Lawful
<1>14. ASSUME NEW p \in Process, Create(p) PROVE RegistryInv' /\ BookStep
  <2>1. job[p].pc = "create" BY <1>14 DEF Create, At
  <2>2. CASE Stops(p) BY <2>2, <1>7
  <2>3. CASE /\ store' = [store EXCEPT ![Beside(p)] = Torn]
             /\ unsynced' = unsynced \cup {Beside(p)} /\ Goes(p, "write")
             /\ UNCHANGED <<disk, lock>>
    <3>1. Beside(p) \in File \ {"peers"} BY <2>1, <1>13 DEF Saving, File
    <3>2. /\ store' = [f \in File |-> store'[f]] /\ store'["peers"] = store["peers"]
          /\ "peers" \notin unsynced'
      BY <2>3, <3>1 DEF RegistryInv, File
    <3> QED BY <2>1, <2>3, <3>2, <1>5, <1>13 DEF Saving, Locking
  <2> QED BY <2>2, <2>3, <1>14 DEF Create
<1>15. ASSUME NEW p \in Process, Write(p) PROVE RegistryInv' /\ BookStep
  <2>1. job[p].pc = "write" BY <1>15 DEF Write, At
  <2>2. /\ store' = [store EXCEPT ![Beside(p)] = job[p].content] /\ Goes(p, "sync")
        /\ UNCHANGED <<unsynced, disk, lock>>
    BY <1>15 DEF Write
  <2>3. Beside(p) \in File \ {"peers"} BY <2>1, <1>13 DEF Saving, File
  <2>4. /\ store' = [f \in File |-> store'[f]] /\ store'["peers"] = store["peers"]
        /\ "peers" \notin unsynced' /\ store'[Beside(p)] = job[p].content
    BY <2>2, <2>3 DEF RegistryInv, File
  <2> QED BY <2>1, <2>2, <2>4, <1>5, <1>13 DEF Saving, Locking
<1>16. ASSUME NEW p \in Process, Sync(p) PROVE RegistryInv' /\ BookStep
  <2>1. job[p].pc = "sync" BY <1>16 DEF Sync, At
  <2>2. /\ unsynced' = unsynced \ {Beside(p)} /\ Goes(p, "rename")
        /\ UNCHANGED <<store, disk, lock>>
    BY <1>16 DEF Sync
  <2>3. store' = [f \in File |-> store'[f]] /\ "peers" \notin unsynced'
    BY <2>2 DEF RegistryInv
  <2>4. job[p].file = "peers" => Whole' BY <2>1, <2>2, <1>13 DEF Saving, Whole
  <2> QED BY <2>1, <2>2, <2>3, <2>4, <1>5, <1>13 DEF Saving, Locking
<1>17. ASSUME NEW p \in Process, Rename(p) PROVE RegistryInv' /\ BookStep
  <2> DEFINE to == job[p].file
  <2>1. job[p].pc = "rename" BY <1>17 DEF Rename, At
  <2>2. /\ store' = [store EXCEPT ![to] = store[Beside(p)], ![Beside(p)] = Missing]
        /\ unsynced' = (unsynced \ {Beside(p)})
                         \cup (IF Beside(p) \in unsynced THEN {to} ELSE {})
        /\ Goes(p, "saved") /\ UNCHANGED <<disk, lock>>
    BY <1>17 DEF Rename
  <2>3. CASE to = "identity"
    <3>1. Beside(p) = "identity.pending" BY <2>1, <2>3, <1>13 DEF Saving
    <3>2. /\ store' = [f \in File |-> store'[f]] /\ store'["peers"] = store["peers"]
          /\ "peers" \notin unsynced'
      BY <2>2, <2>3, <3>1 DEF RegistryInv, File
    <3> QED BY <2>1, <2>2, <3>2, <1>5 DEF Saving, Locking
  <2>4. CASE to = "peers"
    <3>1. /\ Beside(p) = "peers.pending" /\ Whole
          /\ Change(store["peers"], job[p].content) /\ store["peers.pending"] = job[p].content
      BY <2>1, <2>4, <1>13 DEF Saving
    <3>2. /\ store' = [f \in File |-> store'[f]] /\ store'["peers"] = job[p].content
          /\ "peers" \notin unsynced'
      BY <2>2, <2>4, <3>1 DEF RegistryInv, File, Whole
    <3>3. BookStep BY <3>1, <3>2, <2>2, ChangeIsNext DEF BookStep
    <3> DEFINE k == [job[p] EXCEPT !.pc = "saved"]
    <3>4. Busy(p) /\ lock = p BY <1>1, <2>1 DEF Locking
    <3>5. /\ JobForm(k) /\ k.pc = "saved" /\ k.cmd = job[p].cmd /\ k.device = job[p].device
          /\ k.file = job[p].file
      BY <3>4, GoesOn DEF Locking
    <3>6. job' = [job EXCEPT ![p] = k] BY <2>2 DEF Goes
    <3> HIDE DEF k
    <3>7. Given(k) BY <3>4, <3>5 DEF Given, Inviting
    <3>8. L(p, k) BY <3>4, <3>5, <3>7, <2>2 DEF Lawful, Saving
    <3>9. RegistryInv' BY <3>2, <3>4, <3>6, <3>8, <2>2, OneProcess
    <3> QED BY <3>3, <3>9
  <2> QED BY <2>1, <2>3, <2>4, <1>13 DEF Saving
<1>18. ASSUME NEW p \in Process, Saved(p) PROVE RegistryInv' /\ BookStep
  <2>1. job[p].pc = "saved" BY <1>18 DEF Saved, At
  <2>2. Busy(p) /\ lock = p BY <2>1, <1>1 DEF Locking
  <2>3. CASE Stops(p) BY <2>3, <1>7
  <2>4. CASE /\ store["peers"] = Missing /\ Saves(p, "peers", <<>>) /\ UNCHANGED <<files, lock>>
    <3>1. Change(store["peers"], <<>>) BY <2>4 DEF Change
    <3> QED BY <2>1, <2>2, <2>4, <3>1, <1>4
  <2>5. ASSUME NEW pc \in {"cert", "answer"}, Goes(p, pc), UNCHANGED <<files, lock>>
        PROVE  RegistryInv' /\ BookStep
    BY <2>1, <2>2, <2>5, <1>3 DEF Locking, Saving, Inviting
  <2> QED BY <2>3, <2>4, <2>5, <1>18 DEF Saved
<1>19. ASSUME NEW p \in Process, WriteCert(p) PROVE RegistryInv' /\ BookStep
  <2>1. job[p].pc = "cert" BY <1>19 DEF WriteCert, At
  <2>2. CASE Stops(p) BY <2>2, <1>7
  <2>3. CASE /\ store' = [store EXCEPT !["cert"] = store["identity"]]
             /\ unsynced' = unsynced \cup {"cert"} /\ Goes(p, "done")
             /\ UNCHANGED <<disk, lock>>
    <3>1. /\ store' = [f \in File |-> store'[f]] /\ store'["peers"] = store["peers"]
          /\ "peers" \notin unsynced'
      BY <2>3 DEF RegistryInv, File
    <3> QED BY <2>1, <2>3, <3>1, <1>5 DEF Saving, Locking
  <2> QED BY <2>2, <2>3, <1>19 DEF WriteCert
<1>20. ASSUME NEW p \in Process, Done(p) \/ Expire(p) \/ Accepted(p)
       PROVE  RegistryInv' /\ BookStep
  BY <1>20, <1>7 DEF Done, Expire, Accepted
<1>21. ASSUME NEW p \in Process, Enroll(p) PROVE RegistryInv' /\ BookStep
  <2>1. job[p].pc = "approved" BY <1>21 DEF Enroll, At
  <2>2. Given(job[p]) BY <2>1, <1>1
  <2>3. PeerOf(job[p]) \in Book!Peer BY <2>1, <2>2 DEF PeerOf, Book!Peer, Given, Inviting
  <2>4. CASE Stops(p) BY <2>4, <1>7
  <2>5. CASE /\ lock = Nobody /\ lock' = p
             /\ Readable("peers") /\ Book!CanInvite(store["peers"], PeerOf(job[p]))
             /\ Saves(p, "peers", Book!Invited(store["peers"], PeerOf(job[p])))
             /\ UNCHANGED files
    <3>1. Change(store["peers"], Book!Invited(store["peers"], PeerOf(job[p])))
      BY <2>3, <2>5 DEF Change, Readable
    <3> QED BY <2>1, <2>5, <3>1, <1>4
  <2> QED BY <2>4, <2>5, <1>21 DEF Enroll
<1>22. ASSUME NEW p \in Process, Answer(p) PROVE RegistryInv' /\ BookStep
  <2>1. job[p].pc = "answer" BY <1>22 DEF Answer, At
  <2>2. lock = p BY <2>1, <1>1 DEF Locking
  <2>3. CASE Stops(p) BY <2>3, <1>7
  <2>4. CASE Goes(p, "accepted") /\ UNCHANGED <<files, lock>>
    BY <2>1, <2>2, <2>4, <1>3 DEF Locking, Saving, Inviting
  <2> QED BY <2>3, <2>4, <1>22 DEF Answer
<1>23. ASSUME NEW p \in Process, NEW d, Approve(p, d) PROVE RegistryInv' /\ BookStep
  <2>1. job[p].pc = "asking" BY <1>23 DEF Approve, At
  <2>2. job[p].device \in Device /\ job[p].cmd.kind = "invite"
    BY <2>1, <1>1 DEF Given, Inviting
  <2>3. CASE Stops(p) BY <2>3, <1>7
  <2>4. CASE Goes(p, "approved") /\ UNCHANGED <<files, lock>>
    BY <2>1, <2>2, <2>4, <1>3 DEF Locking, Saving, Inviting
  <2> QED BY <2>3, <2>4, <1>23 DEF Approve
\* A phone joins badly or well, or time is over, while the invitation listens or asks.
<1>24. ASSUME NEW p \in Process, BadJoin(p) \/ DeadlinePasses(p) \/ \E d \in Device : Join(p, d)
       PROVE  RegistryInv' /\ BookStep
  <2> DEFINE j == job[p]
  <2>1. j.pc \in {"listening", "asking"}
    BY <1>24 DEF BadJoin, DeadlinePasses, Join, More, At
  <2>2. Busy(p) BY <2>1, <1>1
  <2>3. j = [pc |-> j.pc, cmd |-> j.cmd, device |-> j.device, file |-> j.file,
             content |-> j.content, tries |-> j.tries, late |-> j.late]
    BY <2>2 DEF JobForm, Resting
  <2>4. PICK pc \in {"listening", "asking"} : \E device, tries, late :
          /\ job' = [job EXCEPT ![p] =
                       [pc |-> pc, cmd |-> j.cmd, device |-> device, file |-> j.file,
                        content |-> j.content, tries |-> tries, late |-> late]]
          /\ pc = "asking" => device \in Device
    <3>1. CASE BadJoin(p)
      <4>1. [j EXCEPT !.tries = j.tries + 1] =
              [pc |-> j.pc, cmd |-> j.cmd, device |-> j.device, file |-> j.file,
               content |-> j.content, tries |-> j.tries + 1, late |-> j.late]
        BY <2>3
      <4>2. job' = [job EXCEPT ![p] = [j EXCEPT !.tries = j.tries + 1]]
            /\ (j.pc = "asking" => j.device \in Device)
        BY <3>1, <2>2 DEF BadJoin, Given
      <4> QED BY <4>1, <4>2, <2>1
    <3>2. CASE DeadlinePasses(p)
      <4>1. \A t : [j EXCEPT !.late = t] =
              [pc |-> j.pc, cmd |-> j.cmd, device |-> j.device, file |-> j.file,
               content |-> j.content, tries |-> j.tries, late |-> t]
        BY <2>3
      <4>2. job' = [job EXCEPT ![p] = [j EXCEPT !.late = TRUE]]
            /\ (j.pc = "asking" => j.device \in Device)
        BY <3>2, <2>2 DEF DeadlinePasses, Given
      <4> HIDE DEF j
      <4>3. PICK t : t = TRUE OBVIOUS
      <4>4. job' = [job EXCEPT ![p] = [j EXCEPT !.late = t]] BY <4>2, <4>3, Zenon
      <4>5. job' = [job EXCEPT ![p] =
                      [pc |-> j.pc, cmd |-> j.cmd, device |-> j.device, file |-> j.file,
                       content |-> j.content, tries |-> j.tries, late |-> t]]
        BY <4>1, <4>4
      <4>6. j.pc \in {"listening", "asking"} BY <2>1
      <4>7. j.pc = "asking" => j.device \in Device BY <4>2
      <4> QED BY <4>5, <4>6, <4>7, Zenon
    <3>3. ASSUME NEW d \in Device, Join(p, d)
          PROVE job' = [job EXCEPT ![p] =
                          [pc |-> "asking", cmd |-> j.cmd, device |-> d, file |-> j.file,
                           content |-> j.content, tries |-> 0, late |-> j.late]]
      <4>1. [j EXCEPT !.tries = 0, !.device = d, !.pc = "asking"] =
              [pc |-> "asking", cmd |-> j.cmd, device |-> d, file |-> j.file,
               content |-> j.content, tries |-> 0, late |-> j.late]
        <5> HIDE DEF j
        <5>1. PICK zero : zero = 0 OBVIOUS
        <5>2. PICK r : r = [j EXCEPT !.tries = zero, !.device = d, !.pc = "asking"] OBVIOUS
        <5>3. r = [pc |-> "asking", cmd |-> j.cmd, device |-> d, file |-> j.file,
                   content |-> j.content, tries |-> zero, late |-> j.late]
          BY <2>3, <5>2
        <5> QED BY <5>1, <5>2, <5>3
      <4>2. job' = [job EXCEPT ![p] = [j EXCEPT !.tries = 0, !.device = d, !.pc = "asking"]]
        BY <3>3 DEF Join
      <4> QED BY <4>1, <4>2
    <3> QED BY <3>1, <3>2, <3>3, <1>24, <2>1
  <2>. PICK device, tries, late :
         /\ job' = [job EXCEPT ![p] =
                      [pc |-> pc, cmd |-> j.cmd, device |-> device, file |-> j.file,
                       content |-> j.content, tries |-> tries, late |-> late]]
         /\ pc = "asking" => device \in Device
    BY <2>4
  <2> DEFINE k == [pc |-> pc, cmd |-> j.cmd, device |-> device, file |-> j.file,
                   content |-> j.content, tries |-> tries, late |-> late]
  <2>5. UNCHANGED <<store, unsynced, disk, lock>>
    BY <1>24 DEF BadJoin, DeadlinePasses, Join, files
  <2>6. job[p].cmd.kind = "invite" BY <2>1, <2>2 DEF Given, Inviting
  <2>7. JobForm(k) /\ k.pc \notin Locking /\ k.pc \notin Saving
    BY DEF JobForm, Inviting, Locking, Saving
  <2>8. Given(k) BY <2>2, <2>4, <2>6 DEF Given
  <2>9. L(p, k) BY <2>7, <2>8 DEF Lawful
  <2>10. job' = [job EXCEPT ![p] = k] BY <2>4
  <2> HIDE DEF k, j
  <2>11. store' = [f \in File |-> store'[f]] /\ "peers" \notin unsynced' /\ Whole' = Whole
    BY <2>5 DEF RegistryInv, Whole
  <2>12. RegistryInv' BY <2>5, <2>9, <2>10, <2>11, OneProcess
  <2> QED BY <2>5, <2>12 DEF BookStep
<1>25. ASSUME NEW p \in Process, Fails(p) PROVE RegistryInv' /\ BookStep
  BY <1>25, <1>6 DEF Fails
<1>26. ASSUME NEW p \in Process, Dies(p) PROVE RegistryInv' /\ BookStep
  BY <1>26, Ending DEF Dies, files, BookStep
<1>27. CASE Settle
  <2>1. disk' = [f \in File |-> disk'[f]] /\ disk'["peers"] = store["peers"]
        /\ UNCHANGED <<store, unsynced, lock, job>>
    BY <1>27 DEF Settle, RegistryInv, File
  <2>2. RegistryInv' BY <2>1 DEF RegistryInv, Whole
  <2>3. Book!Settle BY <2>1 DEF Book!Settle
  <2> QED BY <2>2, <2>3 DEF BookStep, Book!Next
<1>28. CASE PowerLoss
  <2>1. /\ store' = disk /\ unsynced' = {} /\ UNCHANGED disk
        /\ job' = [p \in Process |-> Resting]
    BY <1>28 DEF PowerLoss
  <2>2. \A p \in Process : L(p, Resting)
    BY DEF Lawful, JobForm, Resting, Locking, Saving
  <2>3. RegistryInv' BY <2>1, <2>2 DEF RegistryInv
  <2>4. Book!PowerLoss BY <2>1 DEF Book!PowerLoss
  <2> QED BY <2>3, <2>4 DEF BookStep, Book!Next
<1>29. CASE UNCHANGED vars
  BY <1>29 DEF vars, files, RegistryInv, Whole, BookStep
<1> QED
  BY <1>8, <1>9, <1>10, <1>11, <1>12, <1>14, <1>15, <1>16, <1>17, <1>18, <1>19, <1>20,
     <1>21, <1>22, <1>23, <1>24, <1>25, <1>26, <1>27, <1>28, <1>29
    DEF Next, Step

\* Enrolments and revocations take effect one after another, whole and on top of each
\* other (save and registry_lock in node/src/main.rs, run in pairing.rs).
THEOREM OnePeerBook == Spec => ImplementsPeerBook
<1>1. Init => Book!Init BY DEF Init, Book!Init, File
<1>2. RegistryInv /\ [Next]_vars => BookStep BY RegistryStep
<1>3. RegistryInv /\ [Next]_vars => RegistryInv' BY RegistryStep
<1> QED
  BY <1>1, <1>2, <1>3, RegistryInit, PTL
    DEF Spec, ImplementsPeerBook, Book!Spec, BookStep

-------------------------------------------------------------------------------
(* One name is one peer, in the registry and on the disk, and there are never *)
(* more than MaxPeers.                                                        *)

\* What is left of b without n after its first i entries.
Leaves(f, b, n, m) ==
  /\ f = [i \in 0..m |-> f[i]] /\ f[0] = <<>>
  /\ \A i \in 1..m : f[i] = IF b[i].name # n THEN Append(f[i - 1], b[i]) ELSE f[i - 1]

\* The entries of s are entries of b up to i, none of them named n.
PartOf(s, b, n, i) ==
  /\ s \in Seq(Book!Peer) /\ Len(s) <= i
  /\ \A a \in 1..Len(s) : s[a].name # n /\ \E k \in 1..i : s[a] = b[k]

\* One name is one peer.
Distinct(b) == \A i, j \in 1..Len(b) : b[i].name = b[j].name => i = j

\* A set of numbers that is not empty has a smallest one.
LEMMA SmallestOf ==
  ASSUME NEW S \in SUBSET Nat, S # {}
  PROVE  \E n \in S : \A m \in S : n <= m
<1>1. IsWellFoundedOn(OpToRel(<, Nat), Nat) BY NatLessThanWellFounded
<1>2. PICK n \in S : \A m \in S : <<m, n>> \notin OpToRel(<, Nat) BY <1>1, WFMin, Zenon
<1>3. \A m \in S : ~(m < n) BY <1>2 DEF OpToRel
<1> QED BY <1>3

\* One more entry is left, or is not.
LEMMA PartStep ==
  ASSUME NEW b \in Seq(Book!Peer), NEW n, NEW i \in 1..Len(b), NEW s,
         PartOf(s, b, n, i - 1), Distinct(s), Distinct(b)
  PROVE  LET t == IF b[i].name # n THEN Append(s, b[i]) ELSE s
         IN  PartOf(t, b, n, i) /\ Distinct(t)
<1>1. b[i] \in Book!Peer /\ Len(b) \in Nat OBVIOUS
<1>2. CASE b[i].name # n
  <2>1. PICK t : t = Append(s, b[i]) OBVIOUS
  <2>2. /\ t \in Seq(Book!Peer) /\ Len(t) = Len(s) + 1 /\ t[Len(s) + 1] = b[i]
        /\ \A a \in 1..Len(s) : t[a] = s[a]
    BY <1>1, <2>1 DEF PartOf
  <2>3. Len(s) \in Nat /\ Len(s) <= i - 1 BY DEF PartOf
  <2>4. PartOf(t, b, n, i)
    <3>1. ASSUME NEW a \in 1..Len(t) PROVE t[a].name # n /\ \E k \in 1..i : t[a] = b[k]
      <4>1. CASE a = Len(s) + 1 BY <4>1, <2>2, <1>2
      <4>2. CASE a \in 1..Len(s) BY <4>2, <2>2 DEF PartOf
      <4> QED BY <4>1, <4>2, <2>2, <2>3
    <3>2. Len(t) <= i BY <1>1, <2>2, <2>3
    <3> HIDE DEF Distinct
    <3> QED BY <3>1, <3>2, <2>2, Zenon DEF PartOf
  <2>5. Distinct(t)
    <3>1. ASSUME NEW a \in 1..Len(s) PROVE s[a].name # b[i].name
      <4>1. PICK k \in 1..(i - 1) : s[a] = b[k] BY DEF PartOf
      <4> QED BY <4>1 DEF Distinct
    <3> QED BY <3>1, <2>2, <2>3 DEF Distinct
  <2> QED BY <1>2, <2>1, <2>4, <2>5
<1>3. CASE b[i].name = n BY <1>3 DEF PartOf
<1> QED BY <1>2, <1>3

\* What Revoke leaves is part of what there was, in which nobody is named n.
LEMMA WithoutKeeps ==
  ASSUME NEW b \in Seq(Book!Peer), NEW n, Distinct(b)
  PROVE  PartOf(Book!Without(b, n), b, n, Len(b)) /\ Distinct(Book!Without(b, n))
<1> DEFINE Good(f, m) ==
             Leaves(f, b, n, m) /\ \A i \in 0..m : PartOf(f[i], b, n, i) /\ Distinct(f[i])
           S == { m \in 0..Len(b) : ~\E f : Good(f, m) }
<1>0. Len(b) \in Nat OBVIOUS
<1>1. 0 \notin S
  <2>1. PICK f : f = [i \in 0..0 |-> <<>>] OBVIOUS
  <2>2. f[0] = <<>> BY <2>1
  <2>3. PartOf(<<>>, b, n, 0) /\ Distinct(<<>>) BY DEF PartOf, Distinct
  <2>4. \A i \in 0..0 : i = 0 OBVIOUS
  <2>5. Leaves(f, b, n, 0) BY <2>1, <2>2 DEF Leaves
  <2>6. Good(f, 0) BY <2>2, <2>3, <2>4, <2>5
  <2> QED BY <2>6
<1>2. ASSUME NEW m \in 1..Len(b), m - 1 \notin S PROVE m \notin S
  <2>1. m - 1 \in 0..Len(b) BY <1>0
  <2>2. PICK f : Good(f, m - 1) BY <1>2, <2>1
  <2>3. PICK t : t = IF b[m].name # n THEN Append(f[m - 1], b[m]) ELSE f[m - 1] OBVIOUS
  <2>4. PartOf(t, b, n, m) /\ Distinct(t)
    <3>1. PartOf(f[m - 1], b, n, m - 1) /\ Distinct(f[m - 1]) BY <2>2
    <3> HIDE DEF Good
    <3>2. PICK s : s = f[m - 1] OBVIOUS
    <3> QED BY <3>1, <3>2, <2>3, PartStep
  <2>5. PICK g : g = [i \in 0..m |-> IF i = m THEN t ELSE f[i]] OBVIOUS
  <2>6. g[m] = t /\ \A i \in 0..(m - 1) : g[i] = f[i] BY <2>5
  <2>7. Leaves(g, b, n, m)
    <3>1. g = [i \in 0..m |-> g[i]] BY <2>5
    <3>2. g[0] = <<>> BY <2>2, <2>6 DEF Leaves
    <3>3. ASSUME NEW i \in 1..m
          PROVE  g[i] = IF b[i].name # n THEN Append(g[i - 1], b[i]) ELSE g[i - 1]
      <4>1. g[i - 1] = f[i - 1] BY <2>6
      <4>2. CASE i = m
        <5>1. g[i] = t /\ g[i - 1] = f[m - 1] BY <4>1, <4>2, <2>6
        <5>2. t = IF b[i].name # n THEN Append(f[m - 1], b[i]) ELSE f[m - 1] BY <4>2, <2>3
        <5> HIDE DEF Good
        <5> QED BY <5>1, <5>2, Zenon
      <4>3. CASE i # m
        <5>1. i \in 1..(m - 1) /\ g[i] = f[i] BY <4>3, <2>6
        <5>2. f[i] = IF b[i].name # n THEN Append(f[i - 1], b[i]) ELSE f[i - 1]
          BY <5>1, <2>2 DEF Leaves
        <5> HIDE DEF Good
        <5> QED BY <4>1, <5>1, <5>2, Zenon
      <4> QED BY <4>2, <4>3
    <3> QED BY <3>1, <3>2, <3>3 DEF Leaves
  <2>8. \A i \in 0..m : PartOf(g[i], b, n, i) /\ Distinct(g[i])
    <3> TAKE i \in 0..m
    <3>1. CASE i = m BY <3>1, <2>4, <2>6
    <3>2. CASE i # m BY <3>2, <2>2, <2>6
    <3> QED BY <3>1, <3>2
  <2> QED BY <2>7, <2>8
<1>3. S = {}
  <2> SUFFICES ASSUME S # {} PROVE FALSE OBVIOUS
  <2>1. S \in SUBSET Nat BY <1>0
  <2> HIDE DEF S
  <2>2. PICK k \in S : \A m \in S : k <= m BY <2>1, SmallestOf
  <2>3. k \in 0..Len(b) BY <2>2 DEF S
  <2>4. CASE k = 0 BY <2>2, <2>4, <1>1
  <2>5. CASE k # 0
    <3>1. k \in 1..Len(b) /\ k - 1 \in Nat /\ ~(k <= k - 1) BY <2>3, <2>5, <1>0
    <3> QED BY <3>1, <2>2, <1>2
  <2> QED BY <2>4, <2>5
<1>4. PICK f : Good(f, Len(b)) BY <1>0, <1>3
<1> DEFINE Rec(left) == [i \in 0..Len(b) |->
        IF i = 0 THEN <<>>
        ELSE IF b[i].name # n THEN Append(left[i - 1], b[i]) ELSE left[i - 1]]
<1>5. f = Rec(f)
  <2>1. \A i \in 0..Len(b) : i = 0 \/ i \in 1..Len(b) BY <1>0
  <2> QED BY <1>0, <1>4, <2>1 DEF Leaves
<1> HIDE DEF Good, Rec
<1>6. PICK h : h = (CHOOSE left : left = Rec(left)) OBVIOUS
<1>7. h = Rec(h) BY <1>5, <1>6
<1>8. Book!Without(b, n) = h[Len(b)] BY <1>6 DEF Book!Without, Rec
<1> DEFINE T == { i \in 0..Len(b) : h[i] # f[i] }
<1>9. T = {}
  <2> SUFFICES ASSUME T # {} PROVE FALSE OBVIOUS
  <2>1. T \in SUBSET Nat BY <1>0
  <2> HIDE DEF T
  <2>2. PICK k \in T : \A m \in T : k <= m BY <2>1, SmallestOf
  <2>3. k \in 0..Len(b) /\ h[k] # f[k] BY <2>2 DEF T
  <2>4. CASE k = 0 BY <2>3, <2>4, <1>5, <1>7, <1>0 DEF Rec
  <2>5. CASE k # 0
    <3>1. k - 1 \in 0..Len(b) /\ ~(k <= k - 1) BY <2>3, <2>5, <1>0
    <3>2. h[k - 1] = f[k - 1] BY <3>1, <2>2 DEF T
    <3>3. /\ h[k] = IF b[k].name # n THEN Append(h[k - 1], b[k]) ELSE h[k - 1]
          /\ f[k] = IF b[k].name # n THEN Append(f[k - 1], b[k]) ELSE f[k - 1]
      <4>1. \A w : w = Rec(w) => w[k] = IF b[k].name # n THEN Append(w[k - 1], b[k]) ELSE w[k - 1]
        BY <2>3, <2>5 DEF Rec
      <4> QED BY <4>1, <1>5, <1>7
    <3> QED BY <3>2, <3>3, <2>3
  <2> QED BY <2>4, <2>5
<1>10. Book!Without(b, n) = f[Len(b)] BY <1>8, <1>9, <1>0
<1> QED BY <1>4, <1>10, <1>0 DEF Good

Fits(b) == b = Missing \/ (b \in Seq(Book!Peer) /\ Distinct(b) /\ Len(b) <= MaxPeers)
BookInv == Fits(store["peers"]) /\ Fits(disk["peers"])

\* An entry behind others of different names keeps the names apart.
LEMMA AppendFits ==
  ASSUME NEW b \in Seq(Book!Peer), Distinct(b), NEW p \in Book!Peer, Len(b) < MaxPeers,
         \A i \in 1..Len(b) : b[i].name # p.name
  PROVE  Append(b, p) \in Seq(Book!Peer) /\ Fits(Append(b, p))
<1>1. PICK t : t = Append(b, p) OBVIOUS
<1>2. /\ t \in Seq(Book!Peer) /\ Len(t) = Len(b) + 1 /\ t[Len(b) + 1] = p
      /\ \A i \in 1..Len(b) : t[i] = b[i]
  BY <1>1
<1>3. Len(b) \in Nat OBVIOUS
<1>4. Distinct(t) BY <1>2, <1>3 DEF Distinct
<1>5. Len(t) <= MaxPeers BY <1>2, <1>3, RegistryAssumption
<1> QED BY <1>1, <1>2, <1>4, <1>5 DEF Fits

\* Who is invited is in the registry.
LEMMA InvitedHas ==
  ASSUME NEW b \in Seq(Book!Peer), Distinct(b), NEW q
  PROVE  \E i \in DOMAIN Book!Invited(b, q) : Book!Invited(b, q)[i] = q
<1>1. PICK w : w = Book!Without(b, q.name) OBVIOUS
<1>2. w \in Seq(Book!Peer) BY <1>1, WithoutKeeps DEF PartOf
<1>3. w \in Seq(Book!Peer \cup {q}) BY <1>2
<1>4. PICK t : t = Append(w, q) OBVIOUS
<1>5. t \in Seq(Book!Peer \cup {q}) /\ Len(t) = Len(w) + 1 /\ t[Len(w) + 1] = q
  BY <1>3, <1>4
<1>6. Len(w) + 1 \in DOMAIN t BY <1>3, <1>5
<1> QED BY <1>1, <1>4, <1>5, <1>6 DEF Book!Invited

\* A registry that is changed is one that fits again.
LEMMA ChangeFits ==
  ASSUME NEW b, NEW new, Fits(b), Change(b, new)
  PROVE  new \in Seq(Book!Peer) /\ Fits(new)
<1>1. CASE b = Missing
  <2>1. new = <<>> BY <1>1 DEF Change
  <2>2. <<>> \in Seq(Book!Peer) /\ Len(<<>>) = 0 /\ Distinct(<<>>) BY DEF Distinct
  <2> QED BY <2>1, <2>2, RegistryAssumption DEF Fits
<1>2. CASE b # Missing
  <2>1. b \in Seq(Book!Peer) /\ Distinct(b) /\ Len(b) <= MaxPeers /\ Len(b) \in Nat
    BY <1>2 DEF Fits
  <2>2. ASSUME NEW q \in Book!Peer, Book!CanPair(b, q), new = Book!Paired(b, q)
        PROVE  new \in Seq(Book!Peer) /\ Fits(new)
    <3>1. Len(b) < MaxPeers /\ \A i \in 1..Len(b) : b[i].name # q.name
      BY <2>1, <2>2 DEF Book!CanPair
    <3> QED BY <2>1, <2>2, <3>1, AppendFits DEF Book!Paired
  <2>3. ASSUME NEW q \in Book!Peer, Book!CanInvite(b, q), new = Book!Invited(b, q)
        PROVE  new \in Seq(Book!Peer) /\ Fits(new)
    <3>1. PICK w : w = Book!Without(b, q.name) OBVIOUS
    <3>2. PartOf(w, b, q.name, Len(b)) /\ Distinct(w) BY <2>1, <3>1, WithoutKeeps
    <3>3. Len(w) < MaxPeers BY <2>3, <3>1 DEF Book!CanInvite
    <3>4. new = Append(w, q) BY <2>3, <3>1 DEF Book!Invited
    <3> QED BY <3>2, <3>3, <3>4, AppendFits DEF PartOf
  <2>4. ASSUME NEW n \in Name, new = Book!Without(b, n)
        PROVE  new \in Seq(Book!Peer) /\ Fits(new)
    <3>1. PartOf(new, b, n, Len(b)) /\ Distinct(new) BY <2>1, <2>4, WithoutKeeps
    <3>2. new \in Seq(Book!Peer) /\ Len(new) <= Len(b) /\ Len(new) \in Nat BY <3>1 DEF PartOf
    <3> QED BY <2>1, <3>1, <3>2, RegistryAssumption DEF Fits
  <2> QED BY <1>2, <2>2, <2>3, <2>4 DEF Change
<1> QED BY <1>1, <1>2

\* Every step of PeerBook leaves registries that fit.
LEMMA BookStepFits ==
  ASSUME BookInv, BookStep
  PROVE  BookInv'
<1>1. \A b : Fits(b) => Fits(b)' BY DEF Fits
<1>2. CASE store'["peers"] = store["peers"] /\ disk'["peers"] = disk["peers"]
  BY <1>2 DEF BookInv, Fits
<1>3. CASE Book!Next
  <2>1. CASE disk'["peers"] = disk["peers"] /\ Change(store["peers"], store'["peers"])
    <3>1. Fits(store'["peers"]) BY <2>1, ChangeFits DEF BookInv
    <3> QED BY <2>1, <3>1 DEF BookInv, Fits
  <2>2. CASE Book!Settle BY <2>2 DEF Book!Settle, BookInv, Fits
  <2>3. CASE Book!PowerLoss BY <2>3 DEF Book!PowerLoss, BookInv, Fits
  <2>4. Book!Found => disk'["peers"] = disk["peers"] /\ Change(store["peers"], store'["peers"])
    BY DEF Book!Found, Change
  <2>5. ASSUME NEW q \in Book!Peer, Book!Enroll(q)
        PROVE  disk'["peers"] = disk["peers"] /\ Change(store["peers"], store'["peers"])
    BY <2>5 DEF Book!Enroll, Change
  <2>6. ASSUME NEW n \in Name, Book!Revoke(n)
        PROVE  disk'["peers"] = disk["peers"] /\ Change(store["peers"], store'["peers"])
    BY <2>6 DEF Book!Revoke, Change
  <2> QED BY <1>3, <2>1, <2>2, <2>3, <2>4, <2>5, <2>6 DEF Book!Next
<1> QED BY <1>2, <1>3 DEF BookStep

\* One name is one peer, also after a power failure: who is revoked is gone.
THEOREM OneNameOnePeer == Spec => [](Book!OneNameOnePeer /\ Book!TypeOK)
<1>1. Init => BookInv BY DEF Init, BookInv, Fits, File
<1>2. RegistryInv /\ BookInv /\ [Next]_vars => RegistryInv' /\ BookInv'
  BY RegistryStep, BookStepFits
<1>3. BookInv => Book!OneNameOnePeer /\ Book!TypeOK
  <2> SUFFICES ASSUME BookInv PROVE Book!OneNameOnePeer /\ Book!TypeOK OBVIOUS
  <2>1. ASSUME NEW b \in {store["peers"], disk["peers"]} \ {Missing}, NEW i \in DOMAIN b,
               NEW j \in DOMAIN b, b[i].name = b[j].name
        PROVE  i = j
    <3>1. b \in Seq(Book!Peer) /\ Distinct(b) BY <2>1 DEF BookInv, Fits
    <3>2. DOMAIN b = 1..Len(b) BY <3>1
    <3> QED BY <2>1, <3>1, <3>2 DEF Distinct
  <2>2. Book!TypeOK BY DEF Book!TypeOK, BookInv, Fits
  <2> QED BY <2>1, <2>2 DEF Book!OneNameOnePeer
<1> QED BY <1>1, <1>2, <1>3, RegistryInit, PTL DEF Spec

-------------------------------------------------------------------------------
(* What commands leave in the directory.  Where nothing died or failed, the    *)
(* files that would refuse later commands belong to one that runs.             *)

Enrolled(j, b) == \E i \in DOMAIN b : b[i] = PeerOf(j)

\* The identity is only saved where there was none, and an invitation saves, and then
\* answers with, an enrolment of its own phone.
Sound(j, s) ==
  /\ j.pc \in Saving /\ j.file = "identity" => s["identity"] = Missing /\ j.cmd.kind = "init"
  /\ j.pc \in Saving /\ j.cmd.kind = "invite" =>
       /\ j.file = "peers" /\ s["peers"] # Missing
       /\ j.content = Book!Invited(s["peers"], PeerOf(j))
  /\ (j.pc = "saved" /\ j.cmd.kind = "invite") \/ j.pc \in {"answer", "accepted"} =>
       Enrolled(j, s["peers"])

\* Init is not done: what is missing beside the identity is what it makes next.
Founding(j, s) ==
  /\ j.cmd.kind = "init"
  /\ \/ j.pc \in Saving /\ j.file = "peers"
     \/ j.pc = "saved" /\ j.file = "identity"
     \/ j.pc \in {"saved", "cert"} /\ s["peers"] # Missing
     \/ j.pc = "done" /\ s["peers"] # Missing /\ s["cert"] # Missing

\* What one who holds the lock has in the directory, and what is there if nobody does.
Owned(j, s) ==
  /\ j.pc \in Locking
  /\ \A f \in {"identity", "peers"} : s[Pending[f]] # Missing =>
       j.pc \in {"write", "sync", "rename"} /\ j.file = f
  /\ s["identity"] # Missing =>
       (s["peers"] # Missing /\ s["cert"] # Missing) \/ Founding(j, s)
Clear(s) ==
  /\ \A f \in {"identity", "peers"} : s[Pending[f]] = Missing
  /\ s["identity"] # Missing => s["peers"] # Missing /\ s["cert"] # Missing

Tidy ==
  /\ lock = Nobody => Clear(store)
  /\ lock # Nobody => lock \in Process /\ Owned(job[lock], store)
  /\ store["qr"] # Missing => \E p \in Process : job[p].pc # "rest" /\ job[p].cmd.kind = "invite"

DirectoryInv ==
  /\ cut \in Nat
  /\ \A p \in Process : Sound(job[p], store)
  /\ cut = 0 => Tidy

Same(f) == store'[f] = store[f]

\* While p moves, what the others have in hand stays sound.
LEMMA OthersSound ==
  ASSUME RegistryInv, DirectoryInv, NEW p \in Process, NEW q \in Process, q # p,
         (Same("identity") /\ Same("peers")) \/ lock = p
  PROVE  Sound(job[q], store')
<1>1. Sound(job[q], store) BY DEF DirectoryInv
<1>2. CASE Same("identity") /\ Same("peers") BY <1>1, <1>2 DEF Sound, Same
<1>3. CASE lock = p
  <2>1. job[q].pc \notin Locking BY <1>3 DEF RegistryInv, Lawful
  <2> QED BY <2>1 DEF Sound, Locking, Saving
<1> QED BY <1>2, <1>3

\* A process goes on as k: alone with the lock, or beside whoever has it.
LEMMA GoesTidily ==
  ASSUME RegistryInv, DirectoryInv, NEW p \in Process, NEW k,
         job' = [job EXCEPT ![p] = k], k.pc # "rest", UNCHANGED cut, Sound(k, store'),
         (Same("identity") /\ Same("peers")) \/ lock = p,
         \/ lock' = p /\ (cut = 0 => Owned(k, store'))
         \/ UNCHANGED lock /\ lock # p /\ \A f \in File \ {"qr"} : Same(f),
         store'["qr"] # Missing => store["qr"] # Missing \/ k.cmd.kind = "invite",
         job[p].pc # "rest" => k.cmd = job[p].cmd
  PROVE  DirectoryInv'
<1>1. job'[p] = k /\ \A q \in Process : q # p => job'[q] = job[q] BY DEF RegistryInv
<1>2. \A q \in Process : Sound(job'[q], store')
  <2> TAKE q \in Process
  <2>1. CASE q = p BY <2>1, <1>1
  <2>2. CASE q # p BY <2>2, <1>1, OthersSound
  <2> QED BY <2>1, <2>2
<1>3. ASSUME cut = 0 PROVE Tidy'
  <2>1. Tidy BY <1>3 DEF DirectoryInv
  <2>2. ASSUME store'["qr"] # Missing
        PROVE  \E q \in Process : job'[q].pc # "rest" /\ job'[q].cmd.kind = "invite"
    <3>1. CASE k.cmd.kind = "invite" BY <3>1, <1>1
    <3>2. CASE store["qr"] # Missing
      <4>1. PICK q \in Process : job[q].pc # "rest" /\ job[q].cmd.kind = "invite"
        BY <3>2, <2>1 DEF Tidy
      <4> QED BY <4>1, <1>1
    <3> QED BY <2>2, <3>1, <3>2
  <2>3. CASE lock' = p /\ Owned(k, store')
    <3>1. lock' # Nobody BY <2>3, RegistryAssumption
    <3> QED BY <2>2, <2>3, <3>1, <1>1 DEF Tidy
  <2>4. CASE UNCHANGED lock /\ lock # p /\ \A f \in File \ {"qr"} : Same(f)
    <3>1. /\ Same("identity") /\ Same("peers") /\ Same("cert")
          /\ Same("identity.pending") /\ Same("peers.pending")
      BY <2>4 DEF File
    <3>2. \A f \in {"identity", "peers"} : Same(Pending[f]) BY <3>1 DEF Pending
    <3>3. lock = Nobody => Clear(store') BY <2>1, <3>1, <3>2 DEF Tidy, Clear, Same
    <3>4. lock # Nobody => Owned(job'[lock], store')
      BY <2>1, <2>4, <3>1, <3>2, <1>1 DEF Tidy, Owned, Founding, Same
    <3> QED BY <2>1, <2>2, <2>4, <3>3, <3>4 DEF Tidy
  <2> QED BY <1>3, <2>3, <2>4
<1> QED BY <1>2, <1>3 DEF DirectoryInv

\* A process stops or is stopped: if nothing ever failed, it has left nothing.
LEMMA StopsTidily ==
  ASSUME RegistryInv, DirectoryInv, NEW p \in Process,
         job' = [job EXCEPT ![p] = Resting], lock' = IF lock = p THEN Nobody ELSE lock,
         \A f \in File \ {"qr"} : Same(f),
         \/ cut' = cut + 1
         \/ /\ UNCHANGED cut
            /\ store'["qr"] = IF job[p].cmd.kind = "invite" THEN Missing ELSE store["qr"]
            /\ job[p].pc \notin {"write", "sync", "rename"}
            /\ cut = 0 /\ lock = p /\ Founding(job[p], store) =>
                 store["peers"] # Missing /\ store["cert"] # Missing
  PROVE  DirectoryInv'
<1>1. job'[p] = Resting /\ \A q \in Process : q # p => job'[q] = job[q] BY DEF RegistryInv
<1>2. /\ Same("identity") /\ Same("peers") /\ Same("cert")
      /\ Same("identity.pending") /\ Same("peers.pending")
  BY DEF File
<1>3. \A f \in {"identity", "peers"} : Same(Pending[f]) BY <1>2 DEF Pending
<1>4. \A q \in Process : Sound(job'[q], store')
  <2> TAKE q \in Process
  <2>1. CASE q = p
    <3>1. job'[q].pc = "rest" BY <2>1, <1>1 DEF Resting
    <3> QED BY <3>1 DEF Sound, Saving
  <2>2. CASE q # p BY <2>2, <1>1, <1>2, OthersSound
  <2> QED BY <2>1, <2>2
<1>5. CASE cut' = cut + 1 BY <1>4, <1>5 DEF DirectoryInv
<1>6. CASE /\ UNCHANGED cut
           /\ store'["qr"] = IF job[p].cmd.kind = "invite" THEN Missing ELSE store["qr"]
           /\ job[p].pc \notin {"write", "sync", "rename"}
           /\ cut = 0 /\ lock = p /\ Founding(job[p], store) =>
                store["peers"] # Missing /\ store["cert"] # Missing
  <2>1. ASSUME cut = 0 PROVE Tidy'
    <3>1. Tidy BY <2>1 DEF DirectoryInv
    <3>2. ASSUME store'["qr"] # Missing
          PROVE  \E q \in Process : job'[q].pc # "rest" /\ job'[q].cmd.kind = "invite"
      <4>1. PICK q \in Process : job[q].pc # "rest" /\ job[q].cmd.kind = "invite"
        BY <3>1, <3>2, <1>6 DEF Tidy
      <4>2. q # p BY <4>1, <3>2, <1>6
      <4> QED BY <4>1, <4>2, <1>1
    <3>3. CASE lock = p
      <4>1. Owned(job[p], store) BY <3>1, <3>3, RegistryAssumption DEF Tidy
      <4>2. Clear(store') BY <4>1, <3>3, <2>1, <1>2, <1>3, <1>6 DEF Owned, Clear, Same
      <4> QED BY <4>2, <3>2, <3>3 DEF Tidy
    <3>4. CASE lock # p
      <4>1. lock = Nobody => Clear(store') BY <3>1, <1>2, <1>3 DEF Tidy, Clear, Same
      <4>2. lock # Nobody => lock \in Process /\ Owned(job'[lock], store')
        BY <3>1, <3>4, <1>1, <1>2, <1>3 DEF Tidy, Owned, Founding, Same
      <4> QED BY <3>2, <3>4, <4>1, <4>2 DEF Tidy
    <3> QED BY <3>3, <3>4
  <2> QED BY <2>1, <1>4, <1>6 DEF DirectoryInv
<1> QED BY <1>5, <1>6

\* A process goes on to pc, and remembers what it has.
LEMMA WentOn ==
  ASSUME RegistryInv, NEW p \in Process, job[p].pc # "rest",
         NEW pc \in Locking \cup Inviting, Goes(p, pc)
  PROVE  \E k : /\ job' = [job EXCEPT ![p] = k] /\ k.pc = pc /\ k.cmd = job[p].cmd
                /\ k.device = job[p].device /\ k.file = job[p].file
                /\ k.content = job[p].content
<1> DEFINE k == [job[p] EXCEPT !.pc = pc]
<1>1. JobForm(job[p]) /\ Given(job[p]) BY DEF RegistryInv, Lawful
<1>2. /\ k.pc = pc /\ k.cmd = job[p].cmd /\ k.device = job[p].device
      /\ k.file = job[p].file /\ k.content = job[p].content
  BY <1>1, GoesOn
<1>3. job' = [job EXCEPT ![p] = k] BY DEF Goes
<1> HIDE DEF k
<1> QED BY <1>2, <1>3

\* Where an invitation saves or answers, nothing of its own has changed.
LEMMA StaysSound ==
  ASSUME NEW j, NEW k, NEW s, Sound(j, s), k.cmd = j.cmd, k.device = j.device,
         k.file = j.file, k.content = j.content, NEW t,
         t["peers"] = s["peers"], t["identity"] = s["identity"],
         \/ j.pc \in Saving /\ k.pc \in Saving
         \/ k.pc \notin Saving \cup {"saved", "answer", "accepted"}
         \/ j.pc = "saved" /\ k.pc = "answer" /\ j.cmd.kind = "invite"
         \/ j.pc = "answer" /\ k.pc = "accepted"
  PROVE  Sound(k, t)
<1>1. PeerOf(k) = PeerOf(j) BY DEF PeerOf
<1>2. Enrolled(j, s["peers"]) => Enrolled(k, t["peers"]) BY <1>1 DEF Enrolled
<1> QED BY <1>1, <1>2 DEF Sound, Saving

\* Every step leaves a sound directory.
LEMMA DirectoryStep ==
  ASSUME RegistryInv, DirectoryInv, BookInv, [Next]_vars
  PROVE  DirectoryInv'
<1>1. \A p \in Process : /\ JobForm(job[p]) /\ (job[p].pc # "rest" => Given(job[p]))
                         /\ job[p].pc \in Locking => lock = p
  BY DEF RegistryInv, Lawful
<1>2. \A p \in Process : Sound(job[p], store) BY DEF DirectoryInv
<1>3. \A p \in Process : p # Nobody BY RegistryAssumption
<1>4. ASSUME NEW p \in Process, cut = 0, lock = p PROVE Owned(job[p], store)
  BY <1>4, <1>3 DEF DirectoryInv, Tidy
\* A command returns by itself.
<1>5. ASSUME NEW p \in Process, Stops(p),
             job[p].pc \notin {"write", "sync", "rename"},
             cut = 0 /\ lock = p /\ Founding(job[p], store) =>
               store["peers"] # Missing /\ store["cert"] # Missing
      PROVE  DirectoryInv'
  <2>1. /\ job' = [job EXCEPT ![p] = Resting] /\ lock' = IF lock = p THEN Nobody ELSE lock
        /\ store' = IF job[p].cmd.kind = "invite" THEN [store EXCEPT !["qr"] = Missing] ELSE store
        /\ UNCHANGED cut
    BY <1>5 DEF Stops, Returns
  <2>2. (\A f \in File \ {"qr"} : Same(f))
        /\ store'["qr"] = IF job[p].cmd.kind = "invite" THEN Missing ELSE store["qr"]
    BY <2>1 DEF RegistryInv, File, Same
  <2> QED BY <2>1, <2>2, <1>5, StopsTidily
\* A process goes on, and touches no file.
<1>6. ASSUME NEW p \in Process, job[p].pc # "rest", NEW pc \in Locking \cup Inviting,
             Goes(p, pc), UNCHANGED <<files, lock, cut>>,
             \/ pc \in Inviting /\ job[p].pc \in Inviting
             \/ pc = "answer" /\ job[p].pc = "saved" /\ job[p].cmd.kind = "invite"
             \/ pc = "accepted" /\ job[p].pc = "answer"
             \/ pc = "cert" /\ job[p].pc = "saved" /\ job[p].cmd.kind = "init"
                  /\ (job[p].file = "identity" => store["peers"] # Missing)
      PROVE  DirectoryInv'
  <2>1. PICK k : /\ job' = [job EXCEPT ![p] = k] /\ k.pc = pc /\ k.cmd = job[p].cmd
                 /\ k.device = job[p].device /\ k.file = job[p].file
                 /\ k.content = job[p].content
    BY <1>6, WentOn
  <2>2. UNCHANGED <<store, lock, cut>> BY <1>6 DEF files
  <2>3. Sound(k, store) BY <2>1, <1>2, <1>6, StaysSound DEF Saving, Inviting
  <2>4. k.pc # "rest" /\ \A f \in File : Same(f)
    BY <2>1, <2>2, <1>6 DEF Locking, Inviting, Same
  <2>5. ASSUME cut = 0, lock = p PROVE Owned(k, store)
    <3>1. Owned(job[p], store) BY <2>5, <1>4
    <3>2. job[p].pc \notin Inviting \cup {"write", "sync", "rename"} /\ k.pc \in Locking
      BY <2>1, <3>1, <1>6 DEF Locking, Inviting, Owned
    <3>3. Founding(job[p], store) =>
               Founding(k, store) \/ (store["peers"] # Missing /\ store["cert"] # Missing)
      BY <2>1, <3>2, <1>6 DEF Founding, Saving
    <3> QED BY <3>1, <3>2, <3>3 DEF Owned
  <2> QED BY <2>1, <2>2, <2>3, <2>4, <2>5, GoesTidily DEF File, Same
\* A process begins to save, under the lock.
<1>7. ASSUME NEW p \in Process, NEW f \in {"identity", "peers"}, NEW content,
             Saves(p, f, content), lock' = p, UNCHANGED <<files, cut>>,
             \/ lock = p /\ job[p].pc \in {"begun", "saved"} /\ job[p].cmd.kind # "invite"
             \/ /\ lock = Nobody /\ job[p].pc = "approved" /\ job[p].cmd.kind = "invite"
                /\ f = "peers" /\ store["peers"] # Missing
                /\ content = Book!Invited(store["peers"], PeerOf(job[p])),
             f = "identity" => store["identity"] = Missing /\ job[p].cmd.kind = "init",
             job[p].pc = "saved" => job[p].cmd.kind = "init" /\ f = "peers"
      PROVE  DirectoryInv'
  <2>1. job[p].pc # "rest" BY <1>7
  <2>2. PICK k : /\ job' = [job EXCEPT ![p] = k] /\ k.pc = "create" /\ k.cmd = job[p].cmd
                 /\ k.device = job[p].device /\ k.file = f /\ k.content = content
    BY <2>1, <1>1, <1>7, SavesOn
  <2>3. UNCHANGED <<store, lock, cut>> \/ (UNCHANGED <<store, cut>> /\ lock = Nobody)
    BY <1>7 DEF files
  <2>4. PeerOf(k) = PeerOf(job[p]) BY <2>2 DEF PeerOf
  <2>5. Sound(k, store) BY <2>2, <2>4, <1>7 DEF Sound, Saving
  <2>6. ASSUME cut = 0 PROVE Owned(k, store)
    <3>1. CASE lock = p
      <4>1. Owned(job[p], store) BY <3>1, <2>6, <1>4
      <4>2. job[p].pc \in {"begun", "saved"} BY <3>1, <1>3, <1>7
      <4>3. job[p].pc = "saved" => Founding(k, store) BY <2>2, <1>7 DEF Founding, Saving
      <4>4. job[p].pc = "begun" => ~Founding(job[p], store) BY DEF Founding, Saving
      <4> QED BY <2>2, <4>1, <4>2, <4>3, <4>4 DEF Owned, Locking
    <3>2. CASE lock = Nobody
      <4>1. Clear(store) BY <3>2, <2>6 DEF DirectoryInv, Tidy
      <4> QED BY <2>2, <4>1 DEF Clear, Owned, Locking
    <3> QED BY <3>1, <3>2, <1>7
  <2> QED BY <2>1, <2>2, <2>3, <2>5, <2>6, <1>7, GoesTidily DEF Same
\* A process that saves or certifies writes to a file, under the lock.
<1>8. ASSUME NEW p \in Process, NEW pc \in Locking, Goes(p, pc), job[p].pc \in Locking,
             UNCHANGED <<lock, cut>>, Same("qr"),
             \A k : k.pc = pc /\ k.cmd = job[p].cmd /\ k.device = job[p].device
                     /\ k.file = job[p].file /\ k.content = job[p].content =>
                    Sound(k, store') /\ (cut = 0 => Owned(k, store'))
      PROVE  DirectoryInv'
  <2>1. job[p].pc # "rest" /\ pc # "rest" /\ lock = p BY <1>1, <1>8 DEF Locking
  <2>2. PICK k : /\ job' = [job EXCEPT ![p] = k] /\ k.pc = pc /\ k.cmd = job[p].cmd
                 /\ k.device = job[p].device /\ k.file = job[p].file
                 /\ k.content = job[p].content
    BY <2>1, <1>8, WentOn
  <2>3. Sound(k, store') /\ (cut = 0 => Owned(k, store')) BY <2>2, <1>8
  <2>4. store'["qr"] # Missing => store["qr"] # Missing BY <1>8 DEF Same
  <2> QED BY <2>1, <2>2, <2>3, <2>4, <1>8, GoesTidily
<1>9. ASSUME NEW p \in Process, NEW c \in Command, Start(p, c) PROVE DirectoryInv'
  <2> DEFINE k == [pc |-> "begun", cmd |-> c,
                   device |-> IF c.kind = "pair" THEN c.device ELSE Nobody, file |-> "peers",
                   content |-> Missing, tries |-> 0, late |-> FALSE]
  <2>1. /\ job' = [job EXCEPT ![p] = k] /\ UNCHANGED <<store, cut>> /\ lock = Nobody /\ lock' = p
        /\ job[p].pc = "rest"
    BY <1>9 DEF Start, Begins, files, At
  <2>2. k.pc = "begun" OBVIOUS
  <2> HIDE DEF k
  <2>3. Sound(k, store) BY <2>2 DEF Sound, Saving
  <2>4. ASSUME cut = 0 PROVE Owned(k, store)
    <3>1. Clear(store) BY <2>1, <2>4 DEF DirectoryInv, Tidy
    <3> QED BY <2>2, <3>1 DEF Clear, Owned, Locking
  <2> QED BY <2>1, <2>2, <2>3, <2>4, GoesTidily DEF Same
<1>10. ASSUME NEW p \in Process, NEW c \in Command, Invite(p, c) PROVE DirectoryInv'
  <2> DEFINE k == [pc |-> "listening", cmd |-> c, device |-> Nobody, file |-> "peers",
                   content |-> Missing, tries |-> 0, late |-> FALSE]
  <2>0. c.kind # "pair" BY <1>10 DEF Invite
  <2>1. /\ job' = [job EXCEPT ![p] = k] /\ store' = [store EXCEPT !["qr"] = Torn]
        /\ UNCHANGED <<lock, cut>> /\ job[p].pc = "rest" /\ c.kind = "invite"
    BY <2>0, <1>10 DEF Invite, Begins, At
  <2>2. k.pc = "listening" /\ k.cmd.kind = "invite" BY <2>1
  <2> HIDE DEF k
  <2>3. Sound(k, store') BY <2>2 DEF Sound, Saving
  <2>4. \A f \in File \ {"qr"} : Same(f) BY <2>1 DEF RegistryInv, File, Same
  <2>5. ASSUME lock = p, cut = 0 PROVE FALSE
    <3>1. Owned(job[p], store) BY <2>5, <1>4
    <3> QED BY <3>1, <2>1 DEF Owned, Locking
  <2>6. Same("identity") /\ Same("peers") BY <2>4 DEF File
  <2> QED BY <2>1, <2>2, <2>3, <2>4, <2>5, <2>6, GoesTidily
<1>11. ASSUME NEW p \in Process, MakeIdentity(p) PROVE DirectoryInv'
  <2>1. job[p].pc = "begun" /\ job[p].cmd.kind = "init" /\ lock = p
    BY <1>1, <1>11 DEF MakeIdentity, At, Locking
  <2>2. CASE Stops(p) BY <2>1, <2>2, <1>5 DEF Founding, Saving
  <2>3. CASE /\ store["identity"] = Missing /\ Saves(p, "identity", Generated)
             /\ UNCHANGED <<files, lock, cut>>
    <3>1. PICK i : i = Generated OBVIOUS
    <3> QED BY <2>1, <2>3, <3>1, <1>7
  <2> QED BY <2>2, <2>3, <1>11 DEF MakeIdentity
<1>12. ASSUME NEW p \in Process, Pair(p) \/ Revoke(p) PROVE DirectoryInv'
  <2>1. job[p].pc = "begun" /\ job[p].cmd.kind \in {"pair", "revoke"} /\ lock = p
    BY <1>1, <1>12 DEF Pair, Revoke, At, Locking
  <2>2. CASE Stops(p) BY <2>1, <2>2, <1>5 DEF Founding, Saving
  <2>3. ASSUME NEW b, Saves(p, "peers", b), UNCHANGED <<files, lock, cut>>
        PROVE  DirectoryInv'
    BY <2>1, <2>3, <1>7
  <2> QED BY <2>2, <2>3, <1>12 DEF Pair, Revoke
\* Where a process saves.
<1>13. ASSUME NEW p \in Process, job[p].pc \in Saving
       PROVE  /\ job[p].pc \in Locking /\ lock = p
              /\ job[p].file \in {"identity", "peers"} /\ Beside(p) = Pending[job[p].file]
              /\ Beside(p) \in {"identity.pending", "peers.pending"}
              /\ \A f \in {"identity", "peers"} : Pending[f] = Beside(p) <=> f = job[p].file
  <2>1. job[p].pc # "rest" /\ job[p].pc \in Locking BY <1>13 DEF Saving, Locking
  <2>2. job[p].file \in {"identity", "peers"} BY <2>1, <1>1 DEF Given
  <2> QED BY <2>1, <2>2, <1>1 DEF Beside, Pending
\* A save makes or writes the file beside it.
<1>14. ASSUME NEW p \in Process, job[p].pc \in {"create", "write"}, NEW x,
              store' = [store EXCEPT ![Beside(p)] = x], NEW pc \in {"write", "sync"},
              Goes(p, pc), UNCHANGED <<lock, cut>>
       PROVE  DirectoryInv'
  <2>1. /\ job[p].pc \in Locking /\ lock = p
        /\ Beside(p) \in {"identity.pending", "peers.pending"}
        /\ \A f \in {"identity", "peers"} : Pending[f] = Beside(p) <=> f = job[p].file
    BY <1>13, <1>14 DEF Saving
  <2>2. \A f \in File \ {Beside(p)} : Same(f) BY <1>14 DEF RegistryInv, Same
  <2>3. Same("identity") /\ Same("peers") /\ Same("cert") /\ Same("qr")
    BY <2>1, <2>2 DEF File
  <2>4. ASSUME NEW k, k.pc = pc, k.cmd = job[p].cmd, k.device = job[p].device,
               k.file = job[p].file, k.content = job[p].content
        PROVE  Sound(k, store') /\ (cut = 0 => Owned(k, store'))
    <3>1. Sound(k, store')
      <4>1. Sound(job[p], store) BY <1>2
      <4>2. job[p].pc \in Saving /\ k.pc \in Saving BY <2>4, <1>14 DEF Saving
      <4>3. store'["peers"] = store["peers"] /\ store'["identity"] = store["identity"]
        BY <2>3 DEF Same
      <4> QED BY <2>4, <4>1, <4>2, <4>3, StaysSound
    <3>2. ASSUME cut = 0 PROVE Owned(k, store')
      <4>1. Owned(job[p], store) BY <3>2, <2>1, <1>4
      <4>2. ASSUME NEW f \in {"identity", "peers"}, store'[Pending[f]] # Missing
            PROVE  k.pc \in {"write", "sync", "rename"} /\ k.file = f
        <5>1. CASE f = job[p].file BY <5>1, <2>4, <1>14
        <5>2. CASE f # job[p].file
          <6>1. Pending[f] \in File \ {Beside(p)} BY <5>2, <2>1 DEF Pending, File
          <6>2. store[Pending[f]] # Missing BY <6>1, <2>2, <4>2 DEF Same
          <6> QED BY <6>2, <5>2, <4>1 DEF Owned
        <5> QED BY <5>1, <5>2
      <4>3. Founding(job[p], store) => Founding(k, store')
        BY <2>4, <1>14 DEF Founding, Saving
      <4> QED BY <2>3, <2>4, <1>14, <4>1, <4>2, <4>3 DEF Owned, Same, Locking
    <3> QED BY <3>1, <3>2
  <2>5. pc \in Locking BY DEF Locking
  <2> QED BY <2>1, <2>3, <2>4, <2>5, <1>8, <1>14
<1>15. ASSUME NEW p \in Process, Create(p) PROVE DirectoryInv'
  <2>1. job[p].pc = "create" BY <1>15 DEF Create, At
  <2>2. CASE store[Beside(p)] # Missing /\ Stops(p)
    <3>1. ASSUME cut = 0, lock = p PROVE FALSE
      <4>1. Owned(job[p], store) BY <3>1, <1>4
      <4>2. job[p].file \in {"identity", "peers"} /\ store[Pending[job[p].file]] # Missing
        BY <2>1, <2>2, <1>13 DEF Saving
      <4> QED BY <2>1, <4>1, <4>2 DEF Owned
    <3> QED BY <2>1, <2>2, <3>1, <1>5
  <2>3. CASE store' = [store EXCEPT ![Beside(p)] = Torn] /\ Goes(p, "write")
             /\ UNCHANGED <<lock, cut>>
    BY <2>1, <2>3, <1>14
  <2> QED BY <2>2, <2>3, <1>15 DEF Create
<1>16. ASSUME NEW p \in Process, Write(p) PROVE DirectoryInv'
  <2>1. /\ job[p].pc = "write" /\ store' = [store EXCEPT ![Beside(p)] = job[p].content]
        /\ Goes(p, "sync") /\ UNCHANGED <<lock, cut>>
    BY <1>16 DEF Write, At
  <2> QED BY <2>1, <1>14
<1>17. ASSUME NEW p \in Process, Sync(p) PROVE DirectoryInv'
  <2>1. job[p].pc = "sync" /\ Goes(p, "rename") /\ UNCHANGED <<store, lock, cut>>
    BY <1>17 DEF Sync, At
  <2>2. job[p].pc \in Locking /\ lock = p BY <2>1, <1>13 DEF Saving
  <2>3. ASSUME NEW k, k.pc = "rename", k.cmd = job[p].cmd, k.device = job[p].device,
               k.file = job[p].file, k.content = job[p].content
        PROVE  Sound(k, store') /\ (cut = 0 => Owned(k, store'))
    <3>1. Sound(k, store) BY <2>1, <2>3, <1>2, StaysSound DEF Saving
    <3>2. cut = 0 => Owned(job[p], store) BY <2>2, <1>4
    <3>3. cut = 0 => Owned(k, store) BY <2>1, <2>3, <3>2 DEF Owned, Founding, Saving, Locking
    <3> QED BY <2>1, <3>1, <3>3
  <2>4. Same("qr") BY <2>1 DEF Same
  <2> QED BY <2>1, <2>2, <2>3, <2>4, <1>8 DEF Locking
<1>18. ASSUME NEW p \in Process, Rename(p) PROVE DirectoryInv'
  <2> DEFINE to == job[p].file
  <2>1. /\ job[p].pc = "rename" /\ Goes(p, "saved") /\ UNCHANGED <<lock, cut>>
        /\ store' = [store EXCEPT ![to] = store[Beside(p)], ![Beside(p)] = Missing]
    BY <1>18 DEF Rename, At
  <2>2. /\ job[p].pc \in Locking /\ lock = p /\ to \in {"identity", "peers"}
        /\ Beside(p) = Pending[to]
    BY <2>1, <1>13 DEF Saving
  <2>3. /\ store'[Pending[to]] = Missing /\ store'[to] = store[Pending[to]]
        /\ \A f \in File \ {to, Pending[to]} : Same(f)
    BY <2>1, <2>2 DEF RegistryInv, File, Pending, Same
  <2>4. Same("qr") /\ Same("cert") BY <2>2, <2>3 DEF File, Pending
  <2>5. CASE to = "identity"
    <3>1. Same("peers") /\ Same("peers.pending") /\ store'["identity.pending"] = Missing
      BY <2>3, <2>5 DEF File, Pending
    <3>2. ASSUME NEW k, k.pc = "saved", k.cmd = job[p].cmd, k.device = job[p].device,
                 k.file = job[p].file, k.content = job[p].content
          PROVE  Sound(k, store') /\ (cut = 0 => Owned(k, store'))
      <4>1. Sound(job[p], store) BY <1>2
      <4>2. job[p].cmd.kind # "invite" /\ store["identity"] = Missing
        BY <4>1, <2>1, <2>5 DEF Sound, Saving
      <4>3. Sound(k, store') BY <3>2, <4>2 DEF Sound, Saving
      <4>4. cut = 0 => Owned(job[p], store) BY <2>2, <1>4
      <4>5. ASSUME cut = 0 PROVE store'["peers.pending"] = Missing
        BY <4>4, <4>5, <2>5, <3>1 DEF Owned, Same, Pending
      <4>6. job[p].cmd.kind = "init" => Founding(k, store') BY <3>2, <2>5 DEF Founding
      <4>7. job[p].cmd.kind = "init" BY <4>1, <2>1, <2>5 DEF Sound, Saving
      <4>8. cut = 0 => Owned(k, store')
        BY <3>1, <3>2, <4>5, <4>6, <4>7 DEF Owned, Pending, Locking
      <4> QED BY <4>3, <4>8
    <3> QED BY <2>1, <2>2, <2>4, <3>2, <1>8 DEF Locking
  <2>6. CASE to = "peers"
    <3>1. Same("identity") /\ Same("identity.pending") /\ store'["peers.pending"] = Missing
      BY <2>3, <2>6 DEF File, Pending
    <3>2. Change(store["peers"], job[p].content) /\ store["peers.pending"] = job[p].content
      BY <2>1, <2>6 DEF RegistryInv, Lawful, Saving
    <3>3. store'["peers"] = job[p].content BY <2>3, <2>6, <3>2 DEF Pending
    <3>4. store'["peers"] # Missing
      BY <3>2, <3>3, ChangeFits, MissingAssumption DEF BookInv
    <3>5. ASSUME NEW k, k.pc = "saved", k.cmd = job[p].cmd, k.device = job[p].device,
                 k.file = job[p].file, k.content = job[p].content
          PROVE  Sound(k, store') /\ (cut = 0 => Owned(k, store'))
      <4>1. Sound(job[p], store) BY <1>2
      <4>2. ASSUME job[p].cmd.kind = "invite" PROVE Enrolled(k, store'["peers"])
        <5>1. PICK b : b = store["peers"] OBVIOUS
        <5>2. b # Missing /\ store'["peers"] = Book!Invited(b, PeerOf(k))
          BY <4>1, <4>2, <5>1, <2>1, <3>3, <3>5 DEF Sound, Saving, PeerOf
        <5>3. Fits(b) BY <5>1 DEF BookInv
        <5> QED BY <5>2, <5>3, InvitedHas DEF Enrolled, Fits
      <4>3. Sound(k, store') BY <3>5, <4>2 DEF Sound, Saving
      <4>4. cut = 0 => Owned(job[p], store) BY <2>2, <1>4
      <4>5. ASSUME cut = 0 PROVE store'["identity.pending"] = Missing
        BY <4>4, <4>5, <2>6, <3>1 DEF Owned, Same, Pending
      <4>6. Founding(job[p], store) => Founding(k, store') BY <3>4, <3>5 DEF Founding
      <4>7. cut = 0 => Owned(k, store')
        BY <2>4, <3>1, <3>4, <3>5, <4>4, <4>5, <4>6 DEF Owned, Same, Pending, Locking
      <4> QED BY <4>3, <4>7
    <3> QED BY <2>1, <2>2, <2>4, <3>5, <1>8 DEF Locking
  <2> QED BY <2>2, <2>5, <2>6
<1>19. ASSUME NEW p \in Process, Saved(p) PROVE DirectoryInv'
  <2>1. job[p].pc = "saved" /\ job[p].pc # "rest" /\ lock = p
    BY <1>1, <1>19 DEF Saved, At, Locking
  <2>2. CASE job[p].cmd.kind \in {"pair", "revoke"} /\ Stops(p)
    BY <2>1, <2>2, <1>5 DEF Founding
  <2>3. CASE job[p].cmd.kind = "init" /\ Saves(p, "peers", <<>>) /\ UNCHANGED <<files, lock, cut>>
    <3>1. PICK b : b = <<>> OBVIOUS
    <3> QED BY <2>1, <2>3, <3>1, <1>7
  <2>4. CASE /\ job[p].cmd.kind = "init" /\ Goes(p, "cert") /\ UNCHANGED <<files, lock, cut>>
             /\ job[p].file = "identity" => store["peers"] # Missing
    BY <2>1, <2>4, <1>6 DEF Locking
  <2>5. CASE job[p].cmd.kind = "invite" /\ Goes(p, "answer") /\ UNCHANGED <<files, lock, cut>>
    BY <2>1, <2>5, <1>6 DEF Locking
  <2> QED BY <2>2, <2>3, <2>4, <2>5, <1>19 DEF Saved
<1>20. ASSUME NEW p \in Process, WriteCert(p) PROVE DirectoryInv'
  <2>1. job[p].pc = "cert" /\ job[p].pc \in Locking /\ lock = p
    BY <1>1, <1>20 DEF WriteCert, At, Locking
  <2>2. CASE store["cert"] # Missing /\ Stops(p)
    <3>1. Founding(job[p], store) => store["peers"] # Missing
      BY <2>1 DEF Founding, Saving
    <3> QED BY <2>1, <2>2, <3>1, <1>5
  <2>3. CASE /\ store' = [store EXCEPT !["cert"] = store["identity"]]
             /\ Goes(p, "done") /\ UNCHANGED <<lock, cut>>
    <3>1. \A f \in File \ {"cert"} : Same(f) BY <2>3 DEF RegistryInv, Same
    <3>2. /\ Same("identity") /\ Same("peers") /\ Same("qr")
          /\ Same("identity.pending") /\ Same("peers.pending")
      BY <3>1 DEF File
    <3>3. store'["cert"] = store["identity"] BY <2>3 DEF RegistryInv, File
    <3>4. ASSUME NEW k, k.pc = "done", k.cmd = job[p].cmd, k.device = job[p].device,
                 k.file = job[p].file, k.content = job[p].content
          PROVE  Sound(k, store') /\ (cut = 0 => Owned(k, store'))
      <4>1. Sound(k, store') BY <3>4 DEF Sound, Saving
      <4>2. cut = 0 => Owned(job[p], store) BY <2>1, <1>4
      <4>3. store["identity"] # Missing /\ Founding(job[p], store) => Founding(k, store')
        BY <2>1, <3>2, <3>3, <3>4 DEF Founding, Saving, Same
      <4>4. \A f \in {"identity", "peers"} : Same(Pending[f]) BY <3>2 DEF Pending
      <4>5. cut = 0 => Owned(k, store')
        BY <2>1, <3>2, <3>3, <3>4, <4>2, <4>3, <4>4 DEF Owned, Same, Locking
      <4> QED BY <4>1, <4>5
    <3> QED BY <2>1, <2>3, <3>2, <3>4, <1>8 DEF Locking
  <2> QED BY <2>2, <2>3, <1>20 DEF WriteCert
<1>21. ASSUME NEW p \in Process, Done(p) \/ Expire(p) \/ Accepted(p) PROVE DirectoryInv'
  <2>1. Stops(p) BY <1>21 DEF Done, Expire, Accepted
  <2>2. job[p].pc \in {"done", "listening", "asking", "accepted"}
    BY <1>21 DEF Done, Expire, Accepted, At
  <2>3. ASSUME Founding(job[p], store) PROVE store["peers"] # Missing /\ store["cert"] # Missing
    BY <2>2, <2>3 DEF Founding, Saving
  <2> QED BY <2>1, <2>2, <2>3, <1>5
<1>22. ASSUME NEW p \in Process, Enroll(p) PROVE DirectoryInv'
  <2>1. job[p].pc = "approved" /\ job[p].cmd.kind = "invite"
    BY <1>1, <1>22 DEF Enroll, At, Given, Inviting
  <2>2. CASE Stops(p) BY <2>1, <2>2, <1>5 DEF Founding, Saving
  <2>3. CASE /\ lock = Nobody /\ lock' = p /\ Readable("peers")
             /\ Saves(p, "peers", Book!Invited(store["peers"], PeerOf(job[p])))
             /\ UNCHANGED <<files, cut>>
    <3>1. PICK b : b = Book!Invited(store["peers"], PeerOf(job[p])) OBVIOUS
    <3>2. store["peers"] # Missing BY <2>3 DEF Readable
    <3> QED BY <2>1, <2>3, <3>1, <3>2, <1>7
  <2> QED BY <2>2, <2>3, <1>22 DEF Enroll
<1>23. ASSUME NEW p \in Process, Answer(p) PROVE DirectoryInv'
  <2>1. job[p].pc = "answer" BY <1>23 DEF Answer, At
  <2>2. CASE Stops(p) BY <2>1, <2>2, <1>5 DEF Founding, Saving
  <2>3. CASE Goes(p, "accepted") /\ UNCHANGED <<files, lock, cut>>
    BY <2>1, <2>3, <1>6 DEF Locking
  <2> QED BY <2>2, <2>3, <1>23 DEF Answer
<1>24. ASSUME NEW p \in Process, NEW d, Approve(p, d) PROVE DirectoryInv'
  <2>1. job[p].pc = "asking" BY <1>24 DEF Approve, At
  <2>2. CASE Stops(p) BY <2>1, <2>2, <1>5 DEF Founding, Saving
  <2>3. CASE Goes(p, "approved") /\ UNCHANGED <<files, lock, cut>>
    BY <2>1, <2>3, <1>6 DEF Inviting
  <2> QED BY <2>2, <2>3, <1>24 DEF Approve
\* A phone joins badly or well, or time is over, while the invitation listens or asks.
<1>25. ASSUME NEW p \in Process, BadJoin(p) \/ DeadlinePasses(p) \/ \E d \in Device : Join(p, d)
       PROVE  DirectoryInv'
  <2>1. job[p].pc \in Inviting /\ job[p].pc # "rest"
    BY <1>25 DEF BadJoin, DeadlinePasses, Join, More, At, Inviting
  <2>2. PICK k : job' = [job EXCEPT ![p] = k] /\ k.pc \in Inviting /\ k.cmd = job[p].cmd
    <3> DEFINE j == job[p]
    <3>1. j = [pc |-> j.pc, cmd |-> j.cmd, device |-> j.device, file |-> j.file,
               content |-> j.content, tries |-> j.tries, late |-> j.late]
      BY <1>1, <2>1 DEF JobForm, Resting
    <3>2. PICK zero, yes, next : zero = 0 /\ yes = TRUE /\ next = j.tries + 1 OBVIOUS
    <3>3. CASE BadJoin(p)
      <4>1. job' = [job EXCEPT ![p] = [j EXCEPT !.tries = next]] BY <3>2, <3>3 DEF BadJoin
      <4> HIDE DEF j
      <4>2. [j EXCEPT !.tries = next].pc = j.pc /\ [j EXCEPT !.tries = next].cmd = j.cmd
        BY <3>1
      <4> QED BY <4>1, <4>2, <2>1 DEF j
    <3>4. CASE DeadlinePasses(p)
      <4>1. job' = [job EXCEPT ![p] = [j EXCEPT !.late = yes]]
        BY <3>2, <3>4, Zenon DEF DeadlinePasses
      <4> HIDE DEF j
      <4>2. \A y : [j EXCEPT !.late = y].pc = j.pc /\ [j EXCEPT !.late = y].cmd = j.cmd
        BY <3>1
      <4>3. PICK k : k = [j EXCEPT !.late = yes] OBVIOUS
      <4>4. k.pc = j.pc /\ k.cmd = j.cmd BY <4>2, <4>3, Zenon
      <4> QED BY <4>1, <4>3, <4>4, <2>1 DEF j
    <3>5. ASSUME NEW d \in Device, Join(p, d)
          PROVE  \E k : job' = [job EXCEPT ![p] = k] /\ k.pc \in Inviting /\ k.cmd = job[p].cmd
      <4>1. job' = [job EXCEPT ![p] = [j EXCEPT !.tries = zero, !.device = d, !.pc = "asking"]]
        BY <3>2, <3>5 DEF Join
      <4> HIDE DEF j
      <4>2. PICK k : k = [j EXCEPT !.tries = zero, !.device = d, !.pc = "asking"] OBVIOUS
      <4>3. k.pc = "asking" /\ k.cmd = j.cmd BY <3>1, <4>2
      <4> QED BY <4>1, <4>2, <4>3 DEF j, Inviting
    <3> QED BY <3>3, <3>4, <3>5, <1>25
  <2>3. UNCHANGED <<store, lock, cut>> BY <1>25 DEF BadJoin, DeadlinePasses, Join, files
  <2>4. Sound(k, store) BY <2>2 DEF Sound, Saving, Inviting
  <2>5. ASSUME cut = 0, lock = p PROVE FALSE
    <3>1. Owned(job[p], store) BY <2>5, <1>4
    <3> QED BY <3>1, <2>1 DEF Owned, Locking, Inviting
  <2>6. k.pc # "rest" BY <2>2 DEF Inviting
  <2>7. \A f \in File : Same(f) BY <2>3 DEF Same
  <2> QED BY <2>1, <2>2, <2>3, <2>4, <2>5, <2>6, <2>7, GoesTidily DEF File, Same
<1>26. ASSUME NEW p \in Process, Fails(p) PROVE DirectoryInv'
  <2>1. /\ job' = [job EXCEPT ![p] = Resting] /\ lock' = IF lock = p THEN Nobody ELSE lock
        /\ store' = IF job[p].cmd.kind = "invite" THEN [store EXCEPT !["qr"] = Missing] ELSE store
        /\ cut' = cut + 1
    BY <1>26 DEF Fails, Returns
  <2>2. \A f \in File \ {"qr"} : Same(f) BY <2>1 DEF RegistryInv, Same
  <2> QED BY <2>1, <2>2, StopsTidily
<1>27. ASSUME NEW p \in Process, Dies(p) PROVE DirectoryInv'
  BY <1>27, StopsTidily DEF Dies, files, Same
<1>28. CASE Settle \/ UNCHANGED vars
  <2>1. UNCHANGED <<store, lock, job, cut>> BY <1>28 DEF Settle, vars, files
  <2> QED BY <2>1 DEF DirectoryInv, Tidy, Sound, Enrolled, Owned, Clear, Founding
<1>29. CASE PowerLoss
  <2>1. cut' = cut + 1 /\ job' = [p \in Process |-> Resting] BY <1>29 DEF PowerLoss
  <2>2. \A p \in Process : Sound(job'[p], store') BY <2>1 DEF Sound, Saving, Resting
  <2> QED BY <2>1, <2>2 DEF DirectoryInv
<1> QED
  BY <1>9, <1>10, <1>11, <1>12, <1>15, <1>16, <1>17, <1>18, <1>19, <1>20, <1>21, <1>22,
     <1>23, <1>24, <1>25, <1>26, <1>27, <1>28, <1>29
    DEF Next, Step

LEMMA DirectoryInit == Init => DirectoryInv /\ BookInv
<1> SUFFICES ASSUME Init PROVE DirectoryInv /\ BookInv OBVIOUS
<1>1. BookInv BY DEF Init, BookInv, Fits, File
<1>2. \A p \in Process : Sound(job[p], store) BY DEF Init, Sound, Saving, Resting
<1>3. /\ lock = Nobody /\ cut = 0 /\ store["qr"] = Missing /\ Clear(store)
  BY DEF Init, File, Clear, Pending
<1> QED BY <1>1, <1>2, <1>3 DEF DirectoryInv, Tidy

LEMMA DirectoryInvariant == Spec => [](RegistryInv /\ BookInv /\ DirectoryInv)
<1>1. RegistryInv /\ BookInv /\ DirectoryInv /\ [Next]_vars =>
        RegistryInv' /\ BookInv' /\ DirectoryInv'
  BY RegistryStep, BookStepFits, DirectoryStep
<1> QED BY <1>1, RegistryInit, DirectoryInit, PTL DEF Spec

\* Only a command that died or failed leaves the directory so that later ones are
\* refused (save in node/src/main.rs, the guards of pairing.rs).
THEOREM CommandsCleanUp == Spec => []NothingLeftBehind
<1>1. ASSUME DirectoryInv PROVE NothingLeftBehind
  <2> SUFFICES ASSUME cut = 0, \A p \in Process : At(p, "rest")
               PROVE  NothingLeftBehind!2
    BY DEF NothingLeftBehind
  <2>1. Tidy BY <1>1 DEF DirectoryInv
  <2>2. lock = Nobody BY <2>1 DEF Tidy, Owned, Locking, At
  <2>3. Clear(store) BY <2>1, <2>2 DEF Tidy
  <2>4. store["qr"] = Missing BY <2>1 DEF Tidy, At
  <2>5. store["identity.pending"] = Missing /\ store["peers.pending"] = Missing
    BY <2>3 DEF Clear, Pending
  <2> QED BY <2>2, <2>3, <2>4, <2>5 DEF Clear, File
<1> QED BY <1>1, DirectoryInvariant, PTL

\* The phone is told that it was accepted only once it is in the registry (pairing.rs).
THEOREM AcceptedIsInBook == Spec => []AcceptedIsEnrolled
<1>1. ASSUME DirectoryInv PROVE AcceptedIsEnrolled
  BY <1>1 DEF DirectoryInv, AcceptedIsEnrolled, Sound, Enrolled, At
<1> QED BY <1>1, DirectoryInvariant, PTL

\* No second Init replaces the identity, whatever dies meanwhile: only a loss of power
\* changes it, to what was on the disk (Init and save in node/src/main.rs).
THEOREM IdentityIsPinned == Spec => IdentityStays
<1> DEFINE Stays == store["identity"] # Missing =>
                      store'["identity"] \in {store["identity"], disk["identity"]}
<1>1. ASSUME RegistryInv, DirectoryInv, [Next]_vars PROVE Stays
  <2> USE <1>1
  <2>1. \A p \in Process : Returns(p) => Same("identity")
    BY DEF Returns, files, RegistryInv, File, Same
  <2>2. \A p \in Process : Stops(p) => Same("identity") BY <2>1 DEF Stops
  <2>3. UNCHANGED files => Same("identity") BY DEF files, Same
  <2>4. ASSUME NEW p \in Process, job[p].pc \in Saving
        PROVE  /\ job[p].file \in {"identity", "peers"}
               /\ Beside(p) \in {"identity.pending", "peers.pending"}
    <3>1. job[p].pc # "rest" BY <2>4 DEF Saving
    <3>2. job[p].file \in {"identity", "peers"} BY <3>1 DEF RegistryInv, Lawful, Given
    <3> QED BY <3>2 DEF Beside, Pending
  <2>5. ASSUME NEW p \in Process, Create(p) \/ Write(p) PROVE Same("identity")
    <3>1. job[p].pc \in Saving BY <2>5 DEF Create, Write, At, Saving
    <3>2. Stops(p) \/ \E x : store' = [store EXCEPT ![Beside(p)] = x]
      BY <2>5 DEF Create, Write
    <3>3. (\E x : store' = [store EXCEPT ![Beside(p)] = x]) => Same("identity")
      BY <3>1, <2>4 DEF RegistryInv, File, Same
    <3> QED BY <3>2, <3>3, <2>2
  <2>6. ASSUME NEW p \in Process, Rename(p) PROVE Stays
    <3>1. /\ job[p].pc = "rename"
          /\ store' = [store EXCEPT ![job[p].file] = store[Beside(p)], ![Beside(p)] = Missing]
      BY <2>6 DEF Rename, At
    <3>2. job[p].file = "identity" => store["identity"] = Missing
      BY <3>1 DEF DirectoryInv, Sound, Saving
    <3>3. job[p].file = "peers" => Same("identity")
      BY <3>1, <2>4 DEF RegistryInv, File, Same, Saving
    <3>4. job[p].file \in {"identity", "peers"} BY <3>1, <2>4 DEF Saving
    <3> QED BY <3>2, <3>3, <3>4 DEF Same
  <2>7. ASSUME NEW p \in Process, WriteCert(p) \/ \E c \in Command : Start(p, c) \/ Invite(p, c)
        PROVE  Same("identity")
    <3>1. \/ Stops(p) \/ UNCHANGED files
          \/ store' = [store EXCEPT !["cert"] = store["identity"]]
          \/ store' = [store EXCEPT !["qr"] = Torn]
      BY <2>7 DEF WriteCert, Start, Invite
    <3>2. \A x : /\ store' = [store EXCEPT !["cert"] = x] => Same("identity")
                 /\ store' = [store EXCEPT !["qr"] = x] => Same("identity")
      BY DEF RegistryInv, File, Same
    <3> QED BY <3>1, <3>2, <2>2, <2>3
  <2>8. ASSUME NEW p \in Process,
               \/ MakeIdentity(p) \/ Pair(p) \/ Revoke(p) \/ Saved(p) \/ Done(p)
               \/ Expire(p) \/ Enroll(p) \/ Answer(p) \/ Accepted(p) \/ Fails(p) \/ Dies(p)
               \/ BadJoin(p) \/ DeadlinePasses(p) \/ (\E d \in Device : Join(p, d))
               \/ \E d \in Device \cup {Nobody} : Approve(p, d)
        PROVE  Same("identity")
    <3>1. Stops(p) \/ Returns(p) \/ UNCHANGED files
      BY <2>8 DEF MakeIdentity, Pair, Revoke, Saved, Done, Expire, Enroll, Answer, Accepted,
                  Fails, Dies, BadJoin, DeadlinePasses, Join, Approve
    <3> QED BY <3>1, <2>1, <2>2, <2>3
  <2>9. ASSUME NEW p \in Process, Sync(p) PROVE Same("identity") BY <2>9 DEF Sync, Same
  <2>10. Settle \/ UNCHANGED vars => Same("identity") BY DEF Settle, vars, files, Same
  <2>11. PowerLoss => Stays BY DEF PowerLoss
  <2>12. Same("identity") => Stays BY DEF Same
  <2> QED
    BY <2>5, <2>6, <2>7, <2>8, <2>9, <2>10, <2>11, <2>12 DEF Next, Step
<1> QED BY <1>1, DirectoryInvariant, PTL DEF Spec, IdentityStays
===============================================================================
