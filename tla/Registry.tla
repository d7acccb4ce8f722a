------------------------------- MODULE Registry -------------------------------
(***************************************************************************)
(* The commands that change a node's state directory: node/src/main.rs     *)
(* (Init, Pair, Revoke, save, registry_lock) and node/src/pairing.rs       *)
(* (Invite).  Each is a process of its own.  They exclude each other by a  *)
(* file lock that is not waited for, and replace a file by writing another *)
(* one beside it and renaming it.                                          *)
(*                                                                         *)
(* Faults: a process dies anywhere, a file operation fails, the machine    *)
(* loses power.  The system settles directory changes in order, when it    *)
(* likes.  A name, a certificate or a setting the first checks refuse      *)
(* changes nothing and is left out, and so is a lock that is taken.        *)
(***************************************************************************)
EXTENDS Naturals, Sequences, FiniteSets

CONSTANTS
  Process,      \* processes
  Name, Device, Grants, MaxPeers, Missing,   \* as in PeerBook
  Identity,     \* identities that may be generated, two are enough
  MaxAttempts,  \* connections an invitation takes (16)
  MaxCuts,      \* bound on the number of faults
  Torn,         \* a file of which a part is written
  Nobody        \* the lock is free, or nobody has joined

ASSUME RegistryAssumption ==
  /\ MaxAttempts \in Nat \ {0} /\ MaxCuts \in Nat /\ MaxPeers \in Nat
  /\ Nobody \notin Process \cup Device
  /\ Torn # Missing

VARIABLES
  store,        \* the files, as processes see them
  unsynced,     \* those whose content has not reached the disk
  disk,         \* the files, as a power failure leaves them
  lock,         \* who holds registry.lock
  job,          \* what each process is doing
  cut           \* history: how often a command died or an operation of it failed

files == <<store, unsynced, disk>>
vars == <<files, lock, job, cut>>

Book == INSTANCE PeerBook WITH book <- store["peers"], kept <- disk["peers"]

\* That a file is missing is told from every registry there can be.
ASSUME MissingAssumption == Missing \notin Seq(Book!Peer)

\* Saved files have a pending one beside them; the last two are made and not replaced.
Pending == [identity |-> "identity.pending", peers |-> "peers.pending"]
File == {"identity", "peers", "identity.pending", "peers.pending", "cert", "qr"}

Command ==
  [kind : {"init"}]
    \cup [kind : {"pair"}, name : Name, grants : Grants, device : Device]
    \cup [kind : {"revoke"}, name : Name]
    \cup [kind : {"invite"}, name : Name, grants : Grants]
Resting == [pc |-> "rest"]
PeerOf(j) == [name |-> j.cmd.name, cert |-> j.device, grants |-> j.cmd.grants]

Init ==
  /\ store = [f \in File |-> Missing]
  /\ unsynced = {}
  /\ disk = store
  /\ lock = Nobody
  /\ job = [p \in Process |-> Resting]
  /\ cut = 0

At(p, pc) == job[p].pc = pc
Goes(p, pc) == job' = [job EXCEPT ![p].pc = pc]
Inviting == {"listening", "asking", "approved"}

\* A mutant of Returns: an invitation leaves its QR code behind.
ReturnsOnly(p) ==
  /\ job' = [job EXCEPT ![p] = Resting]
  /\ lock' = IF lock = p THEN Nobody ELSE lock
  /\ UNCHANGED files

\* Every return of a command: the lock is given back, an invitation takes its files along.
Returns(p) ==
  /\ job' = [job EXCEPT ![p] = Resting]
  /\ lock' = IF lock = p THEN Nobody ELSE lock
  /\ store' = IF job[p].cmd.kind = "invite" THEN [store EXCEPT !["qr"] = Missing] ELSE store
  /\ UNCHANGED <<unsynced, disk>>

Stops(p) == Returns(p) /\ UNCHANGED cut

\* load(): the file is there, whole and private.
Readable(f) == store[f] \notin {Missing, Torn}

\* check_join(): the code that is compared is made of the invitation and of the
\* certificate, so no two devices show the same.
CodeOf(d) == d

\* save(): what is to be written where.
Saves(p, f, content) ==
  job' = [job EXCEPT ![p].pc = "create", ![p].file = f, ![p].content = content]

-------------------------------------------------------------------------------
(* main, and the changes that are made under the lock.                     *)

Begins(p, c, pc) ==
  job' = [job EXCEPT ![p] =
            [pc |-> pc, cmd |-> c, device |-> IF c.kind = "pair" THEN c.device ELSE Nobody,
             file |-> "peers", content |-> Missing, tries |-> 0, late |-> FALSE]]

Start(p, c) ==
  /\ At(p, "rest")
  /\ c.kind # "invite"
  /\ lock = Nobody
  /\ lock' = p
  /\ Begins(p, c, "begun")
  /\ UNCHANGED <<files, cut>>

\* A key pair nobody has.
Generated ==
  CHOOSE i \in Identity : \A f \in File : i \notin {store[f], disk[f]}

\* Init leaves an identity that exists alone, and what should be beside it too.
MakeIdentity(p) ==
  /\ At(p, "begun") /\ job[p].cmd.kind = "init"
  /\ IF store["identity"] # Missing
       THEN Stops(p)
       ELSE Saves(p, "identity", Generated) /\ UNCHANGED <<files, lock, cut>>

Pair(p) ==
  /\ At(p, "begun") /\ job[p].cmd.kind = "pair"
  /\ LET peers == store["peers"]
     IN  IF /\ Readable("peers") /\ Readable("identity")
            /\ Book!CanPair(peers, PeerOf(job[p]))
           THEN /\ Saves(p, "peers", Book!Paired(peers, PeerOf(job[p])))
                /\ UNCHANGED <<files, lock, cut>>
           ELSE Stops(p)

Revoke(p) ==
  /\ At(p, "begun") /\ job[p].cmd.kind = "revoke"
  /\ IF ~Readable("peers")
       THEN Stops(p)
       ELSE /\ Saves(p, "peers", Book!Without(store["peers"], job[p].cmd.name))
            /\ UNCHANGED <<files, lock, cut>>

-------------------------------------------------------------------------------
(* save().                                                                 *)

Beside(p) == Pending[job[p].file]

\* The pending file is made new: one that was left behind refuses every save.
Create(p) ==
  /\ At(p, "create")
  /\ IF store[Beside(p)] # Missing
       THEN Stops(p)
       ELSE /\ store' = [store EXCEPT ![Beside(p)] = Torn]
            /\ unsynced' = unsynced \cup {Beside(p)}
            /\ Goes(p, "write")
            /\ UNCHANGED <<disk, lock, cut>>

Write(p) ==
  /\ At(p, "write")
  /\ store' = [store EXCEPT ![Beside(p)] = job[p].content]
  /\ Goes(p, "sync")
  /\ UNCHANGED <<unsynced, disk, lock, cut>>

\* A mutant of Sync: the file is renamed without reaching the disk.
SyncNever(p) ==
  /\ At(p, "sync")
  /\ Goes(p, "rename")
  /\ UNCHANGED <<files, lock, cut>>

Sync(p) ==
  /\ At(p, "sync")
  /\ unsynced' = unsynced \ {Beside(p)}
  /\ Goes(p, "rename")
  /\ UNCHANGED <<store, disk, lock, cut>>

Rename(p) ==
  /\ At(p, "rename")
  /\ LET to == job[p].file
     IN  /\ store' = [store EXCEPT ![to] = store[Beside(p)], ![Beside(p)] = Missing]
         /\ unsynced' = (unsynced \ {Beside(p)})
                        \cup (IF Beside(p) \in unsynced THEN {to} ELSE {})
  /\ Goes(p, "saved")
  /\ UNCHANGED <<disk, lock, cut>>

\* Init goes on to the registry, then to the certificate; an invitation answers.
Saved(p) ==
  /\ At(p, "saved")
  /\ \/ /\ job[p].cmd.kind = "init"
        /\ IF job[p].file = "identity" /\ store["peers"] = Missing
             THEN Saves(p, "peers", <<>>)
             ELSE Goes(p, "cert")
        /\ UNCHANGED <<files, lock, cut>>
     \/ job[p].cmd.kind = "invite" /\ Goes(p, "answer") /\ UNCHANGED <<files, lock, cut>>
     \/ job[p].cmd.kind \in {"pair", "revoke"} /\ Stops(p)

WriteCert(p) ==
  /\ At(p, "cert")
  /\ IF store["cert"] = Missing
       THEN /\ store' = [store EXCEPT !["cert"] = store["identity"]]
            /\ unsynced' = unsynced \cup {"cert"}
            /\ Goes(p, "done")
            /\ UNCHANGED <<disk, lock, cut>>
       ELSE Stops(p)

Done(p) == At(p, "done") /\ Stops(p)

-------------------------------------------------------------------------------
(* An invitation.                                                          *)

\* It listens for phones, and shows its QR code in a file.
Invite(p, c) ==
  /\ At(p, "rest")
  /\ c.kind = "invite"
  /\ Readable("identity")
  /\ store["qr"] = Missing
  /\ store' = [store EXCEPT !["qr"] = Torn]
  /\ unsynced' = unsynced \cup {"qr"}
  /\ Begins(p, c, "listening")
  /\ UNCHANGED <<disk, lock, cut>>

More(p) == At(p, "listening") /\ ~job[p].late /\ job[p].tries < MaxAttempts

\* A frame that is too long or late, another token, a signature that does not verify.
BadJoin(p) ==
  /\ More(p)
  /\ job' = [job EXCEPT ![p].tries = @ + 1]
  /\ UNCHANGED <<files, lock, cut>>

\* Any device that has seen the code can join.
Join(p, d) ==
  /\ More(p)
  /\ job' = [job EXCEPT ![p].tries = 0, ![p].device = d, ![p].pc = "asking"]
  /\ UNCHANGED <<files, lock, cut>>

\* The person types the code their phone shows: right only if it is the one that joined.
Approve(p, d) ==
  /\ At(p, "asking") /\ ~job[p].late
  /\ IF d # Nobody /\ CodeOf(d) = CodeOf(job[p].device)
       THEN Goes(p, "approved") /\ UNCHANGED <<files, lock, cut>>
       ELSE Stops(p)

DeadlinePasses(p) ==
  /\ job[p].pc \in {"listening", "asking"} /\ ~job[p].late
  /\ job' = [job EXCEPT ![p].late = TRUE]
  /\ UNCHANGED <<files, lock, cut>>

\* A mutant of Expire: the answer of the person is waited for without a deadline.
ExpireListening(p) ==
  /\ At(p, "listening") /\ ~More(p)
  /\ Stops(p)

Expire(p) ==
  /\ \/ At(p, "listening") /\ ~More(p)
     \/ At(p, "asking") /\ job[p].late
  /\ Stops(p)

\* A mutant of Enroll: it does not take the lock.
EnrollUnlocked(p) ==
  /\ At(p, "approved")
  /\ LET peers == store["peers"]
     IN  IF ~Readable("peers") \/ ~Book!CanInvite(peers, PeerOf(job[p]))
           THEN Stops(p)
           ELSE /\ Saves(p, "peers", Book!Invited(peers, PeerOf(job[p])))
                /\ UNCHANGED <<files, lock, cut>>

\* Only now is the lock taken; if it cannot be, the invitation is over.
Enroll(p) ==
  /\ At(p, "approved")
  /\ LET peers == store["peers"]
     IN  IF \/ lock # Nobody
            \/ ~Readable("peers") \/ ~Book!CanInvite(peers, PeerOf(job[p]))
           THEN Stops(p)
           ELSE /\ lock' = p
                /\ Saves(p, "peers", Book!Invited(peers, PeerOf(job[p])))
                /\ UNCHANGED <<files, cut>>

\* The phone is told that it was accepted, if it is still there.
Answer(p) ==
  /\ At(p, "answer")
  /\ \/ Goes(p, "accepted") /\ UNCHANGED <<files, lock, cut>>
     \/ Stops(p)

Accepted(p) == At(p, "accepted") /\ Stops(p)

-------------------------------------------------------------------------------
(* Faults.                                                                 *)

\* A file operation fails in the middle of a save: nothing is cleaned up.
Fails(p) ==
  /\ cut < MaxCuts
  /\ job[p].pc \in {"create", "write", "sync", "rename", "cert"}
  /\ Returns(p)
  /\ cut' = cut + 1

\* The process dies: its lock goes with it, its files stay.
Dies(p) ==
  /\ cut < MaxCuts
  /\ ~At(p, "rest")
  /\ job' = [job EXCEPT ![p] = Resting]
  /\ lock' = IF lock = p THEN Nobody ELSE lock
  /\ cut' = cut + 1
  /\ UNCHANGED files

Settle ==
  /\ cut < MaxCuts
  /\ disk' = [f \in File |-> IF f \in unsynced THEN Torn ELSE store[f]]
  /\ UNCHANGED <<store, unsynced, lock, job, cut>>

PowerLoss ==
  /\ cut < MaxCuts
  /\ store' = disk
  /\ unsynced' = {}
  /\ lock' = Nobody
  /\ job' = [p \in Process |-> Resting]
  /\ cut' = cut + 1
  /\ UNCHANGED disk

Step(p) ==
  \/ MakeIdentity(p) \/ Pair(p) \/ Revoke(p)
  \/ Create(p) \/ Write(p) \/ Sync(p) \/ Rename(p) \/ Saved(p) \/ WriteCert(p) \/ Done(p)
  \/ Expire(p) \/ Enroll(p) \/ Answer(p) \/ Accepted(p)

Next ==
  \/ \E p \in Process :
       \/ \E c \in Command : Start(p, c) \/ Invite(p, c)
       \/ Step(p) \/ BadJoin(p) \/ DeadlinePasses(p)
       \/ \E d \in Device : Join(p, d)
       \/ \E d \in Device \cup {Nobody} : Approve(p, d)
       \/ Fails(p) \/ Dies(p)
  \/ Settle \/ PowerLoss

Spec == Init /\ [][Next]_vars

\* A command that runs goes on, and time passes.  Nothing is assumed of phones,
\* of the person at the keyboard or of faults.
FairSpec ==
  /\ Spec
  /\ \A p \in Process : WF_vars(Step(p)) /\ WF_vars(DeadlinePasses(p))

-------------------------------------------------------------------------------
TypeOK ==
  /\ unsynced \subseteq File
  /\ lock \in Process \cup {Nobody}
  /\ \A p \in Process : ~At(p, "rest") => job[p].tries \in 0..MaxAttempts

\* Enrolments and revocations take effect one after another, whole and on top of
\* each other, although a person is waited for in the middle of one and processes
\* and power fail: no revocation is undone by a slow invitation.
ImplementsPeerBook == Book!Spec

\* The phone is told that it was accepted only once it is in the registry, with
\* the name and grants of the invitation (pairing.rs:244).
AcceptedIsEnrolled ==
  \A p \in Process : At(p, "accepted") =>
    \E i \in DOMAIN store["peers"] : store["peers"][i] = PeerOf(job[p])

\* Phones pin the identity they were shown: no second Init replaces it.
IdentityStays ==
  [][store["identity"] # Missing => store'["identity"] \in {store["identity"], disk["identity"]}]_vars

\* Only a command that died or failed leaves the directory so that later ones are
\* refused: a pending file or a code without its command, a lock nobody holds, or
\* an identity without a registry.
NothingLeftBehind ==
  cut = 0 /\ (\A p \in Process : At(p, "rest")) =>
    /\ lock = Nobody
    /\ {"identity.pending", "peers.pending", "qr"} \subseteq { f \in File : store[f] = Missing }
    /\ store["identity"] # Missing => store["peers"] # Missing /\ store["cert"] # Missing

\* An invitation comes to an end by itself, whoever does or does not answer it.
InvitationCloses ==
  \A p \in Process : job[p].pc \in Inviting ~> At(p, "rest")
===============================================================================
