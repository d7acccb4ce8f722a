--------------------------------- MODULE Vault ---------------------------------
(***************************************************************************)
(* The desktop's vault: desktop/src/vault.rs and vault_api in main.rs.     *)
(* One hub at a time has it, by a file lock held for the hub's life.  A    *)
(* change is made in memory together with its audit record, the whole is   *)
(* written beside the old file, renamed, and the directory synced; if any  *)
(* of this fails, memory goes back.  Secrets are given to a process only   *)
(* after the record of it is stored.                                       *)
(*                                                                         *)
(* The temporary file has a name of its own and is synced before it is     *)
(* renamed, so the file is always whole; what a power failure decides is   *)
(* which of the whole files is there.  Sealing is left out: a file another *)
(* key sealed is not opened, and changes nothing.                          *)
(***************************************************************************)
EXTENDS Naturals, Sequences, FiniteSets

CONSTANTS
  Hub,           \* processes of the desktop's backend
  Secret, Value, \* names of secrets, and what they can be
  NoValue,       \* there is no secret of that name
  MaxSecrets,    \* secrets the vault holds (128)
  MaxAudit,      \* records its audit holds (10000)
  MaxVaultCuts,  \* bound on the number of crashes and failures
  Unlocked       \* nobody has the vault

ASSUME VaultAssumption ==
  /\ MaxSecrets \in Nat \ {0} /\ MaxAudit \in Nat \ {0} /\ MaxVaultCuts \in Nat
  /\ NoValue \notin Value /\ Unlocked \notin Hub

VARIABLES
  vaultFile,     \* vault.bin, as processes see it
  settled,       \* vault.bin, as a power failure leaves it
  vaultLock,     \* the hub that has vault.lock
  vault,         \* what each hub is doing with it, and its contents in memory
  vaultCuts,     \* history: crashes and failures so far
  launches,      \* history: processes that were given secrets
  acked,         \* history: the secrets, by what was acknowledged
  allowed        \* history: what the file may hold: that, or a change not acknowledged

vaultHistory == <<launches, acked, allowed>>
vaultFiles == <<vaultFile, settled>>
vaultVars == <<vaultFiles, vaultLock, vault, vaultCuts, vaultHistory>>

NoSecrets == [s \in Secret |-> NoValue]
Empty == [secrets |-> NoSecrets, audit |-> <<>>]
Stored(secrets) == { s \in Secret : secrets[s] # NoValue }

Op ==
  [do : {"put"}, secret : Secret, value : Value]
    \cup [do : {"delete"}, secret : Secret] \cup [do : {"release"}, secret : Secret]
Opening == [do |-> "open"]
Started == [do |-> "started"]

\* What a change makes of the secrets.
After(secrets, op) ==
  IF op.do = "put" THEN [secrets EXCEPT ![op.secret] = op.value]
  ELSE IF op.do = "delete" THEN [secrets EXCEPT ![op.secret] = NoValue]
  ELSE secrets

Closed == [pc |-> "closed"]
Refused == [pc |-> "none"]
Ready(contents) == [pc |-> "ready", contents |-> contents]

VaultInit ==
  /\ vaultFile = Empty /\ settled = Empty
  /\ vaultLock = Unlocked
  /\ vault = [h \in Hub |-> Closed]
  /\ vaultCuts = 0
  /\ launches = 0 /\ acked = NoSecrets /\ allowed = {NoSecrets}

VaultAt(h, pc) == vault[h].pc = pc

\* event() and update(): the record and the change are made in memory, then saved.
Update(h, contents, op) ==
  /\ vault' = [vault EXCEPT ![h] =
       [pc |-> "writing", previous |-> contents, op |-> op,
        contents |-> [secrets |-> After(contents.secrets, op),
                      audit |-> Append(contents.audit, op.do)]]]
  /\ allowed' = allowed \cup {After(acked, op)}

Full(contents) == Len(contents.audit) >= MaxAudit

\* A hub tries once when it starts.  Opening is recorded like everything else.
OpenVault(h) ==
  /\ VaultAt(h, "closed")
  /\ IF vaultLock # Unlocked \/ Full(vaultFile)
       THEN /\ vault' = [vault EXCEPT ![h] = Refused]
            /\ UNCHANGED <<vaultLock, allowed>>
       ELSE /\ vaultLock' = h
            /\ Update(h, vaultFile, Opening)
  /\ UNCHANGED <<vaultFiles, vaultCuts, launches, acked>>

\* put, delete and release check what they are asked, then change.
Change(h, op) ==
  /\ VaultAt(h, "ready")
  /\ LET contents == vault[h].contents
         known == Stored(contents.secrets)
     IN  /\ op.do = "put" => op.secret \in known \/ Cardinality(known) < MaxSecrets
         /\ op.do = "release" => op.secret \in known
         /\ ~Full(contents)
         /\ Update(h, contents, op)
  /\ UNCHANGED <<vaultFiles, vaultLock, vaultCuts, launches, acked>>

-------------------------------------------------------------------------------
(* save().                                                                 *)

Moves(h, pc) == vault' = [vault EXCEPT ![h].pc = pc]

WriteTemporary(h) ==
  /\ VaultAt(h, "writing")
  /\ Moves(h, "renaming")
  /\ UNCHANGED <<vaultFiles, vaultLock, vaultCuts, vaultHistory>>

RenameVault(h) ==
  /\ VaultAt(h, "renaming")
  /\ vaultFile' = vault[h].contents
  /\ Moves(h, "syncing")
  /\ UNCHANGED <<settled, vaultLock, vaultCuts, vaultHistory>>

\* A mutant of SyncDirectory: the rename is left to the system.
SyncNothing(h) ==
  /\ VaultAt(h, "syncing")
  /\ Moves(h, "saved")
  /\ UNCHANGED <<vaultFiles, vaultLock, vaultCuts, vaultHistory>>

SyncDirectory(h) ==
  /\ VaultAt(h, "syncing")
  /\ settled' = vaultFile
  /\ Moves(h, "saved")
  /\ UNCHANGED <<vaultFile, vaultLock, vaultCuts, vaultHistory>>

\* A mutant of SaveFails: memory keeps the change that could not be saved.
SaveFailsAhead(h) ==
  /\ vaultCuts < MaxVaultCuts
  /\ vault[h].pc \in {"writing", "renaming", "syncing"}
  /\ vault' = [vault EXCEPT ![h] = Ready(@.contents)]
  /\ vaultCuts' = vaultCuts + 1
  /\ UNCHANGED <<vaultFiles, vaultLock, vaultHistory>>

\* An operation of save() fails.  The caller is told so, and memory goes back, even
\* if the new file is in its place already.  A vault that is being opened is closed.
SaveFails(h) ==
  /\ vaultCuts < MaxVaultCuts
  /\ vault[h].pc \in {"writing", "renaming", "syncing"}
  /\ IF vault[h].op.do = "open"
       THEN vault' = [vault EXCEPT ![h] = Refused] /\ vaultLock' = Unlocked
       ELSE vault' = [vault EXCEPT ![h] = Ready(@.previous)] /\ UNCHANGED vaultLock
  /\ vaultCuts' = vaultCuts + 1
  /\ UNCHANGED <<vaultFiles, vaultHistory>>

\* The change is acknowledged.  Secrets that were released go to a process now.
Acknowledge(h) ==
  /\ VaultAt(h, "saved")
  /\ LET op == vault[h].op
         now == IF op.do = "open" THEN vault[h].contents.secrets ELSE After(acked, op)
     IN  /\ acked' = now
         /\ allowed' = {now}
         /\ vault' = [vault EXCEPT ![h] =
              IF op.do = "release" THEN [pc |-> "launching", contents |-> @.contents]
                                   ELSE Ready(@.contents)]
  /\ UNCHANGED <<vaultFiles, vaultLock, vaultCuts, launches>>

-------------------------------------------------------------------------------
(* Run.                                                                    *)

\* The session binary gets the secrets in its environment.  It fails, or it starts a
\* session; that is recorded too, if there is room for it.
Launch(h) ==
  /\ VaultAt(h, "launching")
  /\ launches' = launches + 1
  /\ LET contents == vault[h].contents
     IN  \/ vault' = [vault EXCEPT ![h] = Ready(contents)] /\ UNCHANGED allowed
         \/ ~Full(contents) /\ Update(h, contents, Started)
  /\ UNCHANGED <<vaultFiles, vaultLock, vaultCuts, acked>>

\* The session binary cannot be started.
LaunchFails(h) ==
  /\ VaultAt(h, "launching")
  /\ vault' = [vault EXCEPT ![h] = Ready(@.contents)]
  /\ UNCHANGED <<vaultFiles, vaultLock, vaultCuts, vaultHistory>>

-------------------------------------------------------------------------------
(* Crashes, and the owner who starts the desktop again.                    *)

VaultDies(h) ==
  /\ vaultCuts < MaxVaultCuts
  /\ ~VaultAt(h, "closed")
  /\ vault' = [vault EXCEPT ![h] = Closed]
  /\ vaultLock' = IF vaultLock = h THEN Unlocked ELSE vaultLock
  /\ vaultCuts' = vaultCuts + 1
  /\ UNCHANGED <<vaultFiles, vaultHistory>>

\* The system writes the directory when it likes.
VaultSettles ==
  /\ settled # vaultFile
  /\ settled' = vaultFile
  /\ UNCHANGED <<vaultFile, vaultLock, vault, vaultCuts, vaultHistory>>

VaultPowerLoss ==
  /\ vaultCuts < MaxVaultCuts
  /\ vaultFile' = settled
  /\ vault' = [h \in Hub |-> Closed]
  /\ vaultLock' = Unlocked
  /\ vaultCuts' = vaultCuts + 1
  /\ UNCHANGED <<settled, vaultHistory>>

VaultNext ==
  \/ \E h \in Hub :
       \/ OpenVault(h) \/ (\E op \in Op : Change(h, op))
       \/ WriteTemporary(h) \/ RenameVault(h) \/ SyncDirectory(h) \/ SaveFails(h)
       \/ Acknowledge(h) \/ Launch(h) \/ LaunchFails(h) \/ VaultDies(h)
  \/ VaultSettles \/ VaultPowerLoss

VaultSpec == VaultInit /\ [][VaultNext]_vaultVars

-------------------------------------------------------------------------------
Records(contents, what) == Cardinality({ i \in DOMAIN contents.audit : contents.audit[i] = what })

\* No process was given secrets without a record of it that a power failure leaves
\* ("Audit records disclosure", vault.rs:168, and the order in vault_api).
DisclosedIsAudited == launches <= Records(settled, "release")

\* What was acknowledged is what the hub goes on with and what a power failure
\* leaves, whatever failed or died since; the file may hold instead a change that
\* was not acknowledged, and nothing else.
AcknowledgedIsKept ==
  /\ {vaultFile.secrets, settled.secrets} \subseteq allowed
  /\ \A h \in Hub : VaultAt(h, "ready") => vault[h].contents.secrets = acked

\* "audit capacity reached; export before continuing" (vault.rs:112): the owner can
\* open the vault still, to export it.
OwnerCanExport == vaultLock = Unlocked => ~Full(vaultFile)
================================================================================
