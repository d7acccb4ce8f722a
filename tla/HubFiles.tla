------------------------------- MODULE HubFiles -------------------------------
(***************************************************************************)
(* Small files the desktop's backend keeps for its views, which ask it at  *)
(* the same time: labels of sessions (desktop/src/session_summary.rs), the *)
(* state of the interface, the snapshot of a view and the actions left for *)
(* it (ui_state_set, view_snapshot and view_actions in main.rs).           *)
(* Each is written beside the old one and renamed.  A label is written to  *)
(* a file of its own, the others to one with a fixed name.                 *)
(*                                                                         *)
(* An open file is an inode: it can be renamed, or be another's, while it  *)
(* is written.  Contents the checks refuse are left out.                   *)
(***************************************************************************)
EXTENDS Naturals, Sequences, FiniteSets

CONSTANTS
  Writer,         \* requests that save
  Content,        \* what can be saved
  NoFile,         \* there is no such file
  Poller,         \* requests for the actions
  MaxLeft         \* bound on how often actions are left

ASSUME HubFilesAssumption == NoFile \notin Writer \cup Content /\ MaxLeft \in Nat

VARIABLES
  inode,          \* what each writer's file holds, and whether it is on the disk
  saved,          \* the inode of the label and of the interface's state
  temporary,      \* the inode under the fixed name
  saving,         \* what each writer does
  actions,        \* the file of actions: a number, or NoFile
  left,           \* how often actions were left
  poll            \* what each poll read, and whether it has answered

fileVars == <<inode, saved, temporary, saving, actions, left, poll>>
SaverVars == <<inode, saved, temporary, saving>>
ActionVars == <<actions, left, poll>>

Saved == {"label", "state"}
Nothing == "nothing"
Mixed == "mixed"      \* neither what the one wrote nor what the other did

FilesInit ==
  /\ inode = [w \in Writer |-> [holds |-> Nothing, synced |-> FALSE]]
  /\ saved = [f \in Saved |-> NoFile]
  /\ temporary = NoFile
  /\ saving = [w \in Writer |-> [pc |-> "new"]]
  /\ actions = NoFile /\ left = 0
  /\ poll = [p \in Poller |-> [pc |-> "new", read |-> NoFile]]

-------------------------------------------------------------------------------
(* Saving.                                                                 *)

Goes(w, pc) == saving' = [saving EXCEPT ![w].pc = pc]
SavingAt(w, pc) == saving[w].pc = pc

\* A mutant of OpenTemporary: a label has a temporary file with a fixed name too.
OpenOneTemporary(w) ==
  /\ SavingAt(w, "new")
  /\ \E f \in Saved, c \in Content :
       LET i == IF temporary = NoFile THEN w ELSE temporary
       IN  /\ saving' = [saving EXCEPT ![w] = [pc |-> "opened", file |-> f, is |-> c, to |-> i]]
           /\ temporary' = i
           /\ inode' = [inode EXCEPT ![i] = [holds |-> Nothing, synced |-> FALSE]]
  /\ UNCHANGED <<saved, ActionVars>>

\* A label's temporary file is new; under the fixed name there may be one, that
\* somebody is writing, and it is cut to nothing.
OpenTemporary(w) ==
  /\ SavingAt(w, "new")
  /\ \E f \in Saved, c \in Content :
       LET i == IF f = "label" \/ temporary = NoFile THEN w ELSE temporary
       IN  /\ saving' = [saving EXCEPT ![w] = [pc |-> "opened", file |-> f, is |-> c, to |-> i]]
           /\ temporary' = IF f = "label" THEN temporary ELSE i
           /\ inode' = [inode EXCEPT ![i] = [holds |-> Nothing, synced |-> FALSE]]
  /\ UNCHANGED <<saved, ActionVars>>

\* Two who write the same inode write over each other from its beginning: if the
\* second is the shorter, the end of the first stays.
WriteFile(w) ==
  /\ SavingAt(w, "opened")
  /\ LET i == saving[w].to
     IN  \E c \in {saving[w].is} \cup
                  (IF inode[i].holds \in {Nothing, saving[w].is} THEN {} ELSE {Mixed}) :
           inode' = [inode EXCEPT ![i] = [holds |-> c, synced |-> FALSE]]
  /\ Goes(w, IF saving[w].file = "label" THEN "written" ELSE "synced")
  /\ UNCHANGED <<saved, temporary, ActionVars>>

SyncFile(w) ==
  /\ SavingAt(w, "written")
  /\ inode' = [inode EXCEPT ![saving[w].to].synced = TRUE]
  /\ Goes(w, "synced")
  /\ UNCHANGED <<saved, temporary, ActionVars>>

\* rename() takes whatever has the name now; if that is nothing, it fails.
RenameFile(w) ==
  /\ SavingAt(w, "synced")
  /\ LET f == saving[w].file
     IN  IF f = "label"
           THEN /\ saved' = [saved EXCEPT !["label"] = saving[w].to]
                /\ Goes(w, "saved") /\ UNCHANGED temporary
           ELSE IF temporary = NoFile
           THEN Goes(w, "failed") /\ UNCHANGED <<saved, temporary>>
           ELSE /\ saved' = [saved EXCEPT !["state"] = temporary]
                /\ temporary' = NoFile
                /\ Goes(w, "saved")
  /\ UNCHANGED <<inode, ActionVars>>

\* The machine loses power: what was not synced is gone from its file.
FilesPowerLoss ==
  /\ inode' = [w \in Writer |-> IF inode[w].synced THEN inode[w]
                                ELSE [holds |-> Nothing, synced |-> TRUE]]
  /\ saving' = [w \in Writer |-> IF SavingAt(w, "new") THEN saving[w] ELSE [pc |-> "gone"]]
  /\ UNCHANGED <<saved, temporary, ActionVars>>

-------------------------------------------------------------------------------
(* Actions.                                                                *)

LeaveActions ==
  /\ left < MaxLeft
  /\ left' = left + 1
  /\ actions' = left + 1
  /\ UNCHANGED <<SaverVars, poll>>

PollActions(p) ==
  /\ poll[p].pc = "new"
  /\ poll' = [poll EXCEPT ![p] = IF actions = NoFile THEN [pc |-> "answered", read |-> NoFile]
                                 ELSE [pc |-> "read", read |-> actions]]
  /\ UNCHANGED <<SaverVars, actions, left>>

\* Whatever has the name now is removed; that it was gone already is no error.
RemoveActions(p) ==
  /\ poll[p].pc = "read"
  /\ actions' = NoFile
  /\ poll' = [poll EXCEPT ![p].pc = "answered"]
  /\ UNCHANGED <<SaverVars, left>>

FilesNext ==
  \/ \E w \in Writer : OpenTemporary(w) \/ WriteFile(w) \/ SyncFile(w) \/ RenameFile(w)
  \/ \E p \in Poller : PollActions(p) \/ RemoveActions(p)
  \/ FilesPowerLoss \/ LeaveActions

FilesSpec == FilesInit /\ [][FilesNext]_fileVars

-------------------------------------------------------------------------------
Holds(f) == inode[saved[f]].holds

\* "Unique temporary file permits concurrent views without truncating each other's
\* writes" (session_summary.rs:34): a label that is there is one that was saved,
\* whole, whoever else saves and whenever the power fails.
LabelsAreWhole == saved["label"] # NoFile => Holds("label") \in Content

\* "What a view should restore after a restart" (main.rs:393): when nobody saves any
\* more, the interface's state is one that was saved.
StateIsWhole ==
  saved["state"] # NoFile /\ (\A w \in Writer : saving[w].pc \in {"new", "saved", "failed"}) =>
    Holds("state") \in Content

\* "Handed over once, then removed" (main.rs:462).
HandedOverOnce ==
  \A p, q \in Poller :
    poll[p].pc = "answered" /\ poll[q].pc = "answered" /\ poll[p].read = poll[q].read
      => p = q \/ poll[p].read = NoFile

\* Actions that are left are there until somebody has read them.
ActionsAreRead ==
  \A n \in 1..left : actions = n \/ left > n \/ \E p \in Poller : poll[p].read = n
================================================================================
