------------------------------- MODULE Installer -------------------------------
(***************************************************************************)
(* The command line client on one machine: install (and update), rollback  *)
(* and uninstall of one skill for one agent, with the user who edits the   *)
(* installed files, operations that fail and a process that is killed.     *)
(*                                                                         *)
(* A command observes the installed tree, moves trees with os.replace and  *)
(* at last rewrites the state file.  Every move and the state write are    *)
(* atomic; between them anything may happen.  When a step raises, the      *)
(* command undoes what it moved; when the process dies it does not.        *)
(*                                                                         *)
(* A tree is the released version it was extracted from, or what the user  *)
(* made of it: an edit.  _verified_release has established that what is    *)
(* extracted is the released version, file by file.                        *)
(***************************************************************************)
EXTENDS Naturals, Sequences, SequencesExt

CONSTANTS
  Versions,    \* released versions
  Edits,       \* trees that the user makes
  Paths,       \* bound: backup paths drawn (each has a random suffix)
  Absent,      \* no tree there
  NoRecord,    \* no entry in the state file
  KeptBackups  \* how many backups a record lists (5 in the code)

ASSUME TreesAssumption == /\ Versions \cap Edits = {}
                          /\ Absent \notin Versions \cup Edits \cup Paths
ASSUME KeptAssumption == KeptBackups \in Nat \ {0}
ASSUME NoRecordAssumption == NoRecord \notin [version : Versions,
                                backups : Seq([version : Versions, path : Paths])]

VARIABLES
  dest,     \* the tree at the destination
  disk,     \* the trees at the backup paths
  drawn,    \* the backup paths in use so far
  record,   \* the entry of the state file
  op,       \* the command that is running
  made,     \* history: edits that the user did not himself replace
  crashed   \* history: the process was killed in the middle of a command

vars == <<dest, disk, drawn, record, op, made, crashed>>
trees == <<dest, disk, drawn>>

Trees == Versions \cup Edits
Backup == [version : Versions, path : Paths]
Record == [version : Versions, backups : Seq(Backup)]
Idle == [at |-> "idle"]

(* at: checked, the tree was observed; aside, it was moved away; placed,   *)
(* the new tree is at the destination.  entry, from: the backup selected   *)
(* by a rollback, its place in the list and its path; moved: where the old *)
(* tree went.                                                              *)
Kinds == {"install", "rollback", "uninstall"}
Command == [at : {"checked", "aside", "placed"}, kind : Kinds,
            version : Versions, entry : Nat, from : Paths \cup {Absent},
            clean : BOOLEAN, moved : Paths \cup {Absent}]

Init ==
  /\ dest = Absent
  /\ disk = [p \in Paths |-> Absent]
  /\ drawn = {}
  /\ record = NoRecord
  /\ op = Idle
  /\ made = {}
  /\ crashed = FALSE

-----------------------------------------------------------------------------
(* What a command looks at before it touches anything.                     *)

Installed == record # NoRecord
Clean == Installed /\ dest = record.version

Start(kind, version, entry, from) ==
  /\ op = Idle
  /\ op' = [at |-> "checked", kind |-> kind, version |-> version,
            entry |-> entry, from |-> from, clean |-> Clean, moved |-> Absent]
  /\ UNCHANGED <<trees, record, made, crashed>>

(* Local changes, a tree that is gone and a tree that is not managed stop  *)
(* the command unless it is forced; what is installed already is left.     *)
Install(v, force) ==
  /\ Installed \/ dest # Absent => Clean \/ force
  /\ ~(Clean /\ record.version = v)
  /\ Start("install", v, 0, Absent)

(* Any backup of the version asked for, the last of them; without a        *)
(* version the last of all.                                                *)
IsSelected(i, versions) ==
  /\ record.backups[i].version \in versions
  /\ \A j \in (i + 1)..Len(record.backups) : record.backups[j].version \notin versions

Rollback(versions, force) ==
  /\ Installed
  /\ Clean \/ force
  /\ \E i \in 1..Len(record.backups) :
       LET selected == record.backups[i] IN
       /\ IsSelected(i, versions)
       /\ disk[selected.path] # Absent
       /\ Start("rollback", selected.version, i, selected.path)

Uninstall(force) ==
  /\ Installed
  /\ Clean \/ force
  /\ Start("uninstall", record.version, 0, Absent)

-----------------------------------------------------------------------------
(* The moves.                                                              *)

(* Mutant: the old tree is removed.                                        *)
SetAside_Removes ==
  /\ op.at = "checked"
  /\ dest' = Absent
  /\ op' = [op EXCEPT !.at = "aside"]
  /\ UNCHANGED <<disk, drawn, record, made, crashed>>

SetAside ==
  /\ op.at = "checked"
  /\ IF dest = Absent
     THEN /\ op' = [op EXCEPT !.at = "aside"]
          /\ UNCHANGED trees
     ELSE \E p \in Paths \ drawn :
          /\ disk' = [disk EXCEPT ![p] = dest]
          /\ drawn' = drawn \cup {p}
          /\ dest' = Absent
          /\ op' = [op EXCEPT !.at = "aside", !.moved = p]
  /\ UNCHANGED <<record, made, crashed>>

(* The staged tree, or the backup selected, becomes the installed one;     *)
(* an uninstall has nothing to place.                                      *)
Place ==
  /\ op.at = "aside"
  /\ dest = Absent
  /\ dest' = CASE op.kind = "install"   -> op.version
               [] op.kind = "rollback"  -> disk[op.from]
               [] op.kind = "uninstall" -> Absent
  /\ disk' = IF op.kind = "rollback" THEN [disk EXCEPT ![op.from] = Absent] ELSE disk
  /\ op' = [op EXCEPT !.at = "placed"]
  /\ UNCHANGED <<drawn, record, made, crashed>>

(* Mutant: the backup that was restored stays in the list.                 *)
Remaining_All(backups) == backups

(* rollback takes the backup it restored off the list.                     *)
Remaining(backups) == IF op.kind = "rollback" THEN RemoveAt(backups, op.entry) ELSE backups

(* An installation lists the tree it replaced if that was the clean        *)
(* version; a rollback lists whatever was there.                           *)
Listed ==
  IF op.moved # Absent /\ Installed /\ (op.kind = "install" => op.clean)
  THEN <<[version |-> record.version, path |-> op.moved]>> ELSE <<>>

(* Mutant: the list grows for ever.                                        *)
Newest_All(backups) == backups
Newest(backups) ==
  SubSeq(backups, IF Len(backups) > KeptBackups THEN Len(backups) - KeptBackups + 1 ELSE 1,
         Len(backups))

Old == IF Installed THEN record.backups ELSE <<>>

WriteState ==
  /\ op.at = "placed"
  /\ record' = IF op.kind = "uninstall" THEN NoRecord
               ELSE [version |-> op.version, backups |-> Newest(Remaining(Old) \o Listed)]
  /\ op' = Idle
  /\ UNCHANGED <<trees, made, crashed>>

(* A move fails: what was set aside goes back.                             *)
PlaceFails ==
  /\ op.at = "aside"
  /\ op.kind # "uninstall"
  /\ IF op.moved # Absent /\ dest = Absent
     THEN /\ dest' = disk[op.moved]
          /\ disk' = [disk EXCEPT ![op.moved] = Absent]
     ELSE UNCHANGED <<dest, disk>>
  /\ op' = Idle
  /\ UNCHANGED <<drawn, record, made, crashed>>

(* Mutant: the state write is not undone.                                  *)
WriteFails_Leaves ==
  /\ op.at = "placed"
  /\ op' = Idle
  /\ UNCHANGED <<trees, record, made, crashed>>

(* The state file cannot be written: a rollback gives the selected backup  *)
(* back, an installation drops the tree it placed, and what was set aside  *)
(* returns.                                                                *)
WriteFails ==
  LET returned == IF op.kind = "rollback" THEN [disk EXCEPT ![op.from] = dest] ELSE disk
  IN /\ op.at = "placed"
     /\ dest' = IF op.moved # Absent THEN disk[op.moved] ELSE Absent
     /\ disk' = IF op.moved # Absent THEN [returned EXCEPT ![op.moved] = Absent] ELSE returned
     /\ op' = Idle
     /\ UNCHANGED <<drawn, record, made, crashed>>

(* Something else raises before the first move: nothing has happened.      *)
GiveUp ==
  /\ op.at = "checked"
  /\ op' = Idle
  /\ UNCHANGED <<trees, record, made, crashed>>

Killed ==
  /\ op # Idle
  /\ op' = Idle
  /\ crashed' = TRUE
  /\ UNCHANGED <<trees, record, made>>

-----------------------------------------------------------------------------
(* The user changes the installed files, or puts files of his own there.   *)
(* He does not change a tree in the moment between its appearance and the  *)
(* end of the command that places it.                                      *)
Edit(e) ==
  /\ e \notin made /\ \A p \in Paths : disk[p] # e
  /\ dest # e
  /\ dest # Absent \/ (record = NoRecord /\ op = Idle)
  /\ op.at # "placed"
  /\ dest' = e
  /\ made' = (made \ {dest}) \cup {e}
  /\ UNCHANGED <<disk, drawn, record, op, crashed>>

Next ==
  \/ \E v \in Versions, force \in BOOLEAN : Install(v, force)
  \/ \E versions \in {Versions} \cup {{v} : v \in Versions}, force \in BOOLEAN :
       Rollback(versions, force)
  \/ \E force \in BOOLEAN : Uninstall(force)
  \/ SetAside \/ Place \/ WriteState
  \/ PlaceFails \/ WriteFails \/ GiveUp \/ Killed
  \/ \E e \in Edits : Edit(e)

Spec == Init /\ [][Next]_vars

-----------------------------------------------------------------------------
(* The values each variable may take; a record lists a bounded number of   *)
(* backups.                                                                *)
TypeOK ==
  /\ dest \in Trees \cup {Absent}
  /\ disk \in [Paths -> Trees \cup {Absent}]
  /\ drawn \subseteq Paths
  /\ record \in Record \cup {NoRecord}
  /\ Installed => Len(record.backups) <= KeptBackups
  /\ op \in Command \cup {Idle}
  /\ made \subseteq Edits
  /\ crashed \in BOOLEAN

(* What the user made is never destroyed: it is at the destination or at a *)
(* backup path, also after a forced command, after one that failed half    *)
(* way, and after one that was killed.                                     *)
EditsKept == \A e \in made : dest = e \/ \E p \in Paths : disk[p] = e

(* Once a command has returned, however it ended, the state file and the   *)
(* installed tree are on the same side: a released version that is         *)
(* installed is the recorded one, and what is recorded is there.           *)
StateIsTruthful ==
  op = Idle /\ ~crashed =>
    /\ dest \in Versions => Installed /\ record.version = dest
    /\ Installed => dest # Absent

(* Every backup a record lists can be restored, and two entries never      *)
(* stand for one tree.                                                     *)
BackupsExist ==
  Installed /\ op = Idle /\ ~crashed =>
    \A i, j \in 1..Len(record.backups) :
      /\ disk[record.backups[i].path] # Absent
      /\ record.backups[i].path = record.backups[j].path => i = j
=============================================================================
