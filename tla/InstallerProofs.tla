---------------------------- MODULE InstallerProofs ----------------------------
(***************************************************************************)
(* What is at the destination and at the backup paths of an installed      *)
(* skill, and what the state file says of it, for any sequence of commands,*)
(* edits, failures and kills.                                              *)
(***************************************************************************)
EXTENDS Installer, SequenceTheorems, TLAPS

(* A backup path is used once.                                             *)
Unused == \A p \in Paths \ drawn : disk[p] = Absent
DistinctPaths(backups) ==
  \A i, j \in 1..Len(backups) : backups[i].path = backups[j].path => i = j
Paired ==
  /\ DistinctPaths(Old)
  /\ \A i \in 1..Len(Old) : Old[i].path \in drawn

(* What a command holds on to between its steps.                           *)
Restoring == op # Idle /\ op.kind = "rollback"
Midway == op.at \in {"aside", "placed"}
Holding ==
  /\ Restoring => /\ op.entry \in 1..Len(Old)
                  /\ op.from = Old[op.entry].path
                  /\ op.version = Old[op.entry].version
  /\ op # Idle /\ op.kind = "uninstall" => Installed
  /\ op.at = "checked" => op.moved = Absent
  /\ Midway /\ op.moved # Absent =>
       op.moved \in drawn /\ \A i \in 1..Len(Old) : Old[i].path # op.moved
  /\ op.at = "aside" => dest = Absent
  /\ op.at = "placed" =>
       /\ op.kind = "install" => dest = op.version
       /\ op.kind = "uninstall" => dest = Absent
       /\ op.kind = "rollback" => disk[op.from] = Absent

(* A tree that stands for an entry of the state file: it is there, and if  *)
(* nobody edited it, it is the version of that entry.                      *)
StandsFor(tree, version) == tree # Absent /\ (tree \in Versions => tree = version)

(* The installed tree stands for the record, at the destination or, while  *)
(* a command moves trees, where it was set aside.                          *)
InstalledTree(tree) ==
  /\ Installed => StandsFor(tree, record.version)
  /\ ~Installed => tree \notin Versions

Truthful == ~crashed =>
  /\ op.at \in {"idle", "checked"} => InstalledTree(dest)
  /\ Midway => InstalledTree(IF op.moved = Absent THEN Absent ELSE disk[op.moved])
  /\ Restoring /\ op.at = "placed" => StandsFor(dest, op.version)

(* So does every backup for its entry, but the one that is being restored. *)
Backed == ~crashed =>
  \A i \in 1..Len(Old) :
    \/ StandsFor(disk[Old[i].path], Old[i].version)
    \/ Restoring /\ op.at = "placed" /\ i = op.entry

(* The inductive invariant.                                                *)
IInv == TypeOK /\ Unused /\ Paired /\ Holding /\ Truthful /\ Backed /\ EditsKept

-----------------------------------------------------------------------------
(* The list of backups.                                                    *)

(* What RemoveAt leaves and where it was.                                  *)
LEMMA RemovesOne ==
  ASSUME NEW S, NEW s \in Seq(S), NEW i \in 1..Len(s)
  PROVE  /\ RemoveAt(s, i) \in Seq(S)
         /\ Len(RemoveAt(s, i)) = Len(s) - 1
         /\ \A k \in 1..(Len(s) - 1) : RemoveAt(s, i)[k] = IF k < i THEN s[k] ELSE s[k + 1]
  <1> DEFINE front == SubSeq(s, 1, i - 1)
             back == SubSeq(s, i + 1, Len(s))
  <1>1. front \in Seq(S) /\ Len(front) = i - 1 /\ \A k \in 1..(i - 1) : front[k] = s[k]
    OBVIOUS
  <1>2. back \in Seq(S) /\ Len(back) = Len(s) - i /\ \A k \in 1..(Len(s) - i) : back[k] = s[k + i]
    OBVIOUS
  <1>3. RemoveAt(s, i) = front \o back
    BY DEF RemoveAt
  <1> HIDE DEF front, back
  <1>4. /\ front \o back \in Seq(S) /\ Len(front \o back) = Len(s) - 1
        /\ \A k \in 1..(Len(s) - 1) :
             (front \o back)[k] = IF k < i THEN front[k] ELSE back[k - i + 1]
    <2>1. /\ front \o back \in Seq(S) /\ Len(front \o back) = Len(front) + Len(back)
          /\ \A k \in 1..(Len(front) + Len(back)) : (front \o back)[k] =
               IF k <= Len(front) THEN front[k] ELSE back[k - Len(front)]
      BY <1>1, <1>2, ConcatProperties
    <2>2. Len(s) \in Nat /\ Len(front) + Len(back) = Len(s) - 1
      BY <1>1, <1>2
    <2>3. \A k \in 1..(Len(s) - 1) :
            (k <= Len(front) <=> k < i) /\ k - Len(front) = k - i + 1
      BY <1>1, <2>2
    <2> QED BY <2>1, <2>2, <2>3
  <1>5. \A k \in i..(Len(s) - 1) : back[k - i + 1] = s[k + 1]
    BY <1>2
  <1> QED BY <1>1, <1>3, <1>4, <1>5

(* The newest backups are the end of the list.                             *)
LEMMA NewestOnes ==
  ASSUME NEW S, NEW s \in Seq(S)
  PROVE  /\ Newest(s) \in Seq(S)
         /\ Len(Newest(s)) <= KeptBackups
         /\ \E d \in Nat : \A k \in 1..Len(Newest(s)) :
              k + d \in 1..Len(s) /\ Newest(s)[k] = s[k + d]
  <1>0. Len(s) \in Nat /\ KeptBackups \in Nat /\ KeptBackups > 0
    BY KeptAssumption
  <1>1. CASE Len(s) > KeptBackups
    <2>1. PICK d \in Nat : d = Len(s) - KeptBackups
      BY <1>0, <1>1
    <2>2. Newest(s) = SubSeq(s, d + 1, Len(s)) /\ d < Len(s) /\ Len(s) - d = KeptBackups
      BY <1>0, <1>1, <2>1 DEF Newest
    <2>3. \A i \in (d + 1)..Len(s) : s[i] \in S
      BY <1>0, <2>1
    <2>4. /\ SubSeq(s, d + 1, Len(s)) \in Seq(S)
          /\ Len(SubSeq(s, d + 1, Len(s))) = KeptBackups
          /\ \A k \in 1..KeptBackups : SubSeq(s, d + 1, Len(s))[k] = s[d + 1 + k - 1]
      BY <1>0, <2>1, <2>2, <2>3, SubSeqProperties
    <2>5. \A k \in 1..KeptBackups : k + d \in 1..Len(s) /\ d + 1 + k - 1 = k + d
      BY <1>0, <2>1
    <2>6. /\ Newest(s) \in Seq(S) /\ Len(Newest(s)) = KeptBackups
          /\ \A k \in 1..KeptBackups : k + d \in 1..Len(s) /\ Newest(s)[k] = s[k + d]
      BY ONLY <2>2, <2>4, <2>5
    <2>7. \A k \in 1..Len(Newest(s)) : k + d \in 1..Len(s) /\ Newest(s)[k] = s[k + d]
      BY ONLY <2>6
    <2>8. \E e \in Nat : \A k \in 1..Len(Newest(s)) :
            k + e \in 1..Len(s) /\ Newest(s)[k] = s[k + e]
      <3> WITNESS d \in Nat
      <3> QED BY ONLY <2>7
    <2>9. Len(Newest(s)) <= KeptBackups
      BY ONLY <1>0, <2>6
    <2> QED BY ONLY <2>6, <2>8, <2>9
  <1>2. CASE ~(Len(s) > KeptBackups)
    <2>1. Newest(s) = SubSeq(s, 1, Len(s))
      BY <1>2 DEF Newest
    <2>2. Newest(s) = s
      BY <2>1
    <2>3. \A k \in 1..Len(s) : k + 0 \in 1..Len(s) /\ s[k] = s[k + 0]
      OBVIOUS
    <2> QED BY <1>0, <1>2, <2>2, <2>3
  <1> QED BY <1>1, <1>2

(* What is left of the list, with what is added, and cut to the last.      *)
LEMMA Relisted ==
  ASSUME NEW old \in Seq(Backup), DistinctPaths(old), NEW i \in 1..Len(old) \cup {0}, NEW added,
         \/ added = <<>>
         \/ \E b \in Backup : added = <<b>> /\ \A j \in 1..Len(old) : old[j].path # b.path
  PROVE  LET kept == IF i = 0 THEN old ELSE RemoveAt(old, i)
             new == Newest(kept \o added)
         IN  /\ new \in Seq(Backup) /\ Len(new) <= KeptBackups /\ DistinctPaths(new)
             /\ \A k \in 1..Len(new) :
                  \/ added = <<new[k]>>
                  \/ \E j \in 1..Len(old) : j # i /\ new[k] = old[j]
  <1> DEFINE kept == IF i = 0 THEN old ELSE RemoveAt(old, i)
             all == kept \o added
             new == Newest(all)
  <1>1. /\ kept \in Seq(Backup) /\ DistinctPaths(kept)
        /\ \A k \in 1..Len(kept) : \E j \in 1..Len(old) : j # i /\ kept[k] = old[j]
    <2>1. CASE i = 0
      BY <2>1
    <2>2. CASE i # 0
      <3>1. /\ kept \in Seq(Backup) /\ Len(kept) = Len(old) - 1
            /\ \A k \in 1..(Len(old) - 1) : kept[k] = IF k < i THEN old[k] ELSE old[k + 1]
        BY <2>2, RemovesOne
      <3> HIDE DEF kept
      <3>2. \A k \in 1..Len(kept) : kept[k] = old[IF k < i THEN k ELSE k + 1]
        BY <2>2, <3>1
      <3>3. \A k \in 1..Len(kept) : \E j \in 1..Len(old) : j # i /\ kept[k] = old[j]
        BY <2>2, <3>1
      <3>4. DistinctPaths(kept)
        <4> SUFFICES ASSUME NEW k \in 1..Len(kept), NEW l \in 1..Len(kept),
                            kept[k].path = kept[l].path
                     PROVE  k = l
          BY DEF DistinctPaths
        <4> DEFINE from(m) == IF m < i THEN m ELSE m + 1
        <4>1. from(k) \in 1..Len(old) /\ from(l) \in 1..Len(old)
          BY <2>2, <3>1
        <4>2. old[from(k)].path = old[from(l)].path
          BY <3>2
        <4>3. from(k) = from(l)
          BY <4>1, <4>2 DEF DistinctPaths
        <4> QED BY <2>2, <3>1, <4>3
      <3> QED BY <3>1, <3>3, <3>4
    <2> QED BY <2>1, <2>2
  <1> HIDE DEF kept
  <1>2. /\ all \in Seq(Backup) /\ DistinctPaths(all)
        /\ \A k \in 1..Len(all) : \/ added = <<all[k]>>
                                  \/ \E j \in 1..Len(old) : j # i /\ all[k] = old[j]
    <2>1. CASE added = <<>>
      <3>1. all = kept
        BY <1>1, <2>1
      <3> HIDE DEF all
      <3> QED BY <1>1, <3>1
    <2>2. CASE added # <<>>
      <3> PICK b \in Backup : added = <<b>> /\ \A j \in 1..Len(old) : old[j].path # b.path
        BY <2>2
      <3>1. all = Append(kept, b)
        BY <1>1
      <3> HIDE DEF all
      <3>2. /\ all \in Seq(Backup) /\ Len(all) = Len(kept) + 1 /\ Len(kept) \in Nat
            /\ all[Len(kept) + 1] = b /\ \A k \in 1..Len(kept) : all[k] = kept[k]
        BY <1>1, <3>1
      <3>3. \A k \in 1..Len(kept) : all[k].path # b.path
        BY <1>1, <3>2
      <3>4. DistinctPaths(all)
        <4> SUFFICES ASSUME NEW k \in 1..Len(all), NEW l \in 1..Len(all),
                            all[k].path = all[l].path
                     PROVE  k = l
          BY DEF DistinctPaths
        <4>1. k \in 1..Len(kept) \/ k = Len(kept) + 1
          BY <3>2
        <4>2. l \in 1..Len(kept) \/ l = Len(kept) + 1
          BY <3>2
        <4> QED BY <1>1, <3>2, <3>3, <4>1, <4>2 DEF DistinctPaths
      <3>5. \A k \in 1..Len(all) : k \in 1..Len(kept) \/ k = Len(kept) + 1
        BY <3>2
      <3> QED BY <1>1, <2>2, <3>2, <3>4, <3>5
    <2> QED BY <2>1, <2>2
  <1> HIDE DEF all
  <1>3. /\ new \in Seq(Backup) /\ Len(new) <= KeptBackups
        /\ \E d \in Nat : \A k \in 1..Len(new) : k + d \in 1..Len(all) /\ new[k] = all[k + d]
    BY <1>2, NewestOnes
  <1>4. PICK d \in Nat : \A k \in 1..Len(new) : k + d \in 1..Len(all) /\ new[k] = all[k + d]
    BY <1>3
  <1> HIDE DEF new
  <1>5. DistinctPaths(new)
    <2> SUFFICES ASSUME NEW k \in 1..Len(new), NEW l \in 1..Len(new), new[k].path = new[l].path
                 PROVE  k = l
      BY DEF DistinctPaths
    <2>1. /\ k + d \in 1..Len(all) /\ l + d \in 1..Len(all)
          /\ all[k + d].path = all[l + d].path
      BY <1>4
    <2>2. k + d = l + d
      BY <1>2, <2>1 DEF DistinctPaths
    <2> QED BY <2>2
  <1>6. \A k \in 1..Len(new) : \/ added = <<new[k]>>
                               \/ \E j \in 1..Len(old) : j # i /\ new[k] = old[j]
    BY <1>2, <1>4
  <1> QED BY <1>3, <1>5, <1>6 DEF new, all, kept

-----------------------------------------------------------------------------
(* Steps that leave the state file alone keep the list.                    *)
LEMMA SameList ==
  ASSUME record' = record
  PROVE  Installed' = Installed /\ Old' = Old
  BY DEF Installed, Old

(* The list of backups, empty when nothing is installed.                   *)
LEMMA ListTyped ==
  ASSUME TypeOK
  PROVE  Old \in Seq(Backup)
  BY DEF TypeOK, Old, Installed, Record

(* The fields of a running command.                                        *)
LEMMA NotIdle ==
  ASSUME TypeOK, op # Idle
  PROVE  /\ op \in Command /\ op.kind \in Kinds /\ op.version \in Versions
         /\ op.at \in {"checked", "aside", "placed"} /\ op.clean \in BOOLEAN
         /\ op.moved \in Paths \cup {Absent} /\ op.from \in Paths \cup {Absent}
  BY DEF TypeOK, Command

(* A command begins.                                                       *)
LEMMA StartKeeps ==
  ASSUME IInv, NEW kind \in Kinds, NEW version \in Versions, NEW entry \in Nat,
         NEW from \in Paths \cup {Absent}, Start(kind, version, entry, from),
         kind \in {"rollback", "uninstall"} => Installed,
         kind = "rollback" => /\ entry \in 1..Len(Old)
                              /\ from = Old[entry].path
                              /\ version = Old[entry].version
  PROVE  IInv'
  <1> DEFINE new == [at |-> "checked", kind |-> kind, version |-> version,
                     entry |-> entry, from |-> from, clean |-> Clean, moved |-> Absent]
  <1>1. /\ op = Idle /\ op' = new
        /\ UNCHANGED <<dest, disk, drawn, record, made, crashed>>
    BY DEF Start, trees
  <1>2. /\ new \in Command /\ new # Idle /\ new.at = "checked" /\ new.kind = kind
        /\ new.version = version /\ new.entry = entry /\ new.from = from /\ new.moved = Absent
    BY DEF Command, Clean, Idle
  <1>3. Idle.at = "idle"
    BY DEF Idle
  <1> HIDE DEF new
  <1>4. Installed' = Installed /\ Old' = Old
    BY <1>1, SameList
  <1>5. TypeOK' /\ Unused' /\ EditsKept'
    BY <1>1, <1>2, <1>4 DEF IInv, TypeOK, Unused, EditsKept
  <1>6. Paired' /\ Holding'
    BY <1>1, <1>2, <1>4 DEF IInv, Paired, DistinctPaths, Holding, Restoring, Midway
  <1>7. Truthful' /\ Backed'
    BY <1>1, <1>2, <1>3, <1>4
       DEF IInv, Truthful, Backed, InstalledTree, StandsFor, Restoring, Midway
  <1> QED BY <1>5, <1>6, <1>7 DEF IInv

(* install, rollback and uninstall up to their first move.                 *)
LEMMA CommandsKeep ==
  ASSUME IInv,
         \/ \E v \in Versions, force \in BOOLEAN : Install(v, force)
         \/ \E versions \in {Versions} \cup {{v} : v \in Versions}, force \in BOOLEAN :
              Rollback(versions, force)
         \/ \E force \in BOOLEAN : Uninstall(force)
  PROVE  IInv'
  <1>1. ASSUME NEW v \in Versions, NEW force \in BOOLEAN, Install(v, force)
        PROVE  IInv'
    BY <1>1, StartKeeps DEF Install, Kinds
  <1>2. ASSUME NEW versions, NEW force, Rollback(versions, force)
        PROVE  IInv'
    <2>1. PICK i \in 1..Len(record.backups) :
            Start("rollback", record.backups[i].version, i, record.backups[i].path)
      BY <1>2 DEF Rollback
    <2>2. Installed /\ Old = record.backups
      BY <1>2 DEF Rollback, Old
    <2>3. Old[i] \in Backup /\ i \in Nat
      BY <2>2, ListTyped DEF IInv
    <2>4. Old[i].version \in Versions /\ Old[i].path \in Paths
      BY <2>3 DEF Backup
    <2> QED BY <2>1, <2>2, <2>3, <2>4, StartKeeps DEF Kinds
  <1>3. ASSUME NEW force, Uninstall(force)
        PROVE  IInv'
    <2>1. record.version \in Versions
      BY <1>3 DEF IInv, TypeOK, Uninstall, Installed, Record
    <2> QED BY <1>3, <2>1, StartKeeps DEF Uninstall, Kinds
  <1> QED BY <1>1, <1>2, <1>3

(* The installed tree moves to a backup path.                              *)
LEMMA SetAsideKeeps ==
  ASSUME IInv, SetAside
  PROVE  IInv'
  <1>1. /\ op # Idle /\ op.at = "checked" /\ op.moved = Absent
        /\ UNCHANGED <<record, made, crashed>>
    <2>1. op.at = "checked" /\ UNCHANGED <<record, made, crashed>>
      BY DEF SetAside
    <2>2. op # Idle
      BY <2>1 DEF Idle
    <2> QED BY <2>1, <2>2 DEF IInv, Holding
  <1>2. op \in Command
    BY <1>1, NotIdle DEF IInv
  <1>3. Installed' = Installed /\ Old' = Old
    BY <1>1, SameList
  <1>4. CASE dest = Absent
    <2>1. op' = [op EXCEPT !.at = "aside"] /\ UNCHANGED <<dest, disk, drawn>>
      BY <1>4 DEF SetAside, trees
    <2>2. /\ op' \in Command /\ op' # Idle /\ op'.at = "aside" /\ op'.kind = op.kind
          /\ op'.version = op.version /\ op'.entry = op.entry /\ op'.from = op.from
          /\ op'.moved = Absent
      BY <1>1, <1>2, <2>1 DEF Command, Idle
    <2>3. TypeOK' /\ Unused' /\ EditsKept'
      BY <1>1, <1>3, <2>1, <2>2 DEF IInv, TypeOK, Unused, EditsKept
    <2>4. Paired' /\ Holding'
      BY <1>1, <1>3, <1>4, <2>1, <2>2 DEF IInv, Paired, DistinctPaths, Holding, Restoring, Midway
    <2>5. Truthful' /\ Backed'
      BY <1>1, <1>3, <1>4, <2>1, <2>2
         DEF IInv, Truthful, Backed, InstalledTree, StandsFor, Restoring, Midway
    <2> QED BY <2>3, <2>4, <2>5 DEF IInv
  <1>5. CASE dest # Absent
    <2>1. PICK p \in Paths \ drawn :
            /\ disk' = [disk EXCEPT ![p] = dest]
            /\ drawn' = drawn \cup {p}
            /\ dest' = Absent
            /\ op' = [op EXCEPT !.at = "aside", !.moved = p]
      BY <1>5 DEF SetAside
    <2>2. /\ op' \in Command /\ op' # Idle /\ op'.at = "aside" /\ op'.kind = op.kind
          /\ op'.version = op.version /\ op'.entry = op.entry /\ op'.from = op.from
          /\ op'.moved = p
      BY <1>1, <1>2, <2>1 DEF Command, Idle
    <2>3. p # Absent
      BY TreesAssumption
    <2>4. /\ disk' \in [Paths -> Trees \cup {Absent}]
          /\ \A q \in Paths : disk'[q] = IF q = p THEN dest ELSE disk[q]
      BY <2>1 DEF IInv, TypeOK
    <2>5. \A i \in 1..Len(Old) : Old[i].path \in Paths /\ Old[i].path # p
      BY <2>1 DEF IInv, Paired, TypeOK
    <2>6. TypeOK' /\ Unused'
      BY <1>1, <1>3, <2>1, <2>2, <2>4 DEF IInv, TypeOK, Unused
    <2>7. EditsKept'
      BY <1>1, <2>1, <2>4 DEF IInv, Unused, EditsKept
    <2>8. Paired' /\ Holding'
      BY <1>1, <1>3, <2>1, <2>2, <2>5
         DEF IInv, Paired, DistinctPaths, Holding, Restoring, Midway
    <2>9. Truthful' /\ Backed'
      BY <1>1, <1>3, <2>1, <2>2, <2>3, <2>4, <2>5
         DEF IInv, Truthful, Backed, InstalledTree, StandsFor, Restoring, Midway
    <2> QED BY <2>6, <2>7, <2>8, <2>9 DEF IInv
  <1> QED BY <1>4, <1>5

(* The new tree moves to the destination.                                  *)
LEMMA PlaceKeeps ==
  ASSUME IInv, Place
  PROVE  IInv'
  <1>1. op.at = "aside" /\ dest = Absent /\ UNCHANGED <<drawn, record, made, crashed>>
    BY DEF Place
  <1>2. op # Idle
    BY <1>1 DEF Idle
  <1>3. op \in Command /\ op.version \in Versions /\ op.kind \in Kinds
    BY <1>2, NotIdle DEF IInv
  <1>4. /\ op' \in Command /\ op' # Idle /\ op'.at = "placed" /\ op'.kind = op.kind
        /\ op'.version = op.version /\ op'.entry = op.entry /\ op'.from = op.from
        /\ op'.moved = op.moved
    BY <1>3 DEF Place, Command, Idle
  <1>5. Installed' = Installed /\ Old' = Old
    BY <1>1, SameList
  <1>6. CASE op.kind \in {"install", "uninstall"}
    <2>1. disk' = disk /\ dest' = IF op.kind = "install" THEN op.version ELSE Absent
      BY <1>6 DEF Place
    <2>2. TypeOK' /\ Unused' /\ EditsKept'
      BY <1>1, <1>3, <1>4, <1>5, <2>1, TreesAssumption
         DEF IInv, TypeOK, Unused, EditsKept, Trees
    <2>3. Paired' /\ Holding'
      BY <1>1, <1>2, <1>4, <1>5, <1>6, <2>1
         DEF IInv, Paired, DistinctPaths, Holding, Restoring, Midway
    <2>4. Truthful' /\ Backed'
      BY <1>1, <1>2, <1>4, <1>5, <1>6, <2>1
         DEF IInv, Truthful, Backed, InstalledTree, StandsFor, Restoring, Midway
    <2> QED BY <2>2, <2>3, <2>4 DEF IInv
  <1>7. CASE op.kind = "rollback"
    <2>1. disk' = [disk EXCEPT ![op.from] = Absent] /\ dest' = disk[op.from]
      BY <1>7 DEF Place
    <2>2. /\ op.entry \in 1..Len(Old) /\ op.from = Old[op.entry].path
          /\ op.version = Old[op.entry].version
      BY <1>2, <1>7 DEF IInv, Holding, Restoring
    <2>3. op.from \in drawn /\ op.from \in Paths
      BY <2>2 DEF IInv, Paired, TypeOK
    <2>4. op.moved # Absent => op.moved \in Paths /\ op.moved # op.from
      BY <1>1, <2>2 DEF IInv, Holding, Midway, TypeOK
    <2>5. /\ disk' \in [Paths -> Trees \cup {Absent}]
          /\ \A q \in Paths : disk'[q] = IF q = op.from THEN Absent ELSE disk[q]
          /\ dest' \in Trees \cup {Absent}
      BY <2>1, <2>3 DEF IInv, TypeOK
    <2>6. \A i \in 1..Len(Old) :
            Old[i].path \in Paths /\ (Old[i].path = op.from => i = op.entry)
      BY <2>2 DEF IInv, Paired, DistinctPaths, TypeOK
    <2>7. TypeOK' /\ Unused'
      BY <1>1, <1>4, <1>5, <2>5 DEF IInv, TypeOK, Unused
    <2>8. EditsKept'
      BY <1>1, <2>1, <2>3, <2>5, TreesAssumption DEF IInv, EditsKept, TypeOK
    <2>9. Paired' /\ Holding'
      BY <1>1, <1>2, <1>4, <1>5, <1>7, <2>2, <2>3, <2>5
         DEF IInv, Paired, DistinctPaths, Holding, Restoring, Midway
    <2>10. ~crashed => StandsFor(disk[op.from], op.version)
      BY <1>1, <2>2 DEF IInv, Backed
    <2>11. Truthful'
      BY <1>1, <1>4, <1>5, <2>1, <2>4, <2>5, <2>10
         DEF IInv, Truthful, InstalledTree, StandsFor, Restoring, Midway
    <2>12. Backed'
      BY <1>1, <1>4, <1>5, <1>7, <2>5, <2>6 DEF IInv, Backed, StandsFor, Restoring
    <2> QED BY <2>7, <2>8, <2>9, <2>11, <2>12 DEF IInv
  <1> QED BY <1>3, <1>6, <1>7 DEF Kinds

(* What is left of a command that has come to its end.                     *)
LEMMA Ended ==
  ASSUME op' = Idle
  PROVE  op'.at = "idle" /\ ~Restoring' /\ ~Midway'
  BY DEF Idle, Restoring, Midway

(* That move fails and the tree comes back.                                *)
LEMMA PlaceFailsKeeps ==
  ASSUME IInv, PlaceFails
  PROVE  IInv'
  <1>1. /\ op.at = "aside" /\ dest = Absent /\ op' = Idle
        /\ UNCHANGED <<drawn, record, made, crashed>>
    BY DEF PlaceFails, IInv, Holding
  <1>2. op # Idle
    BY <1>1 DEF Idle
  <1>3. Installed' = Installed /\ Old' = Old
    BY <1>1, SameList
  <1>4. CASE op.moved = Absent
    <2>1. dest' = dest /\ disk' = disk
      BY <1>4 DEF PlaceFails
    <2>2. TypeOK' /\ Unused' /\ EditsKept'
      BY <1>1, <1>3, <2>1 DEF IInv, TypeOK, Unused, EditsKept
    <2>3. Paired' /\ Holding'
      BY <1>1, <1>3, Ended DEF IInv, Paired, DistinctPaths, Holding, Midway
    <2>4. Truthful' /\ Backed'
      BY <1>1, <1>2, <1>3, <1>4, <2>1, Ended
         DEF IInv, Truthful, Backed, InstalledTree, StandsFor, Restoring, Midway
    <2> QED BY <2>2, <2>3, <2>4 DEF IInv
  <1>5. CASE op.moved # Absent
    <2>1. dest' = disk[op.moved] /\ disk' = [disk EXCEPT ![op.moved] = Absent]
      BY <1>1, <1>5 DEF PlaceFails
    <2>2. /\ op.moved \in drawn /\ op.moved \in Paths
          /\ \A i \in 1..Len(Old) : Old[i].path # op.moved /\ Old[i].path \in Paths
      BY <1>1, <1>5 DEF IInv, Holding, Midway, TypeOK, Paired
    <2>3. /\ disk' \in [Paths -> Trees \cup {Absent}]
          /\ \A q \in Paths : disk'[q] = IF q = op.moved THEN Absent ELSE disk[q]
          /\ dest' \in Trees \cup {Absent}
      BY <2>1, <2>2 DEF IInv, TypeOK
    <2>4. TypeOK' /\ Unused'
      BY <1>1, <1>3, <2>3 DEF IInv, TypeOK, Unused
    <2>5. EditsKept'
      BY <1>1, <2>1, <2>2, <2>3, TreesAssumption DEF IInv, EditsKept, TypeOK
    <2>6. Paired' /\ Holding'
      BY <1>1, <1>3, Ended DEF IInv, Paired, DistinctPaths, Holding, Midway
    <2>7. Truthful'
      BY <1>1, <1>3, <1>5, <2>1, Ended
         DEF IInv, Truthful, InstalledTree, StandsFor, Midway
    <2>8. Backed'
      BY <1>1, <1>3, <2>2, <2>3, Ended DEF IInv, Backed, StandsFor, Restoring
    <2> QED BY <2>4, <2>5, <2>6, <2>7, <2>8 DEF IInv
  <1> QED BY <1>4, <1>5

(* What a command that has placed its tree knows of the trees.             *)
LEMMA PlacedKnows ==
  ASSUME IInv, op.at = "placed"
  PROVE  /\ op # Idle /\ op \in Command
         /\ op.moved # Absent =>
              /\ op.moved \in drawn /\ op.moved \in Paths
              /\ \A i \in 1..Len(Old) : Old[i].path # op.moved
         /\ op.kind = "rollback" =>
              /\ op.entry \in 1..Len(Old) /\ op.from = Old[op.entry].path
              /\ op.version = Old[op.entry].version
              /\ op.from \in drawn /\ op.from \in Paths /\ op.from # op.moved
              /\ disk[op.from] = Absent
         /\ \A i \in 1..Len(Old) : Old[i].path \in drawn /\ Old[i].path \in Paths
  <1>1. op # Idle /\ Midway
    BY DEF Idle, Midway
  <1>2. op \in Command /\ op.from \in Paths \cup {Absent} /\ op.kind \in Kinds
    BY <1>1, NotIdle DEF IInv
  <1>3. \A i \in 1..Len(Old) : Old[i].path \in drawn /\ Old[i].path \in Paths
    BY DEF IInv, Paired, TypeOK
  <1>4. op.kind = "rollback" =>
          /\ op.entry \in 1..Len(Old) /\ op.from = Old[op.entry].path
          /\ op.version = Old[op.entry].version
          /\ op.from \in drawn /\ op.from \in Paths /\ disk[op.from] = Absent
    BY <1>1, <1>3 DEF IInv, Holding, Restoring
  <1>5. op.moved # Absent =>
          /\ op.moved \in drawn /\ op.moved \in Paths
          /\ \A i \in 1..Len(Old) : Old[i].path # op.moved
    BY <1>1 DEF IInv, Holding, TypeOK
  <1>6. op.kind = "rollback" => op.from # op.moved
    BY <1>4, <1>5, TreesAssumption
  <1> QED BY <1>1, <1>2, <1>3, <1>4, <1>5, <1>6

(* The state file cannot be written and both moves are undone.             *)
LEMMA WriteFailsKeeps ==
  ASSUME IInv, WriteFails
  PROVE  IInv'
  <1>1. /\ op.at = "placed" /\ op' = Idle
        /\ UNCHANGED <<drawn, record, made, crashed>>
    BY DEF WriteFails
  <1>2. /\ op # Idle /\ op \in Command /\ op.kind \in Kinds /\ op.version \in Versions
        /\ op.moved \in Paths \cup {Absent} /\ Midway
    BY <1>1, PlacedKnows, NotIdle DEF IInv, Midway
  <1>3. Installed' = Installed /\ Old' = Old
    BY <1>1, SameList
  <1> DEFINE back == IF op.moved = Absent THEN Absent ELSE disk[op.moved]
             After(q) == IF q = op.moved THEN Absent
                         ELSE IF op.kind = "rollback" /\ q = op.from THEN dest ELSE disk[q]
  <1>4. /\ disk' \in [Paths -> Trees \cup {Absent}]
        /\ \A q \in Paths : disk'[q] = After(q)
    <2> DEFINE returned == IF op.kind = "rollback" THEN [disk EXCEPT ![op.from] = dest] ELSE disk
    <2>1. /\ returned \in [Paths -> Trees \cup {Absent}]
          /\ \A q \in Paths : returned[q] =
               IF op.kind = "rollback" /\ q = op.from THEN dest ELSE disk[q]
      BY DEF IInv, TypeOK
    <2>2. disk' = IF op.moved # Absent THEN [returned EXCEPT ![op.moved] = Absent] ELSE returned
      BY DEF WriteFails
    <2> HIDE DEF returned
    <2> QED BY <1>2, <2>1, <2>2, TreesAssumption
  <1>5. dest' = back /\ dest' \in Trees \cup {Absent}
    BY <1>2 DEF WriteFails, IInv, TypeOK
  <1>6. TypeOK'
    BY <1>1, <1>3, <1>4, <1>5 DEF IInv, TypeOK
  <1>7. Unused'
    BY <1>1, <1>4, PlacedKnows DEF IInv, Unused
  <1>8. EditsKept'
    <2> SUFFICES ASSUME NEW e \in made
                 PROVE  dest' = e \/ \E p \in Paths : disk'[p] = e
      BY <1>1 DEF EditsKept
    <2>1. e \in Edits /\ e # Absent /\ e \notin Versions
      BY TreesAssumption DEF IInv, TypeOK
    <2>2. CASE dest = e
      <3>1. op.kind = "rollback"
        BY <1>1, <1>2, <2>1, <2>2 DEF IInv, Holding, Kinds
      <3> QED BY <1>1, <1>4, <2>2, <3>1, PlacedKnows
    <2>3. CASE dest # e
      <3>1. PICK p \in Paths : disk[p] = e
        BY <2>3 DEF IInv, EditsKept
      <3>2. CASE p = op.moved
        BY <1>5, <3>1, <3>2, TreesAssumption
      <3>3. CASE p # op.moved
        BY <1>1, <1>4, <2>1, <3>1, <3>3, PlacedKnows
      <3> QED BY <3>2, <3>3
    <2> QED BY <2>2, <2>3
  <1>9. Paired' /\ Holding'
    BY <1>1, <1>3, Ended DEF IInv, Paired, DistinctPaths, Holding, Midway
  <1>10. Truthful'
    BY <1>1, <1>2, <1>3, <1>5, Ended DEF IInv, Truthful, InstalledTree, StandsFor, Midway
  <1>11. Backed'
    <2> SUFFICES ASSUME ~crashed, NEW i \in 1..Len(Old)
                 PROVE  StandsFor(disk'[Old[i].path], Old[i].version)
      BY <1>1, <1>3 DEF Backed
    <2>1. Old[i].path \in Paths /\ Old[i].path # op.moved
      BY <1>1, PlacedKnows, TreesAssumption
    <2>2. CASE op.kind = "rollback" /\ Old[i].path = op.from
      <3>1. i = op.entry /\ op.version = Old[i].version
        BY <1>1, <2>2, PlacedKnows DEF IInv, Paired, DistinctPaths
      <3>2. StandsFor(dest, op.version)
        BY <1>1, <1>2, <2>2 DEF IInv, Truthful, Restoring
      <3> QED BY <1>4, <2>1, <2>2, <3>1, <3>2
    <2>3. CASE ~(op.kind = "rollback" /\ Old[i].path = op.from)
      <3>1. StandsFor(disk[Old[i].path], Old[i].version)
        BY <1>1, <2>3, PlacedKnows DEF IInv, Backed, Restoring
      <3> QED BY <1>4, <2>1, <2>3, <3>1
    <2> QED BY <2>2, <2>3
  <1> QED BY <1>6, <1>7, <1>8, <1>9, <1>10, <1>11 DEF IInv

(* The state write.                                                        *)
LEMMA WriteStateKeeps ==
  ASSUME IInv, WriteState
  PROVE  IInv'
  <1>1. op.at = "placed" /\ op' = Idle /\ UNCHANGED <<dest, disk, drawn, made, crashed>>
    BY DEF WriteState, trees
  <1>2. /\ op # Idle /\ op \in Command /\ op.kind \in Kinds /\ op.version \in Versions
        /\ op.moved \in Paths \cup {Absent} /\ Midway /\ op.clean \in BOOLEAN
    BY <1>1, PlacedKnows, NotIdle DEF IInv, Midway
  <1>3. Unused' /\ EditsKept' /\ Holding'
    BY <1>1, Ended DEF IInv, Unused, EditsKept, Holding, Midway
  <1>4. CASE op.kind = "uninstall"
    <2>1. record' = NoRecord /\ ~Installed' /\ Old' = <<>>
      BY <1>4 DEF WriteState, Installed, Old
    <2>2. TypeOK'
      BY <1>1, <2>1 DEF IInv, TypeOK
    <2>3. Paired' /\ Backed'
      BY <2>1 DEF Paired, DistinctPaths, Backed
    <2>4. dest' = Absent /\ Absent \notin Versions
      BY <1>1, <1>4, TreesAssumption DEF IInv, Holding
    <2>5. Truthful'
      BY <1>1, <2>1, <2>4, Ended DEF Truthful, InstalledTree
    <2> QED BY <1>3, <2>2, <2>3, <2>5 DEF IInv
  <1>5. CASE op.kind # "uninstall"
    <2>1. PICK new : new = Newest(Remaining(Old) \o Listed)
      OBVIOUS
    <2>2. record' = [version |-> op.version, backups |-> new]
      BY <1>5, <2>1 DEF WriteState
    <2> DEFINE gone == IF op.kind = "rollback" THEN op.entry ELSE 0
    <2>3. /\ new \in Seq(Backup) /\ Len(new) <= KeptBackups /\ DistinctPaths(new)
          /\ \A k \in 1..Len(new) :
               \/ /\ op.moved # Absent /\ Installed
                  /\ new[k].path = op.moved /\ new[k].version = record.version
               \/ \E j \in 1..Len(Old) : j # gone /\ new[k] = Old[j]
      <3>1. Old \in Seq(Backup) /\ DistinctPaths(Old) /\ gone \in 1..Len(Old) \cup {0}
        BY <1>1, ListTyped, PlacedKnows DEF IInv, Paired
      <3>2. Remaining(Old) = IF gone = 0 THEN Old ELSE RemoveAt(Old, gone)
        BY <1>1, PlacedKnows DEF Remaining
      <3> HIDE DEF gone
      <3>3. PICK added : added = Listed
        OBVIOUS
      <3>4. added = <<>> \/ \E b \in Backup :
              /\ added = <<b>> /\ \A j \in 1..Len(Old) : Old[j].path # b.path
              /\ op.moved # Absent /\ Installed
              /\ b.path = op.moved /\ b.version = record.version
        <4> SUFFICES ASSUME added # <<>>
                     PROVE  \E b \in Backup :
                              /\ added = <<b>> /\ \A j \in 1..Len(Old) : Old[j].path # b.path
                              /\ op.moved # Absent /\ Installed
                              /\ b.path = op.moved /\ b.version = record.version
          OBVIOUS
        <4>1. PICK b : b = [version |-> record.version, path |-> op.moved]
          OBVIOUS
        <4>2. op.moved # Absent /\ Installed /\ added = <<b>>
          BY <3>3, <4>1 DEF Listed
        <4>3. b \in Backup /\ b.path = op.moved /\ b.version = record.version
          BY <1>2, <4>1, <4>2 DEF Backup, IInv, TypeOK, Installed, Record
        <4>4. \A j \in 1..Len(Old) : Old[j].path # b.path
          BY <1>1, <4>2, <4>3, PlacedKnows
        <4> QED BY <4>2, <4>3, <4>4
      <3>5. /\ new \in Seq(Backup) /\ Len(new) <= KeptBackups /\ DistinctPaths(new)
            /\ \A k \in 1..Len(new) :
                 \/ added = <<new[k]>>
                 \/ \E j \in 1..Len(Old) : j # gone /\ new[k] = Old[j]
        BY <2>1, <3>1, <3>2, <3>3, <3>4, Relisted
      <3>6. \A k \in 1..Len(new) : added = <<new[k]>> =>
              /\ op.moved # Absent /\ Installed
              /\ new[k].path = op.moved /\ new[k].version = record.version
        BY <3>4
      <3> QED BY <3>5, <3>6
    <2>4. Installed' /\ Old' = new /\ record' \in Record /\ record'.version = op.version
          /\ record'.backups = new
      BY <1>2, <2>2, <2>3, NoRecordAssumption DEF Installed, Old, Record, Backup
    <2>5. TypeOK'
      BY <1>1, <2>3, <2>4 DEF IInv, TypeOK
    <2>6. Paired'
      BY <1>1, <2>3, <2>4, PlacedKnows DEF Paired
    <2>7. Truthful'
      BY <1>1, <1>2, <1>5, <2>4, Ended, TreesAssumption
         DEF IInv, Holding, Truthful, InstalledTree, StandsFor, Restoring, Kinds
    <2>8. Backed'
      BY <1>1, <1>2, <2>3, <2>4
         DEF IInv, Backed, Truthful, InstalledTree, StandsFor, Restoring
    <2> QED BY <1>3, <2>5, <2>6, <2>7, <2>8 DEF IInv
  <1> QED BY <1>4, <1>5

-----------------------------------------------------------------------------
(* Commands that stop on the way, and the user.                            *)

(* A command that ends before it moved anything.                           *)
LEMMA GiveUpKeeps ==
  ASSUME IInv, GiveUp
  PROVE  IInv'
  <1>1. op.at = "checked" /\ op' = Idle /\ UNCHANGED <<dest, disk, drawn, record, made, crashed>>
    BY DEF GiveUp, trees
  <1>2. Installed' = Installed /\ Old' = Old
    BY <1>1, SameList
  <1>3. TypeOK' /\ Unused' /\ EditsKept'
    BY <1>1, <1>2 DEF IInv, TypeOK, Unused, EditsKept
  <1>4. Paired' /\ Holding'
    BY <1>1, <1>2, Ended DEF IInv, Paired, DistinctPaths, Holding, Midway
  <1>5. Truthful' /\ Backed'
    BY <1>1, <1>2, Ended DEF IInv, Truthful, Backed, InstalledTree, StandsFor, Restoring, Midway
  <1> QED BY <1>3, <1>4, <1>5 DEF IInv

(* A kill undoes nothing.                                                  *)
LEMMA KilledKeeps ==
  ASSUME IInv, Killed
  PROVE  IInv'
  <1>1. op' = Idle /\ crashed' = TRUE /\ UNCHANGED <<dest, disk, drawn, record, made>>
    BY DEF Killed, trees
  <1>2. Installed' = Installed /\ Old' = Old
    BY <1>1, SameList
  <1>3. TypeOK' /\ Unused' /\ EditsKept'
    BY <1>1, <1>2 DEF IInv, TypeOK, Unused, EditsKept
  <1>4. Paired' /\ Holding'
    BY <1>1, <1>2, Ended DEF IInv, Paired, DistinctPaths, Holding, Midway
  <1>5. Truthful' /\ Backed'
    BY <1>1 DEF Truthful, Backed
  <1> QED BY <1>3, <1>4, <1>5 DEF IInv

(* The user edits the installed tree.                                      *)
LEMMA EditKeeps ==
  ASSUME IInv, NEW e \in Edits, Edit(e)
  PROVE  IInv'
  <1>1. /\ dest' = e /\ made' = (made \ {dest}) \cup {e}
        /\ UNCHANGED <<disk, drawn, record, op, crashed>>
        /\ op.at # "placed"
    BY DEF Edit
  <1>2. e \in Trees /\ e # Absent /\ e \notin Versions
    BY TreesAssumption DEF Trees
  <1>3. dest # Absent \/ (~Installed /\ op = Idle)
    BY DEF Edit, Installed
  <1>4. Installed' = Installed /\ Old' = Old
    BY <1>1, SameList
  <1>5. op.at # "aside"
    BY <1>3 DEF IInv, Holding, Idle
  <1>6. TypeOK' /\ Unused' /\ EditsKept'
    BY <1>1, <1>2, <1>4 DEF IInv, TypeOK, Unused, EditsKept
  <1>7. Paired' /\ Holding'
    BY <1>1, <1>4, <1>5 DEF IInv, Paired, DistinctPaths, Holding, Restoring, Midway
  <1>8. Truthful' /\ Backed'
    BY <1>1, <1>2, <1>4, <1>5
       DEF IInv, Truthful, Backed, InstalledTree, StandsFor, Restoring, Midway
  <1> QED BY <1>6, <1>7, <1>8 DEF IInv

(* Every step of the client and of the user keeps the invariant.           *)
LEMMA StepKeeps ==
  ASSUME IInv, [Next]_vars
  PROVE  IInv'
  <1>1. CASE UNCHANGED vars
    <2>1. Installed' = Installed /\ Old' = Old
      BY <1>1, SameList DEF vars
    <2> QED BY <1>1, <2>1 DEF vars, IInv, TypeOK, Unused, Paired, DistinctPaths, Holding,
               Truthful, Backed, EditsKept, InstalledTree, StandsFor, Restoring, Midway
  <1> QED BY <1>1, CommandsKeep, SetAsideKeeps, PlaceKeeps, WriteStateKeeps, PlaceFailsKeeps,
             WriteFailsKeeps, GiveUpKeeps, KilledKeeps, EditKeeps DEF Next

-----------------------------------------------------------------------------
(* Every tree is where its entry or the running command says, and edits    *)
(* are kept.                                                               *)
THEOREM Invariance == Spec => []IInv
  <1>1. Init => IInv
    <2> SUFFICES ASSUME Init PROVE IInv
      OBVIOUS
    <2>1. ~Installed /\ Old = <<>> /\ op.at = "idle" /\ ~Restoring /\ ~Midway /\ op = Idle
      BY DEF Init, Installed, Old, Idle, Restoring, Midway
    <2>2. TypeOK /\ Unused /\ EditsKept
      BY <2>1 DEF Init, TypeOK, Unused, EditsKept
    <2>3. Paired /\ Holding /\ Backed
      BY <2>1 DEF Paired, DistinctPaths, Holding, Backed
    <2>4. Truthful
      BY <2>1, TreesAssumption DEF Init, Truthful, InstalledTree
    <2> QED BY <2>2, <2>3, <2>4 DEF IInv
  <1>2. IInv /\ [Next]_vars => IInv'
    BY StepKeeps
  <1> QED BY <1>1, <1>2, PTL DEF Spec

(* Every variable has its type, for any versions, edits and paths.         *)
THEOREM TypeCorrect == Spec => []TypeOK
  <1>1. IInv => TypeOK
    BY DEF IInv
  <1> QED BY <1>1, Invariance, PTL

(* What the user made is at the destination or at a backup path, whatever  *)
(* was forced, failed or was killed.                                       *)
THEOREM NoEditLost == Spec => []EditsKept
  <1>1. IInv => EditsKept
    BY DEF IInv
  <1> QED BY <1>1, Invariance, PTL

(* Unless a command was killed, the state file and the installed tree      *)
(* agree once a command has returned.                                      *)
THEOREM StateTruthful == Spec => []StateIsTruthful
  <1>1. IInv => StateIsTruthful
    <2> SUFFICES ASSUME IInv, op = Idle, ~crashed
                 PROVE  /\ dest \in Versions => Installed /\ record.version = dest
                        /\ Installed => dest # Absent
      BY DEF StateIsTruthful
    <2>1. InstalledTree(dest)
      BY DEF IInv, Truthful, Idle
    <2> QED BY <2>1 DEF InstalledTree, StandsFor
  <1> QED BY <1>1, Invariance, PTL

(* Every backup the state file lists is there, under a path of its own.    *)
THEOREM BackupsThere == Spec => []BackupsExist
  <1>1. IInv => BackupsExist
    <2> SUFFICES ASSUME IInv, Installed, op = Idle, ~crashed
                 PROVE  \A i, j \in 1..Len(record.backups) :
                          /\ disk[record.backups[i].path] # Absent
                          /\ record.backups[i].path = record.backups[j].path => i = j
      BY DEF BackupsExist
    <2>1. Old = record.backups /\ ~Restoring
      BY DEF Old, Restoring
    <2>2. \A i \in 1..Len(Old) : disk[Old[i].path] # Absent
      BY <2>1 DEF IInv, Backed, StandsFor
    <2> QED BY <2>1, <2>2 DEF IInv, Paired, DistinctPaths
  <1> QED BY <1>1, Invariance, PTL
=============================================================================
