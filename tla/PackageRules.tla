------------------------------ MODULE PackageRules ------------------------------
(***************************************************************************)
(* What a skill package must look like, in the eyes of everyone who looks  *)
(* at it: the scanner that accepts it and writes its manifest, the script  *)
(* that publishes it, and the client that extracts it and compares the     *)
(* tree with the manifest.                                                 *)
(*                                                                         *)
(* A package is the sequence of its ZIP entries.  A path is the sequence   *)
(* of its components; a component that no path may have (empty, a dot, two *)
(* dots, with a backslash, a control character or a drive) is Unsafe.      *)
(* Contents are what the rules tell apart.                                 *)
(***************************************************************************)
EXTENDS Naturals, Sequences, SequencesExt

CONSTANTS
  Fold,       \* component -> its NFC form, case folded
  Unsafe,     \* components that no path may have
  MaxEntries  \* max_files

Names == DOMAIN Fold
LicenseNames == {"license", "license.md", "license.txt",
                 "copying", "copying.md", "copying.txt"}

(* skill: frontmatter with this skill's name, a description and a license; *)
(* unlicensed: without the license; text: anything else.                   *)
Contents == {"skill", "unlicensed", "license", "blank", "secret", "text"}

(* type: the file type in the Unix mode; oversized: beyond a limit on size *)
(* or compression, or a directory with data; readable: the mode lets the   *)
(* owner read, or there is none.                                           *)
Entry == [path : Seq(Names), dir : BOOLEAN, type : {"none", "file", "dir", "link"},
          encrypted : BOOLEAN, oversized : BOOLEAN, readable : BOOLEAN,
          content : Contents]

-----------------------------------------------------------------------------
(* The scanner: _validate_archive_structure.                               *)

(* An absolute path begins with an empty component.                        *)
SafePath(path) == path # <<>> /\ \A i \in DOMAIN path : path[i] \notin Unsafe

Folded(path) == [i \in DOMAIN path |-> Fold[path[i]]]

SoundEntry(e) ==
  /\ SafePath(e.path)
  /\ e.type # "link"
  /\ e.type # "none" => (e.type = "dir" <=> e.dir)
  /\ ~e.encrypted /\ ~e.oversized

NoCollision(p) ==
  \A i, j \in DOMAIN p : Folded(p[i].path) = Folded(p[j].path) => i = j

Files(p) == {e \in ToSet(p) : ~e.dir}

(* No file is the directory of another one.                                *)
NoFileAbove(p) ==
  \A e, f \in Files(p) : ~IsStrictPrefix(Folded(e.path), Folded(f.path))

Inside(root, path) == path = root \/ IsStrictPrefix(root, path)

(* The package root: the archive's, or that of its one wrapper directory.  *)
IsRoot(p, root) ==
  /\ \E e \in Files(p) : e.path = Append(root, "SKILL.md")
  /\ \A e \in ToSet(p) : Inside(root, e.path)
Roots(p) ==
  IF IsRoot(p, <<>>) THEN {<<>>}
  ELSE {<<n>> : n \in {m \in Names : IsRoot(p, <<m>>)}}

StructureSound(p) ==
  /\ Len(p) \in 1..MaxEntries
  /\ \A e \in ToSet(p) : SoundEntry(e)
  /\ NoCollision(p) /\ NoFileAbove(p)
  /\ Roots(p) # {}

Relative(p, e) ==
  LET root == CHOOSE r \in Roots(p) : TRUE
  IN SubSeq(e.path, Len(root) + 1, Len(e.path))

(* The files of the manifest; a digest stands for the content.             *)
Manifest(p) == {[path |-> Relative(p, e), content |-> e.content] : e \in Files(p)}

-----------------------------------------------------------------------------
(* The scanner: contents.                                                  *)

NoSecret(p) == \A e \in Files(p) : e.content # "secret"

LicenseFiles(p) ==
  {f \in Manifest(p) : Len(f.path) = 1 /\ Fold[f.path[1]] \in LicenseNames}

(* A license is declared, or there is a file that is not blank.            *)
Licensed(p) ==
  LET usable == {f \in LicenseFiles(p) : f.content # "blank"}
  IN /\ LicenseFiles(p) # {} => usable # {}
     /\ usable # {} \/ [path |-> <<"SKILL.md">>, content |-> "skill"] \in Manifest(p)

HasFrontmatter(p) ==
  \E f \in Manifest(p) : f.path = <<"SKILL.md">> /\ f.content \in {"skill", "unlicensed"}

Accepted(p) == StructureSound(p) /\ NoSecret(p) /\ HasFrontmatter(p) /\ Licensed(p)

-----------------------------------------------------------------------------
(* The publishing script: _frontmatter, before the scanner has a look.     *)

(* Mutant: the script leaves the layout to the scanner.                    *)
AtTop_AnyLayout(p) == HasFrontmatter(p)

(* SKILL.md and a license file are in the archive's root.                  *)
AtTop(p) ==
  /\ \E e \in Files(p) : e.path = <<"SKILL.md">> /\ e.content = "skill"
  /\ \E e \in Files(p) : Len(e.path) = 1 /\ Fold[e.path[1]] \in {"license", "license.md", "license.txt"}

-----------------------------------------------------------------------------
(* The client: safe_extract_zip and verify_extracted_files.                *)

(* What the file system takes two paths for; it may fold case.             *)
Seen(path, folding) == IF folding THEN Folded(path) ELSE path

(* Extraction runs to its end: no entry is twice there, and none is at or  *)
(* below a file.  (What the client tests of a path is less than SafePath;  *)
(* the scanner has refused the rest.)                                      *)
Extracts(p, folding) ==
  /\ \A i, j \in DOMAIN p : p[i].path = p[j].path => i = j
  /\ \A e \in ToSet(p) : SafePath(e.path) /\ e.type # "link" /\ ~e.encrypted
  /\ \A e \in Files(p), f \in ToSet(p) :
       IsPrefix(Seen(e.path, folding), Seen(f.path, folding)) =>
         ~f.dir /\ Seen(e.path, folding) = Seen(f.path, folding)

(* Where names are folded a directory has one of its spellings.            *)
Spelling(p, path, k) ==
  LET i == CHOOSE j \in DOMAIN p : IsPrefix(Folded(SubSeq(path, 1, k)), Folded(p[j].path))
  IN p[i].path[k]
OnDisk(p, path, folding) ==
  IF folding THEN [k \in DOMAIN path |-> Spelling(p, path, k)] ELSE path

(* A later entry that lands on a file that is there replaces its content.  *)
IsLast(p, i, folding) ==
  \A j \in DOMAIN p :
    j > i /\ ~p[j].dir => Seen(p[j].path, folding) # Seen(p[i].path, folding)
Extracted(p, folding) ==
  {[path |-> OnDisk(p, p[i].path, folding), content |-> p[i].content] :
     i \in {j \in DOMAIN p : ~p[j].dir /\ IsLast(p, j, folding)}}

Readable(p) == \A e \in Files(p) : e.readable

(* validate_manifest on the files, and verify_extracted_files.             *)
Installs(p, manifest, folding) ==
  /\ Extracts(p, folding)
  /\ \E f \in manifest : f.path = <<"SKILL.md">>
  /\ Readable(p)
  /\ Extracted(p, folding) = manifest

-----------------------------------------------------------------------------
(* What the client needs and nobody checks before.                         *)

(* _detect_file_directory_conflicts compares files with files: an entry    *)
(* for a directory below a file passes.                                    *)
NoDirectoryBelowFile(p) ==
  \A e \in Files(p), d \in ToSet(p) \ Files(p) :
    ~IsStrictPrefix(Folded(e.path), Folded(d.path))

(* Whole paths are compared: two spellings of one directory pass.          *)
OneSpelling(p) ==
  \A e, f \in ToSet(p) : \A k \in DOMAIN e.path \cap DOMAIN f.path :
    \/ Folded(SubSeq(e.path, 1, k)) # Folded(SubSeq(f.path, 1, k))
    \/ SubSeq(e.path, 1, k) = SubSeq(f.path, 1, k)

Extractable(p, folding) ==
  /\ Readable(p)
  /\ NoDirectoryBelowFile(p)
  /\ folding => OneSpelling(p)
=============================================================================
