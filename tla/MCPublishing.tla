---------------------------- MODULE MCPublishing ----------------------------
(* Finite instances of Publishing.                                          *)
EXTENDS Publishing, TLC

(* a-b/c and a/b-c have one Idempotency-Key.                                *)
Left  == [namespace |-> <<"a", "b">>, name |-> <<"c">>]
Right == [namespace |-> <<"a">>, name |-> <<"b", "c">>]
(* Beside Left in its namespace; the script never runs for it.              *)
Other == [namespace |-> <<"a", "b">>, name |-> <<"d">>]
MCSkills == {Left, Right, Other}
MCJobs == {[skill |-> k, version |-> "1.0.0", description |-> "d1"] : k \in {Left, Right}}

MCFold == [n \in {"SKILL.md", "LICENSE", "Docs", "docs", "a", "b", "top", ".."} |->
             CASE n = "SKILL.md" -> "skill.md"
               [] n = "LICENSE" -> "license"
               [] n = "Docs" -> "docs"
               [] OTHER -> n]
MCUnsafe == {".."}

File(path, content) ==
  [path |-> path, dir |-> FALSE, type |-> "none", encrypted |-> FALSE,
   oversized |-> FALSE, readable |-> TRUE, content |-> content]
Dir(path) == [File(path, "text") EXCEPT !.dir = TRUE, !.type = "dir"]

Doc == File(<<"SKILL.md">>, "skill")
License == File(<<"LICENSE">>, "license")
Plain == <<Doc, License>>
Under(root, p) == [i \in DOMAIN p |-> [p[i] EXCEPT !.path = <<root>> \o @]]
Wrapped == Under("top", Plain)

(* What one more entry, or one entry that is different, makes of a package. *)
Extra == {File(path, c) : path \in {<<"a">>, <<"Docs">>, <<"docs", "a">>, <<"Docs", "a">>,
                                    <<"Docs", "b">>, <<"docs">>, <<"..", "a">>},
                          c \in {"text", "secret"}}
         \cup {Dir(<<"docs">>), Dir(<<"Docs">>), Dir(<<"a", "b">>), Dir(<<"docs", "a">>)}
Odd == {[File(<<"a">>, "text") EXCEPT !.type = "link"],
        [File(<<"a">>, "text") EXCEPT !.type = "dir"],
        [File(<<"a">>, "text") EXCEPT !.encrypted = TRUE],
        [File(<<"a">>, "text") EXCEPT !.oversized = TRUE],
        [File(<<"a">>, "text") EXCEPT !.readable = FALSE]}
Bases == {Plain, Wrapped, <<Doc>>, <<License>>, <<>>,
          <<[Doc EXCEPT !.content = "unlicensed"], License>>,
          <<Doc, [License EXCEPT !.content = "blank"]>>,
          Plain \o Wrapped}
Small == Bases \cup {Append(p, e) : p \in {Plain, Wrapped}, e \in Extra \cup Odd}
         \cup {Plain \o <<e, f>> : e, f \in Extra}

(* Every package that is accepted and has no wrapper can be installed if it *)
(* can be extracted; each condition is needed and the cases are there.      *)
ASSUME \A p \in Small, folding \in BOOLEAN :
         Accepted(p) /\ IsRoot(p, <<>>) /\ Extractable(p, folding)
           => Installs(p, Manifest(p), folding)
ASSUME \A folding \in BOOLEAN :
         \E p \in Small : /\ Accepted(p) /\ IsRoot(p, <<>>) /\ Readable(p)
                         /\ ~Installs(p, Manifest(p), folding)
ASSUME \E p \in Small : /\ Accepted(p) /\ ~OneSpelling(p) /\ Readable(p)
                        /\ Installs(p, Manifest(p), FALSE)
                        /\ ~Installs(p, Manifest(p), TRUE)
ASSUME Accepted(Wrapped) /\ ~Installs(Wrapped, Manifest(Wrapped), FALSE)

(* A package the script lets through, one that installs nowhere although    *)
(* the server accepts it, and one that nobody accepts: the file as it is    *)
(* and as it is rebuilt.                                                    *)
Unlicensed == <<[Doc EXCEPT !.content = "unlicensed"]>>
ASSUME ~Accepted(Unlicensed)
MCPackages == {Plain, Wrapped, Unlicensed}

(* Runs of the script and requests are interchangeable.                     *)
Symmetry == Permutations(Scripts) \cup Permutations(Sessions)

(* A bound: while a skill is being created there are no releases, and the   *)
(* script is run for one package only; later there is one release at a time.*)
(* Two runs do not read their files at once: reading touches nothing else.  *)
OneThingAtATime ==
  LET busy == {r \in Releases : releases[r] # NoRelease}
      reading == {x \in Scripts : script[x].at \in {"read", "scanned"}}
  IN /\ \A x, y \in reading : x = y
     /\ \/ /\ \A s \in Sessions : create[s] = Free
           /\ \A q, r \in busy : q = r /\ r.skill # Other
        \/ /\ busy = {}
           /\ \A x \in reading : script[x].top = Plain
           /\ \A x \in Scripts \ reading :
                At(x, "idle") \/ (script[x].sha = Plain /\ script[x].steady)
=============================================================================
