---------------------------- MODULE PackageGraph ----------------------------
(***************************************************************************)
(* Packages and their lock (package.rs).  A command resolves the graph of  *)
(* packages from their manifests, depth first; `disp lock` then writes the *)
(* lock file, and loading a project verifies that the graph still renders  *)
(* to it.  Files change between commands, not during one.                  *)
(*                                                                         *)
(* A digest is the canonical text it is taken of.  The dependencies of a   *)
(* manifest are in the order of their aliases; an alias is its position.   *)
(***************************************************************************)
EXTENDS Integers, Sequences, FiniteSets, FiniteSetsExt, SequencesExt

CONSTANTS Trees,                 \* the files of each package, at first
          Main,                  \* the package of the project
          Absent,                \* a path that leads to no package
          Contents,              \* what a source file may change to
          Changes,               \* dependencies a manifest may change to
          MaxEdits, MaxCommands, \* bounds: changes of files, commands
          MAX_PACKAGES, MAX_DEPENDENCY_DEPTH, MAX_PACKAGE_FILES

VARIABLES tree,      \* the files of each package
          command,   \* "idle", "lock" or "verify"
          resolver,  \* Resolver
          lock,      \* the lock file
          locked,    \* history: the files that the lock file was written for
          outcome,   \* what the last command reported
          used       \* how many edits and commands there were

vars == <<tree, command, resolver, lock, locked, outcome, used>>

\* No lock file, and no files it was written for.
None == <<>>
Manifest == "DISP.toml"
\* Files in directories called build, target and .git.
SkippedFiles == {"build/gen.disp"}

Content(text, crlf) == [text |-> text, crlf |-> crlf]
canonical_text(content) == content.text
parse_manifest(p) == tree[p][Manifest].text
Hashed(p) == DOMAIN tree[p] \ SkippedFiles

\* A fault: the digest of a dependency is that of its manifest.
hash_manifest(p) == [f \in {Manifest} |-> canonical_text(tree[p][f])]

hash_package(p) == [f \in Hashed(p) |-> canonical_text(tree[p][f])]

-----------------------------------------------------------------------------
(* Resolver                                                                 *)

\* visits also gives the identity, as Resolver.paths does, and Resolver.identities
\* backwards: the three change together.
Resolver == [visits |-> <<>>, stack |-> <<>>, packages |-> <<>>, refused |-> "no"]
Refuse(r, reason) == [r EXCEPT !.refused = reason]
Push(r, p) == [r EXCEPT !.visits = (p :> [complete |-> FALSE, id |-> parse_manifest(p).id]) @@ @,
                        !.stack = Append(@, [root |-> p, dependencies |-> <<>>])]

\* The identity goes to the package that asked.
Answer(r, id) ==
    IF r.stack = <<>> THEN r
    ELSE [r EXCEPT !.stack = Append(Front(@), [Last(@) EXCEPT !.dependencies = Append(@, id)])]

\* Resolver::visit up to its dependencies.
visit(r, p) ==
    IF p = Absent THEN Refuse(r, "missing")
    ELSE IF p \in DOMAIN r.visits
         THEN IF r.visits[p].complete THEN Answer(r, r.visits[p].id) ELSE Refuse(r, "cycle")
    ELSE IF Cardinality(DOMAIN r.visits) >= MAX_PACKAGES THEN Refuse(r, "packages")
    ELSE IF Len(r.stack) >= MAX_DEPENDENCY_DEPTH THEN Refuse(r, "depth")
    ELSE IF \E q \in DOMAIN r.visits : r.visits[q].id = parse_manifest(p).id THEN Refuse(r, "identity")
    ELSE Push(r, p)

\* Resolver::visit after its dependencies.
Complete(r) ==
    LET frame == Last(r.stack)
        p == frame.root
        id == parse_manifest(p).id
        package == [root |-> p, dependencies |-> frame.dependencies,
                    digest |-> IF p = Main THEN hash_manifest(p) ELSE hash_package(p)]
    IN IF p # Main /\ Cardinality(Hashed(p)) > MAX_PACKAGE_FILES THEN Refuse(r, "files")
       ELSE Answer([r EXCEPT !.stack = Front(@), !.visits[p].complete = TRUE,
                             !.packages = (id :> package) @@ @], id)

\* The graph as the lock file says it.
render(r) == [root |-> parse_manifest(Main).id, manifest |-> hash_manifest(Main), packages |-> r.packages]
has_dependencies(r) == Cardinality(DOMAIN r.packages) > 1 \/ parse_manifest(Main).dependencies # <<>>

-----------------------------------------------------------------------------
(* The commands                                                             *)

Init ==
    /\ tree \in Trees
    /\ command = "idle" /\ resolver = Resolver /\ lock = None /\ locked = None /\ outcome = "none" /\ used = [edits |-> 0, commands |-> 0]

Begin(name) ==
    /\ command = "idle" /\ used.commands < MaxCommands
    /\ used' = [used EXCEPT !.commands = @ + 1]
    /\ command' = name /\ resolver' = visit(Resolver, Main) /\ outcome' = "none"
    /\ UNCHANGED <<tree, lock, locked>>

Resolving == command # "idle" /\ resolver.refused = "no" /\ resolver.stack # <<>>
Asked == Len(Last(resolver.stack).dependencies)
Dependencies == parse_manifest(Last(resolver.stack).root).dependencies

VisitDependency ==
    /\ Resolving /\ Asked < Len(Dependencies)
    /\ resolver' = visit(resolver, Dependencies[Asked + 1])
    /\ UNCHANGED <<tree, command, lock, locked, outcome, used>>

CompletePackage ==
    /\ Resolving /\ Asked = Len(Dependencies)
    /\ resolver' = Complete(resolver)
    /\ UNCHANGED <<tree, command, lock, locked, outcome, used>>

Refused ==
    /\ command # "idle" /\ resolver.refused # "no"
    /\ command' = "idle" /\ outcome' = resolver.refused
    /\ UNCHANGED <<tree, resolver, lock, locked, used>>

Resolved == command # "idle" /\ resolver.refused = "no" /\ resolver.stack = <<>>

\* write_lock.  transactional_write (FileTransaction has its steps) leaves the
\* new file, the old one, or, if it fails or stops between its renames, none;
\* it also fails if the backup cannot be removed.
WriteLock ==
    /\ Resolved /\ command = "lock"
    /\ \/ lock' = <<render(resolver)>> /\ locked' = <<tree>> /\ outcome' \in {"written", "failed"}
       \/ lock' = lock /\ locked' = locked /\ outcome' = "failed"
       \/ lock' = None /\ locked' = None /\ outcome' = "failed"
    /\ command' = "idle"
    /\ UNCHANGED <<tree, resolver, used>>

Verify ==
    /\ Resolved /\ command = "verify"
    /\ outcome' = IF lock = None THEN IF has_dependencies(resolver) THEN "unlocked" ELSE "accepted"
                  ELSE IF lock = <<render(resolver)>> THEN "accepted" ELSE "mismatch"
    /\ command' = "idle"
    /\ UNCHANGED <<tree, resolver, lock, locked, used>>

\* What changes before the first command is a choice of Trees.
Put(p, file, content) ==
    /\ command = "idle" /\ used.commands > 0 /\ used.edits < MaxEdits
    /\ tree' = [tree EXCEPT ![p] = (file :> content) @@ @]
    /\ used' = [used EXCEPT !.edits = @ + 1] /\ outcome' = "none"
    /\ UNCHANGED <<command, resolver, lock, locked>>

Edit(p) ==
    \/ \E file \in {"lib.disp", "extra.disp"} \union SkippedFiles, content \in Contents :
         Put(p, file, content)
    \/ \E dependencies \in Changes :
         Put(p, Manifest, Content([parse_manifest(p) EXCEPT !.dependencies = dependencies], FALSE))

Next ==
    \/ \E name \in {"lock", "verify"} : Begin(name)
    \/ VisitDependency \/ CompletePackage \/ Refused \/ WriteLock \/ Verify
    \/ \E p \in DOMAIN tree : Edit(p)

Spec == Init /\ [][Next]_vars

-----------------------------------------------------------------------------
(* PackageGraph::tree                                                       *)

RECURSIVE walk(_, _, _, _)
walk(acc, packages, id, depth) ==
    LET shown == [acc EXCEPT !.output = Append(@, [depth |-> depth, id |-> id])]
    IN IF id \in acc.expanded THEN shown
       ELSE FoldLeft(LAMBDA a, d : walk(a, packages, d, depth + 1),
                     [shown EXCEPT !.expanded = @ \union {id}], packages[id].dependencies)
Tree(r) == walk([output |-> <<>>, expanded |-> {}], r.packages, parse_manifest(Main).id, 0).output

-----------------------------------------------------------------------------
(* Properties                                                               *)

TypeOK ==
    /\ command \in {"idle", "lock", "verify"} /\ used.edits \in 0 .. MaxEdits /\ used.commands \in 0 .. MaxCommands
    /\ resolver.refused \in {"no", "missing", "cycle", "packages", "depth", "identity", "files"}
    /\ Len(resolver.stack) <= MAX_DEPENDENCY_DEPTH
    /\ {resolver.stack[i].root : i \in DOMAIN resolver.stack} =
          {p \in DOMAIN resolver.visits : ~resolver.visits[p].complete}
    /\ (lock = None) = (locked = None)

\* Reference: the packages that dependencies lead to, and those they lead to.
DependsOn(p) == IF p = Absent THEN {} ELSE ToSet(parse_manifest(p).dependencies)
RECURSIVE Closure(_)
Closure(set) == LET more == set \union UNION {DependsOn(p) : p \in set} IN IF more = set THEN set ELSE Closure(more)
Reached == Closure({Main})
Cyclic == \E p \in Reached : p \in Closure(DependsOn(p))
Links == MapThenSumSet(LAMBDA p : Len(parse_manifest(p).dependencies), Reached)
Shared == \E p, q \in Reached \ {Absent} : p # q /\ parse_manifest(p).id = parse_manifest(q).id

(* tests/packages.rs, "package_cycles_are_rejected", "duplicate_package_-   *)
(* identities_from_different_sources_are_rejected": the resolved graph is   *)
(* the reachable packages, acyclic, each under an identity of its own, and  *)
(* no graph is refused for a fault it does not have.  The tree shows every  *)
(* dependency of every package exactly once.                                *)
GraphExact ==
    /\ Resolved =>
         /\ Absent \notin Reached /\ ~Cyclic /\ ~Shared
         /\ {resolver.packages[id].root : id \in DOMAIN resolver.packages} = Reached
         /\ \A id \in DOMAIN resolver.packages :
              LET package == resolver.packages[id]
                  names == parse_manifest(package.root).dependencies
              IN package.dependencies = [i \in DOMAIN names |-> parse_manifest(names[i]).id]
         /\ Len(Tree(resolver)) = 1 + Links
    /\ resolver.refused = "missing" /\ command # "idle" => Absent \in Reached
    /\ resolver.refused = "cycle" /\ command # "idle" => Cyclic
    /\ resolver.refused = "identity" /\ command # "idle" => Shared
    /\ resolver.refused = "packages" /\ command # "idle" => Cardinality(Reached) > MAX_PACKAGES
    /\ resolver.refused = "files" /\ command # "idle" =>
         \E p \in Reached \ {Absent} : Cardinality(Hashed(p)) > MAX_PACKAGE_FILES

(* "lockfile does not match the package manifests or dependency contents":  *)
(* a lock is accepted exactly if the manifest of the project, and every     *)
(* file that is hashed of every package it depends on, say what they said   *)
(* when the lock was written, line endings apart; without a lock only a     *)
(* project without dependencies is accepted.  Other files may change.       *)
LockBinds ==
    LET text(files, p, f) == canonical_text(files[p][f])
        kept(p) == IF p = Main THEN {Manifest} ELSE Hashed(p)
        same == /\ text(locked[1], Main, Manifest) = text(tree, Main, Manifest)
                /\ \A p \in Reached \ {Main} :
                     /\ DOMAIN locked[1][p] \ SkippedFiles = Hashed(p)
                     /\ \A f \in kept(p) : text(locked[1], p, f) = text(tree, p, f)
    IN /\ outcome = "accepted" => IF locked = None THEN Reached = {Main} ELSE same
       /\ outcome = "mismatch" => ~same
=============================================================================
