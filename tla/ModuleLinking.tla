---------------------------- MODULE ModuleLinking ----------------------------
(***************************************************************************)
(* The modules of a project (project.rs): the loader follows imports depth *)
(* first and leaves an order in which a module comes after those that it   *)
(* imports, and link gives every module its public surface and its         *)
(* namespace, and every definition the one name it has in the program.     *)
(*                                                                         *)
(* A source file is <<package, local path>>; the entry of a package has    *)
(* the empty local path and can also be named <<"main">>.  A name of the   *)
(* program is the sequence that canonical_name joins with `$`.             *)
(***************************************************************************)
EXTENDS Integers, Sequences, FiniteSets, SequencesExt

CONSTANTS Projects,   \* the source files: functions from files to units
          Root,       \* the package of the project
          Aliases,    \* the dependencies of each package: functions from alias to package
          MAX_PROJECT_MODULES, MAX_MODULE_DEPTH, MAX_SOURCE_BYTES, MAX_PROJECT_BYTES

VARIABLES files,       \* the source files
          stage,       \* "start", "load", "own", "exports", "namespaces", "linked" or a refusal
          loader,      \* Loader
          own,         \* the definitions of each module
          exports,     \* the public surface of each module
          namespaces   \* what each module sees

vars == <<files, stage, loader, own, exports, namespaces>>

-----------------------------------------------------------------------------
(* Loader                                                                   *)

\* <<"main">> is the entry under its file name.
Canonical(file) == IF file[2] = <<"main">> THEN <<file[1], <<>> >> ELSE file
Exists(file) == Canonical(file) \in DOMAIN files

identity_path(package, local) == IF package = Root THEN local ELSE <<"package:", package>> \o local
Key(file) == identity_path(file[1], file[2])

Ambiguous == <<"ambiguous", <<>> >>
resolve_import(package, path) ==
    IF path[1] \in DOMAIN Aliases[package]
    THEN IF Exists(<<package, path>>) THEN Ambiguous ELSE <<Aliases[package][path[1]], Tail(path)>>
    ELSE <<package, path>>

Loader == [visits |-> <<>>, stack |-> <<>>, order |-> <<>>, units |-> <<>>, seen |-> <<>>, bytes |-> 0]

\* What load_unit says of a file before it follows its imports: "complete",
\* "enter", or a refusal.
Verdict(l, file) ==
    LET key == Key(file)
        source == files[Canonical(file)]
    IN IF key \in DOMAIN l.visits THEN IF l.visits[key] THEN "complete" ELSE "cycle"
       ELSE IF Cardinality(DOMAIN l.visits) >= MAX_PROJECT_MODULES THEN "modules"
       ELSE IF Len(l.stack) >= MAX_MODULE_DEPTH THEN "depth"
       ELSE IF ~Exists(file) THEN "missing"
       ELSE IF Canonical(file) \in DOMAIN l.seen THEN "same file"
       ELSE IF source.size > MAX_SOURCE_BYTES THEN "source size"
       ELSE IF l.bytes + source.size > MAX_PROJECT_BYTES THEN "project size"
       ELSE IF source.module \notin {<<>>, IF file[2] = <<>> THEN <<"main">> ELSE file[2]} THEN "module path"
       ELSE IF \E i \in DOMAIN source.imports : resolve_import(file[1], source.imports[i].path) = Ambiguous
            THEN "ambiguous"
       ELSE "enter"

Targets(file) ==
    LET imports == files[Canonical(file)].imports
    IN [i \in DOMAIN imports |-> resolve_import(file[1], imports[i].path)]

Enter(l, file) ==
    LET key == Key(file)
        targets == Targets(file)
    IN [l EXCEPT !.visits = (key :> FALSE) @@ @, !.stack = Append(@, [file |-> file, next |-> 1]),
                 !.seen = (Canonical(file) :> key) @@ @, !.bytes = @ + files[Canonical(file)].size,
                 !.units = (key :> [file |-> Canonical(file), targets |-> [i \in DOMAIN targets |-> Key(targets[i])]]) @@ @]

Init ==
    /\ files \in Projects
    /\ stage = "start" /\ own = <<>> /\ exports = <<>> /\ namespaces = <<>>
    /\ loader = Loader

\* load_unit for the entry.
LoadEntry ==
    /\ stage = "start"
    /\ LET verdict == Verdict(loader, <<Root, <<>> >>)
       IN IF verdict = "enter" THEN stage' = "load" /\ loader' = Enter(loader, <<Root, <<>> >>)
          ELSE stage' = verdict /\ UNCHANGED loader
    /\ UNCHANGED <<files, own, exports, namespaces>>

Top == Last(loader.stack)
Imports == Targets(Top.file)
Advanced == [loader EXCEPT !.stack = Append(Front(@), [Top EXCEPT !.next = @ + 1])]

\* load_unit for the next import of the module on top of the stack.
Load ==
    /\ stage = "load" /\ loader.stack # <<>> /\ Top.next <= Len(Imports)
    /\ LET verdict == Verdict(loader, Imports[Top.next])
       IN CASE verdict = "complete" -> loader' = Advanced /\ UNCHANGED stage
            [] verdict = "enter" -> loader' = Enter(Advanced, Imports[Top.next]) /\ UNCHANGED stage
            [] OTHER -> stage' = verdict /\ UNCHANGED loader
    /\ UNCHANGED <<files, own, exports, namespaces>>

\* All its imports are loaded.
Loaded ==
    /\ stage = "load" /\ loader.stack # <<>> /\ Top.next > Len(Imports)
    /\ loader' = [loader EXCEPT !.stack = Front(@), !.visits[Key(Top.file)] = TRUE, !.order = Append(@, Key(Top.file))]
    /\ stage' = IF Len(loader.stack) = 1 THEN "own" ELSE stage
    /\ UNCHANGED <<files, own, exports, namespaces>>

-----------------------------------------------------------------------------
(* Definitions                                                              *)

Unit(key) == files[loader.units[key].file]
IsRoot(key) == key = <<>>

\* canonical_name and canonical_variant: the root's names stay as they are.
canonical_name(key, parts) == IF IsRoot(key) THEN <<Last(parts)>> ELSE key \o parts

Definition(canonical, kind) == [canonical |-> canonical, kind |-> kind]
Fine(table) == [table |-> table, refused |-> "no"]
Failed(acc, reason) == [acc EXCEPT !.refused = reason]
With(acc, name, definition) == [acc EXCEPT !.table = (name :> definition) @@ @]

insert_definition(acc, name, definition) ==
    IF acc.refused # "no" THEN acc
    ELSE IF name \in DOMAIN acc.table THEN Failed(acc, "duplicate") ELSE With(acc, name, definition)

\* A variant leaves the module's names if another enum declares it as well.
insert_variant(acc, name, definition) ==
    IF acc.refused # "no" THEN acc
    ELSE IF name \notin DOMAIN acc.table THEN With(acc, name, definition)
    ELSE IF acc.table[name].kind # "variant" THEN acc
    ELSE [acc EXCEPT !.table = [n \in DOMAIN @ \ {name} |-> @[n]]]

InsertEnum(acc, key, enum) ==
    FoldLeft(LAMBDA a, v : insert_variant(a, v, Definition(canonical_name(key, <<enum.name, v>>), "variant")),
             insert_definition(acc, enum.name, Definition(canonical_name(key, <<enum.name>>), "enum")), enum.variants)

Definitions(key) ==
    LET item(acc, name) == insert_definition(acc, name, Definition(canonical_name(key, <<name>>), "item"))
        structs == FoldLeft(item, Fine(<<>>), Unit(key).structs)
        enums == FoldLeft(LAMBDA a, e : InsertEnum(a, key, e), structs, Unit(key).enums)
    IN FoldLeft(LAMBDA a, f : item(a, f.name), enums, Unit(key).functions)

\* A fault: the first of two meanings of a name is kept.
insert_first(acc, name, definition) ==
    IF acc.refused # "no" \/ name \in DOMAIN acc.table THEN acc ELSE With(acc, name, definition)

insert_visible(acc, name, definition) ==
    IF acc.refused # "no" THEN acc
    ELSE IF name \notin DOMAIN acc.table THEN With(acc, name, definition)
    ELSE IF acc.table[name].canonical = definition.canonical THEN acc ELSE Failed(acc, "conflict")

import_surface(acc, source, import) ==
    IF import.all
    THEN FoldLeft(LAMBDA a, name : insert_visible(a, name, source[name]), acc, SetToSeq(DOMAIN source))
    ELSE FoldLeft(LAMBDA a, item : IF a.refused # "no" THEN a
                                   ELSE IF item.name \notin DOMAIN source THEN Failed(a, "not public")
                                   ELSE insert_visible(a, item.alias, source[item.name]), acc, import.items)

EnumOf(key, name) == LET found == SelectSeq(Unit(key).enums, LAMBDA e : e.name = name) IN found[1]

PublicItem(acc, key, name) ==
    IF acc.refused # "no" THEN acc
    ELSE LET definition == own[key][name]
             shown == insert_visible(acc, name, definition)
         IN IF definition.kind # "enum" THEN shown
            ELSE FoldLeft(LAMBDA a, v : insert_visible(a, v, Definition(canonical_name(key, <<name, v>>), "variant")),
                          shown, EnumOf(key, name).variants)

\* The positions of the imports of a module that pass a test.
Positions(key, Test(_)) == SelectSeq([i \in DOMAIN Unit(key).imports |-> i], LAMBDA i : Test(Unit(key).imports[i]))
Imported(acc, key, Test(_)) ==
    FoldLeft(LAMBDA a, i : import_surface(a, exports[loader.units[key].targets[i]], Unit(key).imports[i]),
             acc, Positions(key, Test))

Surface(key) ==
    Imported(FoldLeft(LAMBDA a, name : PublicItem(a, key, name), Fine(<<>>), Unit(key).public),
             key, LAMBDA import : import.public)
Namespace(key) == Imported(Fine(own[key]), key, LAMBDA import : TRUE)

\* validate_public_api: the type that a public function mentions is public.
Exposes(key, namespace) ==
    \E i \in DOMAIN Unit(key).functions :
        LET f == Unit(key).functions[i]
        IN /\ f.name \in ToSet(Unit(key).public)
           /\ f.ty \in DOMAIN namespace
           /\ namespace[f.ty].kind # "variant"
           /\ \A n \in DOMAIN exports[key] : exports[key][n].canonical # namespace[f.ty].canonical

-----------------------------------------------------------------------------
(* link                                                                     *)

LinkOwn ==
    /\ stage = "own"
    /\ LET made == [key \in DOMAIN loader.units |-> Definitions(key)]
           refused == \E key \in DOMAIN made : made[key].refused # "no"
       IN /\ stage' = IF refused THEN "duplicate" ELSE "exports"
          /\ own' = IF refused THEN <<>> ELSE [key \in DOMAIN made |-> made[key].table]
    /\ UNCHANGED <<files, loader, exports, namespaces>>

LinkExports ==
    /\ stage = "exports"
    /\ LET key == loader.order[Cardinality(DOMAIN exports) + 1]
           surface == Surface(key)
       IN /\ exports' = IF surface.refused = "no" THEN (key :> surface.table) @@ exports ELSE exports
          /\ stage' = IF surface.refused # "no" THEN surface.refused
                      ELSE IF key = Last(loader.order) THEN "namespaces" ELSE stage
    /\ UNCHANGED <<files, loader, own, namespaces>>

LinkNamespaces ==
    /\ stage = "namespaces"
    /\ LET key == loader.order[Cardinality(DOMAIN namespaces) + 1]
           namespace == Namespace(key)
       IN /\ namespaces' = IF namespace.refused = "no" THEN (key :> namespace.table) @@ namespaces ELSE namespaces
          /\ stage' = IF namespace.refused # "no" THEN namespace.refused
                      ELSE IF Exposes(key, namespace.table) THEN "exposed"
                      ELSE IF key = Last(loader.order) THEN "linked" ELSE stage
    /\ UNCHANGED <<files, loader, own, exports>>

Next == LoadEntry \/ Load \/ Loaded \/ LinkOwn \/ LinkExports \/ LinkNamespaces

Spec == Init /\ [][Next]_vars

-----------------------------------------------------------------------------
(* The names of the linked program                                          *)

\* Renamer: a name that is no local becomes the program's name of what the
\* namespace says it is, and stays as it is if the namespace does not know it.
rename(key, name) == IF name \in DOMAIN namespaces[key] THEN namespaces[key][name].canonical ELSE <<name>>

-----------------------------------------------------------------------------
(* Properties                                                               *)

Refusals == {"cycle", "modules", "depth", "missing", "same file", "source size", "project size", "module path",
             "ambiguous", "duplicate", "conflict", "not public", "exposed"}

TypeOK ==
    /\ stage \in {"start", "load", "own", "exports", "namespaces", "linked"} \union Refusals
    /\ loader.bytes <= MAX_PROJECT_BYTES /\ Len(loader.stack) <= MAX_MODULE_DEPTH
    /\ Cardinality(DOMAIN loader.units) <= MAX_PROJECT_MODULES
    /\ DOMAIN namespaces \subseteq DOMAIN exports /\ DOMAIN exports \subseteq DOMAIN own

\* Reference: the files that imports lead to.
Follows(file) == IF Exists(file) THEN ToSet(Targets(file)) ELSE {}
RECURSIVE Closure(_)
Closure(set) == LET more == set \union UNION {Follows(f) : f \in set} IN IF more = set THEN set ELSE Closure(more)
Reached == Closure({<<Root, <<>> >>})
Precedes(k, key) == \E i, j \in DOMAIN loader.order : i < j /\ loader.order[i] = k /\ loader.order[j] = key

(* "Import cycles ... duplicate module identities ... excessive module      *)
(* counts ... are rejected" (docs/language/SURFACE_SYNTAX.md:66), and only  *)
(* those: the order holds every module that imports lead to, once, after    *)
(* all that it imports, which is what link's exports[dependency] rests on.  *)
LoadExact ==
    /\ stage = "own" =>
         /\ ToSet(loader.order) = {Key(f) : f \in Reached} /\ Len(loader.order) = Cardinality(Reached)
         /\ \A key \in DOMAIN loader.units : \A k \in ToSet(loader.units[key].targets) : Precedes(k, key)
    /\ stage = "cycle" => \E f \in Reached : f \in Closure(Follows(f))
    /\ stage = "same file" => \E f, g \in Reached : Key(f) # Key(g) /\ Canonical(f) = Canonical(g)
    /\ stage = "modules" => Cardinality(Reached) > MAX_PROJECT_MODULES
    /\ stage = "missing" => \E f \in Reached : ~Exists(f)

\* Reference: what names mean, as relations between names and definitions.
Items(key) == ToSet(Unit(key).structs) \union {e.name : e \in ToSet(Unit(key).enums)}
              \union {f.name : f \in ToSet(Unit(key).functions)}
Variants(enums) == UNION {{<<e.name, v>> : v \in ToSet(e.variants)} : e \in enums}
Named(key, parts) == <<Last(parts), canonical_name(key, parts)>>
Through(import, meanings) ==
    IF import.all THEN meanings
    ELSE UNION {{<<item.alias, m[2]>> : m \in {n \in meanings : n[1] = item.name}} : item \in ToSet(import.items)}
Own(key) ==
    LET variants == Variants(ToSet(Unit(key).enums))
    IN {Named(key, <<n>>) : n \in Items(key)} \union
       {Named(key, v) : v \in {w \in variants : w[2] \notin Items(key) /\ \A u \in variants : u[2] = w[2] => u = w}}
RECURSIVE Shown(_)
Shown(key) ==
    LET public == ToSet(Unit(key).public)
        imports == Unit(key).imports
    IN {Named(key, <<n>>) : n \in public}
       \union {Named(key, v) : v \in Variants({e \in ToSet(Unit(key).enums) : e.name \in public})}
       \union UNION {Through(imports[i], Shown(loader.units[key].targets[i])) : i \in {j \in DOMAIN imports : imports[j].public}}
Seen(key) ==
    Own(key) \union UNION {Through(Unit(key).imports[i], Shown(loader.units[key].targets[i])) : i \in DOMAIN Unit(key).imports}
OneMeaning(meanings) == \A m, n \in meanings : m[1] = n[1] => m = n

(* "Wildcard module imports fail on name conflicts instead of guessing"     *)
(* (SURFACE_SYNTAX.md:64-65): a linked module sees exactly what its own     *)
(* declarations and its imports, re-exports followed, give a meaning to,    *)
(* each name has one, and a conflict or a missing item is refused only      *)
(* where there is one.                                                      *)
NamesExact ==
    /\ stage = "linked" =>
         \A key \in DOMAIN loader.units :
           /\ OneMeaning(Shown(key)) /\ OneMeaning(Seen(key))
           /\ {<<n, namespaces[key][n].canonical>> : n \in DOMAIN namespaces[key]} = Seen(key)
    /\ stage = "conflict" =>
         \E key \in DOMAIN loader.units : ~OneMeaning(Shown(key)) \/ ~OneMeaning(Seen(key))
    /\ stage = "not public" =>
         \E key \in DOMAIN loader.units : \E i \in DOMAIN Unit(key).imports :
           \E item \in ToSet(Unit(key).imports[i].items) :
             \A m \in Shown(loader.units[key].targets[i]) : m[1] # item.name

AllNames == UNION {{m[1] : m \in Seen(key)} : key \in DOMAIN loader.units}
MeaningsOf(key) ==
    {canonical_name(key, <<n>>) : n \in Items(key)}
    \union {canonical_name(key, v) : v \in Variants(ToSet(Unit(key).enums))}
PublicOf(key) ==
    LET public == ToSet(Unit(key).public)
    IN {canonical_name(key, <<n>>) : n \in public}
       \union {canonical_name(key, v) : v \in Variants({e \in ToSet(Unit(key).enums) : e.name \in public})}
Leads(key) == {Key(f) : f \in Closure(Follows(loader.units[key].file))}

(* DISP-CORE-0006, "private ... names MUST be rejected": whatever name a    *)
(* linked module writes, it does not come out as the name of a definition   *)
(* that another module keeps private, or of a module its imports do not     *)
(* lead to.  The entry module is left out: its names stay as written, and a *)
(* name unknown to a module's namespace does too.                           *)
PrivateStays ==
    stage = "linked" =>
      \A key \in DOMAIN loader.units, name \in AllNames :
        \A other \in DOMAIN loader.units \ {key, <<>>} :
          rename(key, name) \in MeaningsOf(other) => rename(key, name) \in PublicOf(other) /\ other \in Leads(key)

(* "Imported nominal types retain their defining module identity even when  *)
(* aliased" (docs/language/SPECIFICATION_1.md:221): no two modules, of one  *)
(* package or of two, define the same name of the program.                  *)
NominalIdentity ==
    stage = "linked" =>
      \A key, other \in DOMAIN loader.units : key # other => MeaningsOf(key) \intersect MeaningsOf(other) = {}
=============================================================================
