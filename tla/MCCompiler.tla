----------------------------- MODULE MCCompiler -----------------------------
(***************************************************************************)
(* The compiler for TLC: a behaviour takes one program through the passes  *)
(* and runs it.  The program is a call of a built-in operation, a function *)
(* that moves and borrows, a freestanding image, a match expression, a     *)
(* graph of packages or a project of modules, as scenario says.  Built-in  *)
(* calls have their own variables, which keep one value in the other       *)
(* scenarios; those share c1..c7.                                          *)
(***************************************************************************)
EXTENDS BuiltinCalls

CONSTANTS Scenarios,   \* those a run explores
          Family       \* the shapes of functions that move and borrow

VARIABLES scenario, c1, c2, c3, c4, c5, c6, c7

shared == <<c1, c2, c3, c4, c5, c6, c7>>
compiler == <<vars, scenario, shared>>

Function ==
    INSTANCE OwnedPrograms WITH
        MaxDecisions <- 3,
        program <- c1, stage <- c2, mir <- c3, lowered <- c4, decisions <- c5, interpreted <- c6, compiled <- c7

Image ==
    INSTANCE FreestandingPrograms WITH
        MaxTicks <- 2,
        program <- c1, target <- c2, image <- c3, next <- c4, reference <- c5, machine <- c6

\* Types and patterns of match expressions.  The fields of Pair are declared
\* in the reverse of their alphabetical order.
Type(t, of) == [t |-> t, of |-> of]
BoolT == Type("Bool", <<>>)
IntT == Type("Int", <<>>)
Pattern(p, of, args) == [p |-> p, of |-> of, names |-> <<>>, rest |-> FALSE, args |-> args]
Any == Pattern("wild", "", <<>>)
X == Pattern("bind", "x", <<>>)
True == Pattern("Bool", "true", <<>>)
False == Pattern("Bool", "false", <<>>)
Number(n) == Pattern("Int", n, <<>>)
Either(p, q) == Pattern("or", "", <<p, q>>)
Of(v, args) == Pattern("variant", v, args)
PairOf(names, args, rest) == [p |-> "struct", of |-> "Pair", names |-> names, rest |-> rest, args |-> args]

Matched == {
    [ty |-> BoolT, patterns |-> {Any, X, True, False, Either(True, False)}],
    [ty |-> IntT, patterns |-> {Any, X, Number("0"), Number("-1"), Either(Number("0"), Number("1")), True}],
    [ty |-> Type("Option", <<BoolT>>),
     patterns |-> {Any, Of("None", <<>>), Of("Some", <<Any>>), Of("Some", <<True>>), Of("Some", <<Either(False, True)>>),
                   Either(Of("None", <<>>), Of("Some", <<False>>)), Either(Of("None", <<>>), Of("Some", <<X>>))}],
    [ty |-> Type("Result", <<BoolT, IntT>>),
     patterns |-> {Any, Of("Ok", <<X>>), Of("Ok", <<True>>), Of("Err", <<Number("0")>>), Of("Err", <<Any>>),
                   Either(Of("Ok", <<X>>), Of("Err", <<X>>)), Of("None", <<>>)}],
    [ty |-> Type("Line", <<>>),
     patterns |-> {Of("Dot", <<>>), Of("Pixels", <<True, Any>>), Of("Pixels", <<Any, True>>),
                   Of("Pixels", <<False, False>>), Of("Pixels", <<X, Any>>),
                   Of("Pixels", <<Either(True, False), Either(True, False)>>),
                   Either(Of("Dot", <<>>), Of("Pixels", <<False, Either(True, False)>>))}],
    [ty |-> Type("Pair", <<>>),
     patterns |-> {Any, PairOf(<<"right">>, <<True>>, TRUE), PairOf(<<"left", "right">>, <<Of("None", <<>>), Any>>, FALSE),
                   PairOf(<<"right", "left">>, <<False, Of("Some", <<Any>>)>>, FALSE),
                   PairOf(<<"left">>, <<Of("Some", <<True>>)>>, TRUE), PairOf(<<"left">>, <<Any>>, FALSE),
                   PairOf(<<"left", "right">>, <<Either(Of("None", <<>>), Of("Some", <<Any>>)), Either(True, False)>>, FALSE)}]}

Match ==
    INSTANCE PatternMatching WITH
        Enums <- [Line |-> <<[name |-> "Dot", payload |-> <<>>], [name |-> "Pixels", payload |-> <<BoolT, BoolT>>]>>],
        Structs <- [Pair |-> <<[name |-> "right", ty |-> BoolT], [name |-> "left", ty |-> Type("Option", <<BoolT>>)]>>],
        Alphabetical <- <<"left", "right">>, Subjects <- Matched, Domain <- {"-1", "0", "1", "2"},
        MaxArms <- 3, MAX_REPEAT_COUNT <- 4,
        subject <- c1, source <- c2, stage <- c3, arms <- c4, checked <- c5, rows <- c6

\* Packages: app and lib may depend on two others each; log may use the
\* identity of lib.
Package(id, dependencies) ==
    [file \in {"DISP.toml", "lib.disp"} |->
        [text |-> IF file = "lib.disp" THEN "one" ELSE [id |-> id, dependencies |-> dependencies], crlf |-> FALSE]]
PackageTrees ==
    {[app |-> Package("app", a), lib |-> Package("lib", l), log |-> Package(i, g), net |-> Package("net", n)] :
        a \in {<<>>, <<"lib">>, <<"lib", "log">>, <<"log", "lib">>}, l \in {<<>>, <<"log">>, <<"net">>, <<"net", "log">>},
        i \in {"log", "lib"}, g \in {<<>>, <<"lib">>, <<"net">>, <<"gone">>}, n \in {<<>>, <<"app">>}}

Packages ==
    INSTANCE PackageGraph WITH
        Trees <- PackageTrees, Main <- "app", Absent <- "gone",
        Contents <- {[text |-> "one", crlf |-> TRUE], [text |-> "two", crlf |-> FALSE]},
        Changes <- {<<>>, <<"log">>}, MaxEdits <- 1, MaxCommands <- 2,
        MAX_PACKAGES <- 3, MAX_DEPENDENCY_DEPTH <- 3, MAX_PACKAGE_FILES <- 2,
        tree <- c1, command <- c2, resolver <- c3, lock <- c4, locked <- c5, outcome <- c6, used <- c7

\* Modules: main and a of the project, which depends on lib under the alias l,
\* and the entry and the module a of lib.
Import(path, public) == [path |-> path, public |-> public, all |-> TRUE, items |-> <<>>]
Select(path, public, name, alias) ==
    [path |-> path, public |-> public, all |-> FALSE, items |-> <<[name |-> name, alias |-> alias]>>]
Source(structs, enums, functions, public, imports) ==
    [module |-> <<>>, size |-> 1, structs |-> structs, enums |-> enums,
     functions |-> [i \in DOMAIN functions |-> [name |-> functions[i], ty |-> "T"]],
     public |-> public, imports |-> imports]
Enum(name, variants) == [name |-> name, variants |-> variants]
Declarations == {
    Source(<<>>, <<>>, <<>>, <<>>, <<>>),
    Source(<<"T">>, <<>>, <<"f">>, <<"T", "f">>, <<>>),
    Source(<<"T">>, <<>>, <<"f">>, <<"f">>, <<>>),
    Source(<<"T">>, <<>>, <<"g">>, <<"T">>, <<>>),
    Source(<<>>, <<Enum("E", <<"V", "W">>)>>, <<"f">>, <<"E">>, <<>>),
    Source(<<>>, <<Enum("E", <<"V">>), Enum("T", <<"V">>)>>, <<>>, <<"E">>, <<>>),
    Source(<<>>, <<Enum("E", <<"V">>), Enum("T", <<"V">>)>>, <<>>, <<"E", "T">>, <<>>),
    Source(<<"T">>, <<>>, <<"T">>, <<>>, <<>>)}
Empty == Source(<<>>, <<>>, <<>>, <<>>, <<>>)
Importing(sources, imports) == {[s EXCEPT !.imports = i] : s \in sources, i \in imports}
Project(m, a, l, b) ==
    [f \in {<<"app", <<>> >>, <<"app", <<"a">> >>, <<"app", <<"l", "x">> >>, <<"lib", <<>> >>, <<"lib", <<"a">> >>} |->
        CASE f = <<"app", <<>> >> -> m [] f = <<"app", <<"a">> >> -> a
          [] f = <<"lib", <<>> >> -> l [] f = <<"lib", <<"a">> >> -> b [] OTHER -> Empty]
Use(path) == Import(path, FALSE)
PubUse(path) == Import(path, TRUE)
\* Projects that differ in what they declare, and in what they import.
ModuleProjects ==
    {Project(m, a, l, b) :
        m \in Importing({Source(<<>>, <<>>, <<"g">>, <<>>, <<>>)},
                        {<<Use(<<"a">>), Use(<<"l">>)>>, <<Use(<<"l">>), Select(<<"a">>, FALSE, "T", "U")>>, <<Use(<<"l", "a">>), Use(<<"a">>)>>}),
        a \in Importing(Declarations, {<<>>, <<PubUse(<<"l">>)>>, <<Select(<<"l">>, TRUE, "f", "h")>>}),
        l \in Importing({d \in Declarations : d.functions # <<>> \/ d = Empty}, {<<>>, <<PubUse(<<"a">>)>>, <<Select(<<"a">>, TRUE, "T", "T")>>}),
        b \in {d \in Declarations : d.structs # <<>>}} \union
    {Project(m, a, l, b) :
        m \in Importing({Empty}, {<<Use(<<"a">>), Use(<<"l">>)>>, <<Use(<<"l", "a">>)>>, <<Use(<<"a">>), Use(<<"l">>), Use(<<"gone">>)>>, <<Use(<<"l", "x">>)>>}),
        a \in Importing({Empty}, {<<>>, <<Use(<<"l">>)>>, <<Use(<<"main">>)>>, <<Use(<<"a">>)>>})
             \union {[Empty EXCEPT !.module = <<"b">>], [Empty EXCEPT !.size = 4], [Empty EXCEPT !.size = 3, !.module = <<"a">>]},
        l \in Importing({Empty}, {<<>>, <<Use(<<"a">>)>>, <<Use(<<"main">>)>>}),
        b \in Importing({Empty, [Empty EXCEPT !.size = 2]}, {<<>>, <<Use(<<"main">>)>>, <<Use(<<"a">>)>>})}

Modules ==
    INSTANCE ModuleLinking WITH
        Projects <- ModuleProjects, Root <- "app",
        Aliases <- [p \in {"app", "lib"} |-> IF p = "app" THEN [l |-> "lib"] ELSE <<>>],
        MAX_PROJECT_MODULES <- 4, MAX_MODULE_DEPTH <- 3, MAX_SOURCE_BYTES <- 3, MAX_PROJECT_BYTES <- 5,
        files <- c1, stage <- c2, loader <- c3, own <- c4, exports <- c5, namespaces <- c6

\* A variable the scenario has no use for.
Unused(v) == v = 0

NoCall ==
    /\ stage = "rejected" /\ call = [op |-> "List.new", types |-> <<>>, contracts |-> <<>>]
    /\ backend = "native" /\ round = 1 /\ usable = {} /\ initialised = {} /\ flags = {}
    /\ released = <<>> /\ retired = {} /\ fault = "none"

CompilerInit ==
    /\ scenario \in Scenarios
    /\ \/ /\ scenario = "builtin" /\ Init
          /\ Unused(c1) /\ Unused(c2) /\ Unused(c3) /\ Unused(c4) /\ Unused(c5) /\ Unused(c6) /\ Unused(c7)
       \/ scenario = "function" /\ NoCall /\ Function!Init
       \/ scenario = "image" /\ NoCall /\ Image!Init /\ Unused(c7)
       \/ scenario = "packages" /\ NoCall /\ Packages!Init
       \/ scenario = "modules" /\ NoCall /\ Modules!Init /\ Unused(c7)
       \/ scenario = "match" /\ NoCall /\ Match!Init /\ Unused(c7)

BuiltinNext == scenario = "builtin" /\ Next /\ UNCHANGED <<scenario, shared>>
FunctionNext == scenario = "function" /\ Function!Next /\ UNCHANGED <<vars, scenario>>
ImageNext == scenario = "image" /\ Image!Next /\ UNCHANGED <<vars, scenario, c7>>
MatchNext == scenario = "match" /\ Match!Next /\ UNCHANGED <<vars, scenario, c7>>
PackagesNext == scenario = "packages" /\ Packages!Next /\ UNCHANGED <<vars, scenario>>
ModulesNext == scenario = "modules" /\ Modules!Next /\ UNCHANGED <<vars, scenario, c7>>

CompilerNext == BuiltinNext \/ FunctionNext \/ ImageNext \/ MatchNext \/ PackagesNext \/ ModulesNext

CompilerSpec == CompilerInit /\ [][CompilerNext]_compiler
-----------------------------------------------------------------------------
\* Every pass leaves what the next one takes; no accepted function reaches a
\* block of MIR that lowering left without a terminator.
TypesOK ==
    /\ scenario = "builtin" => TypeOK
    /\ scenario = "function" => Function!TypeOK
    /\ scenario = "image" => Image!TypeOK
    /\ scenario = "match" => Match!TypeOK
    /\ scenario = "packages" => Packages!TypeOK
    /\ scenario = "modules" => Modules!TypeOK

\* docs/language/OWNERSHIP.md:69 "no read observes uninitialized or moved
\* storage", in the interpreter and in the compiled function.
NoMovedRead == scenario = "function" => Function!NoMovedRead

\* docs/language/OWNERSHIP.md:72 "no safe reference outlives its origin".
ReferencesHold == scenario = "function" => Function!ReferencesHold

\* docs/language/OWNERSHIP.md:73 "every owned value is moved once or destroyed
\* once, never both or neither".
ValuesDestroyedOnce == scenario = "function" => Function!DestroyedExactlyOnce

\* The interpreter and the compiled function observe the same events.
BackendsAgree == scenario = "function" => Function!BackendsAgree

\* FreestandingPrograms: an image prints what the interpreter prints and ends as it
\* ends, and on the way neither faults nor leaves its stack and the slots of its
\* locals.
ImagesAgree ==
    scenario = "image" => Image!ImagesAgree /\ Image!NeverFaults /\ Image!StackInBounds /\ Image!SlotsDisjoint

\* PatternMatching: a match is accepted exactly if it has an arm for every value and
\* no arm in vain; both backends then choose the arm its source chooses.
MatchesAgree == scenario = "match" => Match!Exhaustive /\ Match!ReachableArms /\ Match!DispatchAgrees

\* PackageGraph: what is resolved is the reachable packages, and the lock binds the
\* files it records of them.
PackagesExact == scenario = "packages" => Packages!GraphExact /\ Packages!LockBinds

\* ModuleLinking: the modules loaded and the names each of them sees are those its
\* imports lead to; private names stay private and no two definitions share one.
ModulesExact ==
    scenario = "modules" =>
        Modules!LoadExact /\ Modules!NamesExact /\ Modules!PrivateStays /\ Modules!NominalIdentity
=============================================================================
