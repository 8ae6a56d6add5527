----------------------------- MODULE MCServices -----------------------------
(***************************************************************************)
(* What the runtime does with the world outside the program, for TLC: a    *)
(* child process, a file, an HTTP client, the tables of a data store and   *)
(* an external signing key.  Every part has its own variables; a behaviour *)
(* exercises the one that scenario names, and the others keep their first  *)
(* values.                                                                 *)
(***************************************************************************)
EXTENDS ChildProcess, FileTransaction, HttpClient, KeyProvider

CONSTANT Scenarios   \* those a run explores

VARIABLES scenario,
          schema, table, pending, disk, doubt, last, data_ops  \* those of DataTables

\* Declarations that add a field, an index, a uniqueness or a constraint, and
\* one that renames a field and reuses its name.
Declared(name, from, primary, unique, indexed, default) ==
    [name |-> name, from |-> from, optional |-> FALSE, primary |-> primary, unique |-> unique,
     indexed |-> indexed, default |-> default]
Id == Declared("id", "", TRUE, FALSE, FALSE, "null")
Schemas ==
    {[fields |-> <<Id, Declared("x", "", FALSE, FALSE, FALSE, "null")>>, constraints |-> <<>>],
     [fields |-> <<Id, Declared("x", "", FALSE, FALSE, TRUE, "null")>>, constraints |-> <<>>],
     [fields |-> <<Id, Declared("y", "x", FALSE, FALSE, TRUE, "null"), Declared("x", "", FALSE, FALSE, FALSE, "0")>>,
      constraints |-> <<[unique |-> TRUE, fields |-> <<2, 3>>]>>],
     [fields |-> <<Id, Declared("x", "", FALSE, TRUE, FALSE, "null")>>,
      constraints |-> <<[unique |-> FALSE, fields |-> <<2, 1>>]>>]}
Values == {"0", "1"}
Eq(f, v) == [op |-> "eq", field |-> f, value |-> v]
Both(op, l, r) == [op |-> op, left |-> l, right |-> r]
Predicates ==
    UNION {{Eq("id", v), Eq("x", v), Eq("y", v), Both("or", Eq("x", v), Eq("id", "1")),
            Both("and", Eq("x", v), Both("and", Eq("y", "1"), Eq("id", "0"))),
            Both("and", Eq("x", v), Eq("x", "0")), Both("and", Eq("y", v), Eq("x", "1"))} : v \in Values}
Same(a, b) == a = b

Data ==
    INSTANCE DataTables WITH RowLimit <- 2, MaxOps <- 6, ops <- data_ops

data_vars == <<schema, table, pending, disk, doubt, last, data_ops>>
services == <<scenario, child_vars, file_vars, http_vars, signing_vars, data_vars>>

\* The first values of a part that the scenario does not exercise.
Idles ==
    /\ scenario # "child" => mode = "start" /\ handle.deadline = None /\ input.left = 0
    /\ scenario # "file" => kind = "runtime" /\ dest = Absent
    /\ scenario # "http" => call.origin = CHOOSE o \in Origin : TRUE
    /\ scenario # "signing" => device = CHOOSE k \in Keys : TRUE
    /\ scenario # "data" => schema = CHOOSE s \in Schemas : TRUE

ServicesInit ==
    /\ scenario \in Scenarios
    /\ ChildInit /\ FileInit /\ HttpInit /\ SigningInit /\ Data!Init
    /\ Idles

Only(part) ==
    /\ scenario = part
    /\ UNCHANGED scenario
    /\ part # "child" => UNCHANGED child_vars
    /\ part # "file" => UNCHANGED file_vars
    /\ part # "http" => UNCHANGED http_vars
    /\ part # "signing" => UNCHANGED signing_vars
    /\ part # "data" => UNCHANGED data_vars

ServicesNext ==
    \/ Only("child") /\ ChildNext
    \/ Only("file") /\ FileNext
    \/ Only("http") /\ HttpNext
    \/ Only("signing") /\ SigningNext
    \/ Only("data") /\ Data!Next

\* ChildProcess!Fairness, in the behaviours that exercise the child.
ServicesSpec ==
    /\ ServicesInit /\ [][ServicesNext]_services
    /\ WF_child_vars(scenario = "child" /\ OwnerSteps)
    /\ WF_child_vars(scenario = "child" /\ WriterThread)
    /\ WF_child_vars(scenario = "child" /\ DeadlinePasses)
    /\ \A p \in Pipe : WF_child_vars(scenario = "child" /\ ReaderSteps(p))

-----------------------------------------------------------------------------
\* The part a behaviour exercises stays within its types; in particular a stored
\* table is either decoded or pending, never both.
TypesOK ==
    /\ scenario = "child" => ChildTypeOK
    /\ scenario = "file" => FileTypeOK
    /\ scenario = "http" => HttpTypeOK
    /\ scenario = "signing" => SigningTypeOK
    /\ scenario = "data" => Data!TypeOK

\* DataTables: through writes, removals and migrations an index selects what a scan
\* selects, and what is declared unique is.
IndexesExact == scenario = "data" => Data!IndexedEqualsScan /\ Data!KeysUnique

\* DataTables: unless a commit failed, memory holds what a reopen would read.
MemoryIsDurable == scenario = "data" => Data!MemoryIsDurable

\* DataTables: an operation that fails changes nothing in memory, and a migration
\* loses no row and no value.
DataKept == [][scenario = "data" => Data!ErrorKeeps /\ Data!MigrationKeeps]_services
=============================================================================
