--------------------------- MODULE OwnedPrograms ---------------------------
(***************************************************************************)
(* Small functions on their way through the ownership analysis, and, when  *)
(* it accepts them, through the interpreter and through MIR lowering and   *)
(* the compiled code.  Both backends take the same decisions at            *)
(* conditions, so their observable events can be compared.                 *)
(***************************************************************************)
EXTENDS Ownership, Integers

CONSTANTS Family,        \* which shapes of program are taken
          MaxDecisions   \* runs with more conditions than this are cut

M == INSTANCE MirLowering

VARIABLES
    program,     \* the body of the function
    stage,       \* "analyse", "lower", "interpret", "native" or "rejected"
    mir,         \* the MIR builder
    lowered,     \* how many statements are lowered
    decisions,   \* the values of conditions: those of the interpreter's run,
                 \* and then those the compiled function has not yet used
    interpreted, \* the interpreter's machine
    compiled     \* the compiled function's

vars == <<program, stage, mir, lowered, decisions, interpreted, compiled>>

-----------------------------------------------------------------------------
(* The programs.                                                            *)

X == <<"x">>
XF == <<"x", "f">>
XFH == <<"x", "f", "h">>
XG == <<"x", "g">>
Y == <<"y">>
New == <<"new">>

LetNew(v) == <<"let", v, New, TRUE>>

Seqs(atoms, n) == UNION {[1..k -> atoms] : k \in 0..n}

UseR == <<"use", <<"r">>>>
UseQ == <<"use", <<"q">>>>
BindZ(e) == <<"let", "z", e, TRUE>>
MaybeBreak == <<"if", <<<<"break">>>>, <<>>>>

Moves == {<<"sink", X>>, <<"sink", XF>>, <<"sink", XG>>, <<"use", X>>, <<"use", XF>>,
          <<"assign", X, New>>, <<"assign", XF, New>>}
Values == Moves \cup {<<"assign", XG, <<"move", Y>>>>, <<"assign", Y, New>>, <<"use", XFH>>,
                      <<"sink", XFH>>, <<"assign", <<"z">>, <<"move", XF>>>>,
                      <<"assign", <<"z">>, <<"move", Y>>>>, <<"use", <<"z">>>>}
Few == {<<"sink", X>>, <<"sink", XF>>, <<"use", XG>>, <<"use", X>>, <<"assign", X, New>>,
        <<"assign", XF, New>>}
Keeps == {t \in Few : t[1] # "sink"}

Owned(rest) == {<<LetNew("x"), LetNew("y")>> \o r : r \in rest}

Around(before, middle, after) == {p \o <<s>> \o q : p \in before, s \in middle, q \in after}

Lines == Owned({<<BindZ(<<"none">>)>> \o s : s \in Seqs(Values, 3)})

Branches == Owned(Around(Seqs(Few, 1), {<<"if", a, b>> : a, b \in Seqs(Moves, 1)}, Seqs(Few, 1)))

Loops == Owned(Around(Seqs(Keeps, 1), {<<k, b>> : k \in {"while", "for"}, b \in Seqs(Moves, 2)}, Seqs(Few, 1)))

\* A jump, taken or not, out of a body that has moved nothing from outside.
Jump(before, after) ==
    {<<k, a \o <<<<"if", <<<<j>>>>, <<>>>>>> \o b>> :
        k \in {"while", "loop"}, j \in {"break", "continue", "return"}, a \in before, b \in after}
Jumps == Owned(Around({<<>>}, Jump(Seqs(Keeps \cup {BindZ(<<"move", Y>>), BindZ(New)}, 1), Seqs(Few, 1)),
                      Seqs(Few, 1)))

\* The jump comes between a move and the assignment that makes up for it.
JumpsAfterMoves == Owned(Around({<<>>}, Jump(Seqs(Few, 1), Seqs(Few, 1)), Seqs(Few, 1)))

\* References: r borrows a place of x, in a straight line, and around a
\* branch or a loop.
Borrows(v) == {<<"let", v, <<"borrow", p, m>>, TRUE>> : p \in {X, XF, XG}, m \in BOOLEAN}
AroundRefs == {UseR, <<"sink", X>>, <<"assign", XF, New>>, <<"use", X>>}
Declared(z) == \A i \in DOMAIN z : z[i] = UseQ => \E j \in 1..(i - 1) : z[j][1] = "let"
References ==
    {<<LetNew("x"), r>> \o q : r \in Borrows("r"),
        q \in {z \in Seqs(AroundRefs \cup Borrows("q") \cup {UseQ}, 3) : Declared(z)}}
    \cup {<<LetNew("x"), r, s>> \o q : r \in Borrows("r"), q \in Seqs(AroundRefs, 1),
        s \in {<<"loop", b \o <<MaybeBreak>>>> : b \in Seqs(AroundRefs, 2)}
              \cup {<<"if", a, <<>>>> : a \in Seqs(AroundRefs, 2)}}

\* A reference is copied to a second one.
CopiedReferences ==
    {<<LetNew("x"), r>> \o q : r \in Borrows("r"),
        q \in {z \in Seqs({<<"let", "q", <<"ref", "r">>, TRUE>>, UseQ, <<"sink", X>>}, 3) : Declared(z)}}

\* A collection walked by reference, an option taken apart, and calls that
\* may fail.
C == <<"c">>
Items == {<<"use", <<"i">>>>, <<"sink", C>>, <<"assign", C, New>>, <<"use", C>>, <<"break">>}
Collections == {<<LetNew("c"), <<"each", "c", b>>>> \o q :
    b \in Seqs(Items, 2), q \in Seqs({<<"use", C>>, <<"sink", C>>, <<"assign", C, New>>}, 2)}

O == <<"o">>
Options == {<<LetNew("o")>> \o q :
    q \in Seqs({<<"match", O, "sink">>, <<"match", O, "use">>, <<"assign", O, New>>, <<"use", O>>,
                <<"while", <<<<"match", O, "use">>, <<"assign", O, New>>>>>>}, 3)}

Fallible == Owned(Seqs({BindZ(<<"try">>), <<"assign", XF, <<"try">>>>, <<"sink", XF>>, <<"use", X>>,
                        <<"sink", Y>>, <<"while", <<<<"assign", Y, <<"try">>>>>>>>}, 3))

\* The call that may fail is an argument, after one that was moved.
FallibleArguments == Owned(Seqs({<<"sinktry", Y>>, <<"sinktry", XF>>, <<"sink", X>>, <<"assign", Y, New>>}, 2))

Programs ==
    UNION {CASE f = "lines" -> Lines [] f = "branches" -> Branches [] f = "loops" -> Loops
             [] f = "jumps" -> Jumps [] f = "jumps_after_moves" -> JumpsAfterMoves
             [] f = "references" -> References [] f = "copied_references" -> CopiedReferences
             [] f = "collections" -> Collections [] f = "options" -> Options
             [] f = "fallible" -> Fallible [] f = "fallible_arguments" -> FallibleArguments : f \in Family}

-----------------------------------------------------------------------------
(* The passes.                                                              *)

NotRun == M!call_function_body(<<>>)

Init ==
    /\ program \in Programs
    /\ stage = "analyse"
    /\ mir = M!NewFunction
    /\ lowered = 0
    /\ decisions = <<>>
    /\ interpreted = NotRun
    /\ compiled = M!Called

Analyse ==
    /\ stage = "analyse"
    /\ stage' = IF check_function(program) THEN "lower" ELSE "rejected"
    /\ UNCHANGED <<program, mir, lowered, decisions, interpreted, compiled>>

\* MIR lowering, a statement of the body at a time.
LowerStatement ==
    /\ stage = "lower"
    /\ lowered < Len(program)
    /\ mir' = M!lower_from(mir, <<program[lowered + 1]>>)
    /\ lowered' = lowered + 1
    /\ UNCHANGED <<program, stage, decisions, interpreted, compiled>>

EndLowering ==
    /\ stage = "lower"
    /\ lowered = Len(program)
    /\ mir' = M!EndFunction(mir)
    /\ stage' = "interpret"
    /\ interpreted' = M!call_function_body(program)
    /\ UNCHANGED <<program, lowered, decisions, compiled>>

\* The interpreter executes a statement.
Interpret ==
    /\ stage = "interpret"
    /\ ~M!Ended(interpreted)
    /\ IF M!Decides(Head(interpreted.code))
       THEN \E yes \in BOOLEAN :
                /\ Len(decisions) < MaxDecisions
                /\ decisions' = Append(decisions, yes)
                /\ interpreted' = M!execute(interpreted, yes)
       ELSE /\ interpreted' = M!execute(interpreted, TRUE)
            /\ UNCHANGED decisions
    /\ UNCHANGED <<program, stage, mir, lowered, compiled>>

EndInterpreted ==
    /\ stage = "interpret"
    /\ M!Ended(interpreted)
    /\ stage' = "native"
    /\ UNCHANGED <<program, mir, lowered, decisions, interpreted, compiled>>

\* The compiled function, on the decisions of the interpreter's run.
RunNative ==
    /\ stage = "native"
    /\ ~M!Returned(compiled)
    /\ IF M!Branches(mir.blocks[compiled.at].terminator)
       THEN /\ decisions # <<>>
            /\ compiled' = M!run_block(compiled, mir.blocks, Head(decisions))
            /\ decisions' = Tail(decisions)
       ELSE /\ compiled' = M!run_block(compiled, mir.blocks, TRUE)
            /\ UNCHANGED decisions
    /\ UNCHANGED <<program, stage, mir, lowered, interpreted>>

Next == Analyse \/ LowerStatement \/ EndLowering \/ Interpret \/ EndInterpreted \/ RunNative

Spec == Init /\ [][Next]_vars
-----------------------------------------------------------------------------
(* Properties.                                                              *)

\* No run of an accepted program reaches a block MIR lowering left without a
\* terminator.  The interpreter may stop at an assignment to a field of a
\* struct that holds nothing ("target"), which the analysis accepts.
TypeOK ==
    /\ stage \in {"analyse", "rejected", "lower", "interpret", "native"}
    /\ interpreted.fault \in {"none", "moved", "dangling", "target"}
    /\ compiled.fault \in {"none", "moved", "dangling", "twice", "leak"}
    /\ decisions \in Seq(BOOLEAN)

\* "no read observes uninitialized or moved storage": what check_block
\* accepts reads no place after it was moved, whichever branches are taken
\* and however often a loop's body runs.
NoMovedRead == interpreted.fault # "moved" /\ compiled.fault # "moved"

\* "no safe reference outlives its origin", nor is used after its place was
\* moved or assigned: the loans of the analysis, which it ends at the last
\* use of their borrower, cover every use of a reference.
ReferencesHold == interpreted.fault # "dangling" /\ compiled.fault # "dangling"

\* "every owned value is moved once or destroyed once, never both or
\* neither": on scope exit, return, break, continue, assignment and a
\* failed ?, the drop flags release exactly the leaves that still hold a
\* value, and no storage ends or is overwritten while it holds one.
DestroyedExactlyOnce == compiled.fault \notin {"twice", "leak"}

\* The interpreter and the compiled function, given the same decisions, take
\* the same path: they observe the same uses and moves in the same order,
\* and meet the same number of conditions.
BackendsAgree ==
    stage = "native" /\ interpreted.fault = "none" /\ compiled.fault = "none" =>
        IF compiled.at = 0 THEN interpreted.trace = compiled.trace /\ decisions = <<>>
        ELSE M!Branches(mir.blocks[compiled.at].terminator) => decisions # <<>>
=============================================================================
