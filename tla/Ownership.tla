----------------------------- MODULE Ownership -----------------------------
(***************************************************************************)
(* The ownership analysis: whether a function body uses, moves, assigns    *)
(* and borrows its places legally.  The analysis walks the syntax tree,    *)
(* carrying the initialisation state of every local, the loans in force    *)
(* and the scope depth, and clones that state at branches and loops.       *)
(*                                                                         *)
(* A place is a sequence of names: a local and then field names.  A        *)
(* statement is a tuple, its kind first:                                   *)
(*   <<"let", v, e, mutable>>   <<"assign", p, e>>    <<"use", p>>         *)
(*   <<"sink", p>>          the call consume(p)                            *)
(*   <<"sinktry", p>>       the call consume(p, fallible()?)               *)
(*   <<"match", p, what>>   match p { Some(v) => what(v), None => () }     *)
(*   <<"if", b, b>>  <<"while", b>>  <<"for", b>>  <<"each", c, b>>        *)
(*   <<"loop", b>>   <<"break">>  <<"continue">>  <<"return">>             *)
(* and an expression is <<"none">> (no initialiser), <<"new">> (an owned   *)
(* value), <<"try">> (fallible()?), <<"move", p>>, <<"borrow", p, mutable>>*)
(* or <<"ref", r>> (a reference held by the local r).                      *)
(***************************************************************************)
EXTENDS Naturals, Sequences, FiniteSets

\* A place overlaps another when one extends the other.
places_overlap(a, b) ==
    \A i \in 1..(IF Len(a) < Len(b) THEN Len(a) ELSE Len(b)) : a[i] = b[i]

Fail(s) == [s EXCEPT !.ok = FALSE]

-----------------------------------------------------------------------------
(* Uses of a place.                                                         *)

ensure_no_conflicting_loan(s, p, mutation) ==
    \A l \in s.loans : ~(places_overlap(l.place, p) /\ (mutation \/ l.mutable))

\* A place whose local is initialised, and that no move out of a field
\* reaches.  Only the first field of a place is remembered.
ensure_initialized(s, p) ==
    LET slot == s.slots[p[1]] IN
    \/ slot.state = "initialized"
    \/ slot.state = "partial" /\ Len(p) > 1 /\ p[2] \notin slot.fields

Moved(slot, p) ==
    IF Len(p) = 1 THEN [slot EXCEPT !.state = "moved", !.fields = {}]
    ELSE [slot EXCEPT !.state = "partial", !.fields = @ \cup {p[2]}]

use_place(s, p, mode) ==
    LET moves == mode = "consume" /\ s.slots[p[1]].kind # "shared" IN
    IF ~ensure_initialized(s, p) \/ ~ensure_no_conflicting_loan(s, p, moves) THEN Fail(s)
    ELSE IF moves THEN [s EXCEPT !.slots[p[1]] = Moved(@, p)]
    ELSE s

check_borrow(s, p, mutable) ==
    /\ mutable => s.slots[p[1]].mutable
    /\ ensure_initialized(s, p)
    /\ \A l \in s.loans : ~(places_overlap(l.place, p) /\ (mutable \/ l.mutable))

Loan(p, mutable, borrower) == [place |-> p, mutable |-> mutable, borrower |-> borrower]

-----------------------------------------------------------------------------
(* Expressions.                                                             *)

\* The places a reference-valued expression borrows from, as far as they
\* are recorded.
borrow_origins(s, e) ==
    CASE e[1] = "borrow" -> {<<e[2], e[3]>>}
      [] e[1] = "ref" -> s.slots[e[2]].origins
      [] OTHER -> {}

check_expr(s, e) ==
    CASE e[1] = "move" -> use_place(s, e[2], "consume")
      [] e[1] = "ref" -> use_place(s, <<e[2]>>, "consume")
      [] e[1] = "borrow" ->
            IF check_borrow(s, e[2], e[3])
            THEN [s EXCEPT !.loans = @ \cup {Loan(e[2], e[3], "nobody")}]
            ELSE Fail(s)
      [] OTHER -> s

KindOf(s, e) ==
    CASE e[1] = "borrow" -> IF e[3] THEN "exclusive" ELSE "shared"
      [] e[1] = "ref" -> s.slots[e[2]].kind
      [] OTHER -> "owned"

\* The loans a reference stands for pass to its new holder.
attach_borrow_origins(s, id, origins) ==
    IF origins = {} THEN s ELSE
    LET givers == {l.borrower : l \in {k \in s.loans : <<k.place, TRUE>> \in origins}} \ {"nobody"}
        kept == {l \in s.loans :
                    /\ l.borrower # id
                    /\ l.borrower \notin givers
                    /\ ~(l.borrower = "nobody" /\ <<l.place, l.mutable>> \in origins)}
        taken == {Loan(o[1], o[2], id) : o \in origins}
        legal == \A o \in origins : check_borrow([s EXCEPT !.loans = kept], o[1], o[2]) IN
    IF ~legal THEN Fail(s)
    ELSE [s EXCEPT !.loans = kept \cup taken, !.slots[id].origins = origins]

-----------------------------------------------------------------------------
(* Scopes and loans.                                                        *)

declare(s, name, kind, mutable, initialized) ==
    IF name \in DOMAIN s.slots /\ s.slots[name].depth = s.depth THEN Fail(s)
    ELSE LET slot == [kind |-> kind, mutable |-> mutable, depth |-> s.depth, fields |-> {},
                      origins |-> {},
                      state |-> IF initialized THEN "initialized" ELSE "uninitialized"] IN
         [s EXCEPT !.slots = [n \in DOMAIN @ \cup {name} |-> IF n = name THEN slot ELSE @[n]]]

push_scope(s) == [s EXCEPT !.depth = @ + 1]

pop_scope(s) ==
    LET kept == {n \in DOMAIN s.slots : s.slots[n].depth < s.depth} IN
    [s EXCEPT !.slots = [n \in kept |-> s.slots[n]],
              !.loans = {l \in @ : l.borrower \in kept \cup {"nobody"}},
              !.depth = @ - 1]

RECURSIVE collect_block_names(_)

ExprNames(e) ==
    CASE e[1] \in {"move", "borrow"} -> {e[2][1]} [] e[1] = "ref" -> {e[2]} [] OTHER -> {}

collect_statement_names(t) ==
    CASE t[1] = "let" -> ExprNames(t[3])
      [] t[1] = "assign" -> {t[2][1]} \cup ExprNames(t[3])
      [] t[1] \in {"use", "sink", "sinktry", "match"} -> {t[2][1]}
      [] t[1] = "if" -> collect_block_names(t[2]) \cup collect_block_names(t[3])
      [] t[1] \in {"while", "for", "loop"} -> collect_block_names(t[2])
      [] t[1] = "each" -> {t[2]} \cup collect_block_names(t[3])
      [] OTHER -> {}

collect_block_names(b) == UNION {collect_statement_names(b[i]) : i \in DOMAIN b}

\* The last statement of block b that mentions the name, or the default.
block_last_uses(b, name, default) ==
    LET at == {i \in DOMAIN b : name \in collect_statement_names(b[i])} IN
    IF at = {} THEN default ELSE CHOOSE i \in at : \A j \in at : j <= i

\* A plausible mistake: a nested block ends the loans of outer borrowers.
expire_loans_nested(s, b, index) ==
    [s EXCEPT !.loans = {l \in @ :
        l.borrower \in DOMAIN s.slots /\ block_last_uses(b, l.borrower, 1) >= index}]

\* A loan ends with the last statement, of the block its borrower belongs
\* to, that mentions the borrower.
expire_loans(s, b, index) ==
    [s EXCEPT !.loans = {l \in @ :
        /\ l.borrower \in DOMAIN s.slots
        /\ \/ s.slots[l.borrower].depth < s.depth
           \/ block_last_uses(b, l.borrower, 1) >= index}]

Unused(s, b, index, name) ==
    IF block_last_uses(b, name, index) = index
    THEN [s EXCEPT !.loans = {l \in @ : l.borrower # name}] ELSE s

-----------------------------------------------------------------------------
(* Joins.                                                                   *)

merge_init(a, b) ==
    LET states == {a.state, b.state} IN
    IF "uninitialized" \in states THEN "uninitialized"
    ELSE IF "moved" \in states THEN "moved"
    ELSE IF "partial" \in states THEN "partial" ELSE "initialized"

\* The join of two branches.
merge_from(s, left, right) ==
    [s EXCEPT
        !.ok = left.ok /\ right.ok,
        !.slots = [n \in DOMAIN @ |->
            LET a == left.slots[n] b == right.slots[n] IN
            [@[n] EXCEPT !.state = merge_init(a, b),
                         !.fields = IF merge_init(a, b) = "partial" THEN a.fields \cup b.fields ELSE {},
                         !.origins = a.origins \cup b.origins]],
        !.loans = left.loans \cup right.loans]

\* A plausible mistake: what the body moves is not carried to its next turn.
merge_loop_before(s, body) == [s EXCEPT !.ok = @ /\ body.ok, !.loans = @ \cup body.loans]

\* The join of the state before a loop and after its body.
merge_loop(s, body) ==
    [s EXCEPT
        !.ok = @ /\ body.ok,
        !.slots = [n \in DOMAIN @ |->
            LET a == @[n] b == body.slots[n]
                after == a.state # "uninitialized" /\ b.state \in {"moved", "partial"} IN
            [a EXCEPT !.state = IF after THEN b.state ELSE @,
                      !.fields = IF after THEN b.fields ELSE @,
                      !.origins = @ \cup b.origins]],
        !.loans = @ \cup body.loans]

-----------------------------------------------------------------------------
(* Statements.                                                              *)

check_binding(s, t, b, index) ==
    LET name == t[2] e == t[3] IN
    IF e[1] = "borrow"
    THEN \* a borrow bound directly: a loan, and no recorded origin
         IF ~check_borrow(s, e[2], e[3]) THEN Fail(s)
         ELSE LET d == declare(s, name, KindOf(s, e), t[4], TRUE) IN
              Unused([d EXCEPT !.loans = @ \cup {Loan(e[2], e[3], name)}], b, index, name)
    ELSE LET origins == borrow_origins(s, e)
             d == declare(check_expr(s, e), name, KindOf(s, e), t[4], e[1] # "none") IN
         IF d.ok /\ origins # {} THEN Unused(attach_borrow_origins(d, name, origins), b, index, name)
         ELSE d

check_assignment(s, p, e) ==
    LET slot == s.slots[p[1]]
        whole == Len(p) = 1
        origins == borrow_origins(s, e)
        r == check_expr(s, e)
        escapes == \E o \in origins : slot.depth < s.slots[o[1][1]].depth
        left == r.slots[p[1]].fields \ {p[2]}
        assigned ==
            IF whole THEN [r EXCEPT !.slots[p[1]].state = "initialized", !.slots[p[1]].fields = {}]
            ELSE IF r.slots[p[1]].state # "partial" THEN r
            ELSE [r EXCEPT !.slots[p[1]].fields = left,
                           !.slots[p[1]].state = IF left = {} THEN "initialized" ELSE @]
        carried == origins \cup (IF whole THEN {} ELSE slot.origins)
        freed == [assigned EXCEPT !.loans = {l \in @ : l.borrower # p[1]}] IN
    IF \/ ~slot.mutable /\ slot.state \in {"initialized", "partial"}
       \/ ~ensure_no_conflicting_loan(s, p, TRUE)
       \/ ~r.ok
       \/ escapes
    THEN Fail(s)
    ELSE IF ~whole /\ origins = {} THEN assigned
    ELSE IF carried = {} THEN [freed EXCEPT !.slots[p[1]].origins = {}]
    ELSE attach_borrow_origins(freed, p[1], carried)

RECURSIVE check_block(_, _), check_from(_, _, _)

\* A loop body is checked from the state before the loop and again from
\* that state joined with its own result; what follows is the join of both.
check_loop(s, Body(_)) ==
    LET once == Body(s)
        again == Body(merge_loop(s, once)) IN
    IF ~once.ok \/ ~again.ok THEN Fail(s) ELSE merge_loop(s, again)

check_while(s, b) == check_loop(s, LAMBDA z : check_block(z, b))

InScope(s, name, b) == pop_scope(check_from(declare(push_scope(s), name, "shared", FALSE, TRUE), b, 1))
check_for(s, b) == check_loop(s, LAMBDA z : InScope(z, "n", b))

check_each(s, c, b) ==
    LET Lent(z) == [z EXCEPT !.loans = @ \cup {Loan(<<c>>, FALSE, "i")}] IN
    check_loop(use_place(s, <<c>>, "read"), LAMBDA z :
        pop_scope(check_from(Lent(declare(push_scope(z), "i", "shared", FALSE, TRUE)), b, 1)))

check_statement(s, t, b, index) ==
    CASE t[1] = "let" -> check_binding(s, t, b, index)
      [] t[1] = "assign" ->
            LET r == check_assignment(s, t[2], t[3]) IN
            \* a whole assignment then ends every loan of the local, new ones too
            IF Len(t[2]) = 1 THEN [r EXCEPT !.loans = {l \in @ : l.borrower # t[2][1]}] ELSE r
      [] t[1] = "use" -> use_place(s, t[2], "read")
      [] t[1] \in {"sink", "sinktry"} -> use_place(s, t[2], "consume")
      [] t[1] = "match" ->
            LET matched == use_place(s, t[2], "consume")
                some == declare(push_scope(matched), "v", "owned", FALSE, TRUE)
                arm == use_place(some, <<"v">>, IF t[3] = "sink" THEN "consume" ELSE "read") IN
            IF ~matched.ok THEN matched
            ELSE merge_from(matched, matched, merge_from(matched, pop_scope(arm), matched))
      [] t[1] = "if" -> merge_from(s, check_block(s, t[2]), check_block(s, t[3]))
      [] t[1] \in {"while", "loop"} -> check_while(s, t[2])
      [] t[1] = "for" -> check_for(s, t[2])
      [] t[1] = "each" -> check_each(s, t[2], t[3])
      [] OTHER -> s      \* break, continue and return leave the state as it is

check_from(s, b, index) ==
    IF index > Len(b) \/ ~s.ok THEN s
    ELSE check_from(check_statement(expire_loans(s, b, index), b[index], b, index), b, index + 1)

check_block(s, b) == IF ~s.ok THEN s ELSE pop_scope(check_from(push_scope(s), b, 1))

check_function(b) ==
    check_from([ok |-> TRUE, slots |-> [n \in {} |-> 0], loans |-> {}, depth |-> 0], b, 1).ok
=============================================================================
