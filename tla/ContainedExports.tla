------------------------- MODULE ContainedExports -------------------------
(***************************************************************************)
(* The native runtime under a C host: exported functions that fail without *)
(* unwinding into C.  Each entry is a transaction of its thread: the       *)
(* blocks it allocates are on a list threaded through their headers, and   *)
(* the registrations it opens on a list of rollback hooks                  *)
(* (backend/allocator.rs, backend/runtime.rs).  A failure jumps to the     *)
(* wrapper, which runs the hooks and frees the blocks.  Meanwhile other    *)
(* threads of the host are in callbacks that the registrations gave out.   *)
(*                                                                         *)
(* The body of an export is any order of the operations that               *)
(* validate_export_graph admits.  A body may return with a block it forgot *)
(* to destroy; the wrapper then fails.  Entries it refuses (thread not     *)
(* attached, nested, null result pointer) change nothing and are left out, *)
(* and so are adopted registrations, which give out no callback.           *)
(***************************************************************************)
EXTENDS Naturals, Sequences, FiniteSets, FiniteSetsExt

CONSTANTS HostThread,         \* threads of the C host
          Exporter,       \* those that enter exports; the others only run callbacks
          Block,          \* addresses malloc returns: 1 .. n
          Size,           \* sizes of strings asked for
          CallbackSize,   \* size of the block of a callback
          MemoryLimit,    \* DISP_MAX_MEMORY_BYTES
          DepthLimit,     \* DISP_MAX_CALL_DEPTH
          Registration,   \* registrations that may be opened: 1 .. n
          MaxFailures     \* failing calls of malloc and failing callbacks explored

\* What the constants are.
ASSUME ExportsAssumption ==
    /\ Exporter \subseteq HostThread
    /\ Block \subseteq Nat \ {0} /\ Registration \subseteq Nat \ {0}
    /\ Size \subseteq Nat \ {0} /\ CallbackSize \in Nat \ {0} /\ MemoryLimit \in Nat /\ DepthLimit \in Nat /\ MaxFailures \in Nat

Null == 0

VARIABLES
    thread,    \* the thread local variables, and where the thread is
    heap,      \* the header of every block
    memory,    \* disp_runtime_memory_bytes
    given,     \* the registrations
    opened,    \* the registrations in the order in which they were opened
    failures   \* failures so far

exports_vars == <<thread, heap, memory, given, opened, failures>>

Outside == [attached |-> FALSE, at |-> "host", active |-> FALSE, head |-> Null, hooks |-> <<>>,
            depth |-> 0, base |-> 0, closing |-> Null, then |-> "host", in |-> Null]
Unused == [live |-> FALSE, size |-> 0, by |-> Null, owned |-> FALSE, prev |-> Null, next |-> Null]
Unopened == [state |-> "none", by |-> Null, callback |-> Null, quiesced |-> 0, released |-> 0]

ExportsInit ==
    /\ thread = [t \in HostThread |-> Outside]
    /\ heap = [b \in Block |-> Unused]
    /\ memory = 0
    /\ given = [r \in Registration |-> Unopened]
    /\ opened = <<>>
    /\ failures = 0

Stands(t, place) == thread[t].at = place /\ thread[t].closing = Null
Mine(t) == {b \in Block : heap[b].live /\ heap[b].by = t}
InCallback(r) == {u \in HostThread : thread[u].in = r}

\* dv_panic: longjmp to the wrapper, which begins to abort.
Panic(t) == thread' = [thread EXCEPT ![t].at = "abort"]

-----------------------------------------------------------------------------
(* The list of the transaction's blocks, as heap and head.                  *)

disp_ffi_track_allocation(h, head, b) ==
    [heap |-> [c \in Block |->
                CASE c = b -> [h[c] EXCEPT !.owned = TRUE, !.prev = Null, !.next = head]
                  [] c = head -> [h[c] EXCEPT !.prev = b]
                  [] OTHER -> h[c]],
     head |-> b]

(* A fault: the next block keeps its link to the one that leaves.           *)
untrack_forward(h, head, b) ==
    [heap |-> [c \in Block |->
                CASE c = b -> [h[c] EXCEPT !.owned = FALSE, !.prev = Null, !.next = Null]
                  [] h[b].prev # Null /\ c = h[b].prev -> [h[c] EXCEPT !.next = h[b].next]
                  [] OTHER -> h[c]],
     head |-> IF h[b].prev # Null THEN head ELSE h[b].next]

disp_ffi_untrack_allocation(h, head, b) ==
    IF ~h[b].owned THEN [heap |-> h, head |-> head] ELSE
    [heap |-> [c \in Block |->
                CASE c = b -> [h[c] EXCEPT !.owned = FALSE, !.prev = Null, !.next = Null]
                  [] h[b].prev # Null /\ c = h[b].prev -> [h[c] EXCEPT !.next = h[b].next]
                  [] h[b].next # Null /\ c = h[b].next -> [h[c] EXCEPT !.prev = h[b].prev]
                  [] OTHER -> h[c]],
     head |-> IF h[b].prev # Null THEN head ELSE h[b].next]

\* The first n blocks reached from a head.
Chain(h, head) ==
    LET at[n \in 0 .. Cardinality(Block)] ==
            IF n = 0 THEN head ELSE IF at[n - 1] = Null THEN Null ELSE h[at[n - 1]].next
    IN {at[n] : n \in 0 .. Cardinality(Block)} \ {Null}

-----------------------------------------------------------------------------
(* Entry and exit                                                           *)

Attach(t) ==
    /\ ~thread[t].attached
    /\ thread' = [thread EXCEPT ![t].attached = TRUE]
    /\ UNCHANGED <<heap, memory, given, opened, failures>>

Detach(t) ==
    /\ thread[t].attached /\ Stands(t, "host")
    /\ thread' = [thread EXCEPT ![t].attached = FALSE]
    /\ UNCHANGED <<heap, memory, given, opened, failures>>

\* The wrapper installs its target and begins the transaction; the prologue
\* of the function then counts the call.
EnterExport(t) ==
    /\ t \in Exporter /\ thread[t].attached /\ Stands(t, "host")
    /\ IF thread[t].active \/ thread[t].head # Null \/ thread[t].hooks # <<>>
       THEN Panic(t)
       ELSE thread' = [thread EXCEPT
                ![t].at = IF thread[t].depth >= DepthLimit THEN "abort" ELSE "body",
                ![t].active = TRUE,
                ![t].base = thread[t].depth,
                ![t].depth = IF @ >= DepthLimit THEN @ ELSE @ + 1]
    /\ UNCHANGED <<heap, memory, given, opened, failures>>

\* disp_runtime_enter_call and disp_runtime_leave_call of a helper.
Call(t) ==
    /\ Stands(t, "body")
    /\ IF thread[t].depth >= DepthLimit THEN Panic(t)
       ELSE thread' = [thread EXCEPT ![t].depth = @ + 1]
    /\ UNCHANGED <<heap, memory, given, opened, failures>>

LeaveCall(t) ==
    /\ Stands(t, "body") /\ thread[t].depth > thread[t].base + 1
    /\ thread' = [thread EXCEPT ![t].depth = @ - 1]
    /\ UNCHANGED <<heap, memory, given, opened, failures>>

\* A checked failure of the body: an overflow, an index, an explicit panic.
Fail(t) ==
    /\ Stands(t, "body")
    /\ Panic(t)
    /\ UNCHANGED <<heap, memory, given, opened, failures>>

\* The epilogue and disp_ffi_allocation_boundary_finish: what is left is
\* aborted and the entry fails.  Its test of the depth passes here, since the
\* calls of the body are balanced.
ReturnToHost(t) ==
    /\ Stands(t, "body") /\ thread[t].depth = thread[t].base + 1
    /\ thread' = IF thread[t].head # Null \/ thread[t].hooks # <<>>
                 THEN [thread EXCEPT ![t].at = "abort", ![t].depth = @ - 1]
                 ELSE [thread EXCEPT ![t].at = "host", ![t].depth = @ - 1, ![t].active = FALSE]
    /\ UNCHANGED <<heap, memory, given, opened, failures>>

-----------------------------------------------------------------------------
(* Allocation                                                               *)

\* disp_runtime_charge refuses; or malloc fails, after the charge; or both
\* succeed and the block, with its header, joins the transaction.  Addresses
\* are interchangeable, so malloc gives the least one that is free.
Allocates(b, n) ==
    /\ memory + n <= MemoryLimit
    /\ ~heap[b].live /\ \A c \in Block : c < b => heap[c].live
Refused(t, n) ==
    /\ memory + n > MemoryLimit
    /\ Panic(t)
    /\ UNCHANGED <<heap, memory, failures>>
MallocFails(t, charged) ==
    /\ failures < MaxFailures
    /\ failures' = failures + 1
    /\ memory' = memory + charged
    /\ Panic(t)
    /\ UNCHANGED heap
Fresh(t, n) == [Unused EXCEPT !.live = TRUE, !.size = n, !.by = t]
Joined(t, h, head, b) ==
    IF thread[t].active THEN disp_ffi_track_allocation(h, head, b) ELSE [heap |-> h, head |-> head]

disp_alloc(t, n) ==
    /\ Stands(t, "body")
    /\ \/ Refused(t, n)
       \/ memory + n <= MemoryLimit /\ MallocFails(t, n)
       \/ \E b \in Block :
            /\ Allocates(b, n)
            /\ LET list == Joined(t, [heap EXCEPT ![b] = Fresh(t, n)], thread[t].head, b)
               IN heap' = list.heap /\ thread' = [thread EXCEPT ![t].head = list.head]
            /\ memory' = memory + n
            /\ UNCHANGED failures
    /\ UNCHANGED <<given, opened>>

\* disp_dealloc of a block, as a change of heap, head and counter.
Released(t, h, head, b) ==
    LET list == disp_ffi_untrack_allocation(h, head, b)
    IN [heap |-> [list.heap EXCEPT ![b] = Unused], head |-> list.head]

Strings(t) == {b \in Mine(t) : \A r \in Registration : given[r].callback # b}

disp_dealloc(t, b) ==
    /\ Stands(t, "body") /\ b \in Strings(t)
    /\ LET list == Released(t, heap, thread[t].head, b)
       IN heap' = list.heap /\ thread' = [thread EXCEPT ![t].head = list.head]
    /\ memory' = memory - heap[b].size
    /\ UNCHANGED <<given, opened, failures>>

\* disp_realloc charges the growth, copies into a new block, and puts that in
\* the old one's place in the transaction.
disp_realloc(t, b, n) ==
    /\ Stands(t, "body") /\ b \in Strings(t) /\ n # heap[b].size
    /\ LET growth == IF n > heap[b].size THEN n - heap[b].size ELSE 0
       IN \/ Refused(t, growth)
          \/ memory + growth <= MemoryLimit /\ MallocFails(t, growth)
          \/ \E c \in Block :
               /\ Allocates(c, growth)
               /\ LET old == Released(t, [heap EXCEPT ![c] = Fresh(t, n)], thread[t].head, b)
                      list == IF heap[b].owned THEN Joined(t, old.heap, old.head, c) ELSE old
                  IN heap' = list.heap /\ thread' = [thread EXCEPT ![t].head = list.head]
               /\ memory' = memory + n - heap[b].size
               /\ UNCHANGED failures
    /\ UNCHANGED <<given, opened>>

-----------------------------------------------------------------------------
(* Registrations                                                            *)

\* CRegistration.register_async: the callback's block, the provider's
\* register, then disp_c_registration_open with its rollback hook.  The
\* provider may refuse, and the hook may find no memory once the provider has
\* the callback; either ends in a panic, the second after a full release.
register_async(t, r) ==
    LET n == CallbackSize IN
    /\ Stands(t, "body") /\ given[r].state = "none"
    /\ \/ Refused(t, n) /\ UNCHANGED <<given, opened>>
       \/ memory + n <= MemoryLimit /\ MallocFails(t, n) /\ UNCHANGED <<given, opened>>
       \/ /\ memory + n <= MemoryLimit /\ \E b \in Block : Allocates(b, n)
          /\ Panic(t)
          /\ UNCHANGED <<heap, memory, given, opened, failures>>
       \/ \E b \in Block, recorded \in BOOLEAN :
            LET list == Joined(t, [heap EXCEPT ![b] = Fresh(t, n)], thread[t].head, b)
            IN /\ Allocates(b, n)
               /\ heap' = list.heap
               /\ memory' = memory + n
               /\ given' = [given EXCEPT ![r] = [Unopened EXCEPT !.state = "open", !.by = t, !.callback = b]]
               /\ IF recorded
                  THEN /\ opened' = Append(opened, r)
                       /\ thread' = [thread EXCEPT ![t].head = list.head, ![t].hooks = <<r>> \o @]
                       /\ UNCHANGED failures
                  ELSE /\ failures < MaxFailures /\ failures' = failures + 1
                       /\ thread' = [thread EXCEPT ![t].head = list.head, ![t].closing = r, ![t].then = "abort"]
                       /\ UNCHANGED opened

\* disp_c_registration_close: the hook leaves its list before anything else,
\* wherever in it it is.
disp_c_registration_close(t, r) ==
    /\ Stands(t, "body") /\ given[r].state = "open" /\ given[r].by = t
    /\ thread' = [thread EXCEPT ![t].hooks = SelectSeq(@, LAMBDA q : q # r),
                                ![t].closing = r, ![t].then = "body"]
    /\ given' = [given EXCEPT ![r].state = "closed"]
    /\ UNCHANGED <<heap, memory, opened, failures>>

\* A fault: the provider is not asked to finish what is in flight.
quiesce_nothing(t) ==
    /\ thread[t].closing # Null /\ given[thread[t].closing].quiesced = 0
    /\ given' = [given EXCEPT ![thread[t].closing].quiesced = @ + 1]
    /\ UNCHANGED <<thread, heap, memory, opened, failures>>

\* disp_c_registration_release_parts: quiesce, whose contract is that no
\* callback starts and that it returns once none runs; then the callback is
\* freed, then the context released.
quiesce(t) ==
    /\ thread[t].closing # Null /\ given[thread[t].closing].quiesced = 0
    /\ InCallback(thread[t].closing) = {}
    /\ given' = [given EXCEPT ![thread[t].closing].quiesced = @ + 1]
    /\ UNCHANGED <<thread, heap, memory, opened, failures>>

release_parts(t) ==
    LET r == thread[t].closing
    IN /\ r # Null /\ given[r].quiesced > 0
       /\ LET list == Released(t, heap, thread[t].head, given[r].callback)
          IN /\ heap' = list.heap
             /\ thread' = [thread EXCEPT ![t].head = list.head, ![t].closing = Null, ![t].at = thread[t].then]
       /\ memory' = memory - heap[given[r].callback].size
       /\ given' = [given EXCEPT ![r].released = @ + 1, ![r].state = "closed", ![r].callback = Null]
       /\ UNCHANGED <<opened, failures>>

-----------------------------------------------------------------------------
(* disp_ffi_allocation_boundary_abort                                       *)

\* A fault: hooks run in the order in which they were installed.
AbortOldest(t) ==
    /\ Stands(t, "abort") /\ thread[t].hooks # <<>>
    /\ thread' = [thread EXCEPT ![t].hooks = SubSeq(@, 1, Len(@) - 1),
                                ![t].closing = thread[t].hooks[Len(thread[t].hooks)], ![t].then = "abort"]
    /\ given' = [given EXCEPT ![thread[t].hooks[Len(thread[t].hooks)]].state = "closed"]
    /\ UNCHANGED <<heap, memory, opened, failures>>

AbortHook(t) ==
    /\ Stands(t, "abort") /\ thread[t].hooks # <<>>
    /\ thread' = [thread EXCEPT ![t].hooks = Tail(@),
                                ![t].closing = Head(thread[t].hooks), ![t].then = "abort"]
    /\ given' = [given EXCEPT ![Head(thread[t].hooks)].state = "closed"]
    /\ UNCHANGED <<heap, memory, opened, failures>>

\* Then the list of blocks is walked, and the wrapper returns 1.
AbortBlocks(t) ==
    /\ Stands(t, "abort") /\ thread[t].hooks = <<>>
    /\ LET freed == Chain(heap, thread[t].head)
       IN /\ heap' = [b \in Block |-> IF b \in freed THEN Unused ELSE heap[b]]
          /\ memory' = memory - MapThenSumSet(LAMBDA b : heap[b].size, freed)
    /\ thread' = [thread EXCEPT ![t].at = "host", ![t].active = FALSE, ![t].head = Null,
                                ![t].depth = thread[t].base]
    /\ UNCHANGED <<given, opened, failures>>

-----------------------------------------------------------------------------
(* The trampoline of a registration, on any attached thread that is not in  *)
(* DISP.  A callback neither allocates nor owns (validate_c_callback_graph).*)

CallbackEnters(u, r) ==
    /\ thread[u].attached /\ Stands(u, "host")
    /\ given[r].callback # Null /\ \A t \in HostThread : thread[t].closing # r
    /\ thread[u].depth < DepthLimit
    /\ thread' = [thread EXCEPT ![u].at = "callback", ![u].in = r, ![u].depth = @ + 1]
    /\ UNCHANGED <<heap, memory, given, opened, failures>>

CallbackReturns(u) ==
    /\ thread[u].at = "callback"
    /\ thread' = [thread EXCEPT ![u].at = "host", ![u].in = Null, ![u].depth = @ - 1]
    /\ UNCHANGED <<heap, memory, given, opened, failures>>

\* The jump of a failing callback passes the epilogue that counts the call
\* down, and the trampoline does not.
CallbackFails(u) ==
    /\ thread[u].at = "callback"
    /\ failures < MaxFailures /\ failures' = failures + 1
    /\ thread' = [thread EXCEPT ![u].at = "host", ![u].in = Null]
    /\ UNCHANGED <<heap, memory, given, opened>>

-----------------------------------------------------------------------------
Cleans(t) == AbortHook(t) \/ AbortBlocks(t) \/ quiesce(t) \/ release_parts(t)

Step(t) ==
    \/ Attach(t) \/ Detach(t) \/ EnterExport(t) \/ Call(t) \/ LeaveCall(t) \/ Fail(t) \/ ReturnToHost(t)
    \/ Cleans(t) \/ CallbackReturns(t) \/ CallbackFails(t)
    \/ \E n \in Size : disp_alloc(t, n) \/ \E b \in Block : disp_realloc(t, b, n)
    \/ \E b \in Block : disp_dealloc(t, b)
    \/ \E r \in Registration :
         \/ disp_c_registration_close(t, r) \/ CallbackEnters(t, r)
         \/ register_async(t, r)

ExportsNext == \E t \in HostThread : Step(t)

ExportsSpec == ExportsInit /\ [][ExportsNext]_exports_vars

-----------------------------------------------------------------------------
(* Properties *)

ExportsTypeOK ==
    /\ DOMAIN thread = HostThread /\ DOMAIN heap = Block /\ DOMAIN given = Registration
    /\ memory \in 0 .. MemoryLimit
    /\ \A t \in HostThread :
         /\ thread[t].at \in {"host", "body", "abort", "callback"}
         /\ thread[t].depth \in 0 .. DepthLimit
         /\ Chain(heap, thread[t].head) \subseteq Block

(* The list of a transaction is what it should be after any order of        *)
(* allocations, reallocations and releases: every block of the thread is on *)
(* it once, a freed one never, and the links of neighbours agree.           *)
ListSound ==
    \A t \in HostThread :
      /\ Chain(heap, thread[t].head) = Mine(t)
      /\ \A b \in Mine(t) :
           /\ heap[b].owned
           /\ heap[b].prev = Null <=> b = thread[t].head
           /\ heap[b].next # Null => heap[heap[b].next].prev = b

(* disp_runtime_memory_bytes is what the live blocks add up to, on all      *)
(* threads.  A malloc that fails leaves its charge behind, so this is said  *)
(* of histories without one.                                                *)
MemoryExact ==
    failures = 0 => memory = MapThenSumSet(LAMBDA b : heap[b].size, {b \in Block : heap[b].live})

(* "every managed allocation ... reclaim", "complete semantic cleanup       *)
(* exactly once" (docs/language/SPECIFICATION_1.md, DISP-CORE-0107, 0110):  *)
(* a thread that is back in the host has left no block, no hook and no      *)
(* registration behind, whether the entry returned, failed or leaked.       *)
NothingLeft ==
    \A t \in HostThread : Stands(t, "host") =>
      /\ Mine(t) = {} /\ thread[t].hooks = <<>> /\ ~thread[t].active
      /\ \A r \in Registration : given[r].by = t =>
           given[r].quiesced = 1 /\ given[r].released = 1 /\ given[r].callback = Null

(* The list of a transaction is its thread's blocks, the counter their sum, *)
(* and an export that is over has left nothing behind.                      *)
BlocksExact == ListSound /\ MemoryExact /\ NothingLeft

(* "The provider ... MUST never invoke it afterward" (DISP-CORE-0105): the  *)
(* callback a thread of the host is in is alive until it is left.           *)
CallbacksLive ==
    \A u \in HostThread : thread[u].in # Null =>
      given[thread[u].in].callback # Null /\ heap[given[thread[u].in].callback].live

(* "all remaining hooks in strict reverse acquisition order"                *)
(* (DISP-CORE-0110): an abort begins to release a registration only when    *)
(* its thread has released every later one.                                 *)
Reversed ==
    \A t \in HostThread :
      (Stands(t, "abort") /\ thread'[t].closing # Null) =>
        LET position(r) == CHOOSE i \in DOMAIN opened : opened[i] = r
        IN \A r \in Registration :
             (given[r].by = t /\ r # thread'[t].closing /\ given[r].released = 0)
                => position(r) < position(thread'[t].closing)

(* "restore abandoned thread-local call-depth state" (DISP-CORE-0107): an   *)
(* export returns to the host with the depth it was entered with.           *)
Restored ==
    \A t \in HostThread :
      (thread[t].at \in {"body", "abort"} /\ thread'[t].at = "host") => thread'[t].depth = thread[t].base

(* An abort takes back what the entry did: both, on every step.             *)
RollbackOrdered == [][Reversed /\ Restored]_exports_vars

=============================================================================
