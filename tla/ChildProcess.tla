---------------------------- MODULE ChildProcess ----------------------------
(***************************************************************************)
(* One sandboxed child and the threads of the host that serve it, in the   *)
(* three ways the program runs one:                                        *)
(*   "start"  ProcessCommand.start: a streaming handle that its owner      *)
(*            writes, reads, polls, kills, waits for or drops;             *)
(*   "run"    ProcessCommand.run: execute_process, with scoped threads;    *)
(*   "output" SandboxedCommand::output_with_input: the toolchain and the   *)
(*            component host, with one byte budget for both streams.       *)
(* Bytes are counted in chunks.  The child's tree is its root process and  *)
(* one descendant that inherited the pipes.                                *)
(***************************************************************************)
EXTENDS Integers, FiniteSets

CONSTANTS Limit,       \* PROCESS_STREAM_LIMIT or output_bytes, in chunks
          PipeSize,    \* what the kernel holds of an output pipe, in chunks
          InputSize,   \* and of the input pipe
          MaxOutput,   \* bound: chunks the tree writes
          MaxInput,    \* bound: chunks of input given to run and output
          MaxWrites,   \* bound: chunks the owner of a streaming handle writes
          MaxFaults,   \* bound: failed kills and failed pipe reads
          Modes        \* the ways to run that an instance explores

VARIABLES mode,     \* which of the three
          proc,     \* the kernel's view of the tree
          handle,   \* RuntimeChildState: status, input end, deadline
          wire,     \* chunks in the kernel's stdout and stderr pipes
          cap,      \* RuntimeChildPipe of each stream
          made,     \* history: chunks the tree wrote to each stream
          taken,    \* history: chunks the owner was given of each stream
          input,    \* stdin: chunks in the pipe, chunks still to write
          owner,    \* program counter of the thread that owns the handle
          result,   \* outcome of the call that ends the handle
          faults    \* faults so far

child_vars == <<mode, proc, handle, wire, cap, made, taken, input, owner, result, faults>>

\* A stream's capture is a number of chunks; there is no fourth way to run a child.
ASSUME ChildAssumption == Limit \in Nat /\ Modes \subseteq {"start", "run", "output"}

Pipe == {"stdout", "stderr"}
None == "none"
Total(f) == f["stdout"] + f["stderr"]
Min2(a, b) == IF a < b THEN a ELSE b

ChildTypeOK ==
  /\ mode \in Modes
  /\ proc \in [root : {"live", "zombie", "reaped"}, kid : {"unborn", "live", "dead"},
               code : {None, "exit", "signal"}]
  /\ handle \in [status : {None, "exit", "signal", "124"}, input : BOOLEAN,
                 deadline : {None, "armed", "past"}]
  /\ wire \in [Pipe -> 0..PipeSize]
  /\ cap \in [Pipe -> [bytes : 0..(Limit + 1), done : BOOLEAN, failed : BOOLEAN,
                       overflow : BOOLEAN]]
  /\ made \in [Pipe -> 0..MaxOutput] /\ taken \in [Pipe -> 0..MaxOutput]
  /\ input \in [pipe : 0..InputSize, left : 0..MaxInput, sent : 0..MaxInput,
                writer : {None, "running", "ok", "broken"}]
  /\ owner \in {"starting", "idle", "writing", "read_stdout", "read_stderr", "waiting",
                "checking", "joining", "dropping", "draining", "polling", "collecting", "gone"}
  /\ result \in {None, "ok", "error", "timeout"}
  /\ faults \in 0..MaxFaults

EmptyPipe == [bytes |-> 0, done |-> FALSE, failed |-> FALSE, overflow |-> FALSE]

(* start_process, execute_process and output_with_input up to the point    *)
(* where the child runs and the reader threads exist.                      *)
ChildInit ==
  /\ mode \in Modes
  /\ proc = [root |-> "live", kid |-> "unborn", code |-> None]
  /\ \E deadline \in {None, "armed"}, first \in 0..MaxInput :
       /\ mode = "start" => first <= MaxWrites
       /\ mode = "output" => deadline = "armed"
       /\ handle = [status |-> None, input |-> TRUE, deadline |-> deadline]
       /\ input = [pipe |-> 0, left |-> first, sent |-> 0,
                   writer |-> IF mode = "start" THEN None ELSE "running"]
       /\ owner = IF mode # "start" THEN "polling" ELSE IF first > 0 THEN "starting" ELSE "idle"
  /\ wire = [p \in Pipe |-> 0]
  /\ cap = [p \in Pipe |-> EmptyPipe]
  /\ made = [p \in Pipe |-> 0] /\ taken = [p \in Pipe |-> 0]
  /\ result = None /\ faults = 0

-----------------------------------------------------------------------------
(* The tree, outside this program: it reads, writes, forks and exits as it *)
(* likes until it is killed, and nothing obliges it to do any of it.       *)

Alive == proc.root = "live" \/ proc.kid = "live"

TreeWrites(p) ==
  /\ Alive /\ ~cap[p].done /\ wire[p] < PipeSize /\ Total(made) < MaxOutput
  /\ wire' = [wire EXCEPT ![p] = @ + 1]
  /\ made' = [made EXCEPT ![p] = @ + 1]
  /\ UNCHANGED <<mode, proc, handle, cap, taken, input, owner, result, faults>>

TreeReads ==
  /\ Alive /\ input.pipe > 0
  /\ input' = [input EXCEPT !.pipe = @ - 1]
  /\ UNCHANGED <<mode, proc, handle, wire, cap, made, taken, owner, result, faults>>

TreeChanges ==
  /\ \/ /\ proc.root = "live" /\ proc.kid = "unborn"
        /\ proc' = [proc EXCEPT !.kid = "live"]
     \/ /\ proc.kid = "live"
        /\ proc' = [proc EXCEPT !.kid = "dead"]
     \/ /\ proc.root = "live"
        /\ proc' = [proc EXCEPT !.root = "zombie", !.code = "exit"]
  /\ UNCHANGED <<mode, handle, wire, cap, made, taken, input, owner, result, faults>>

(* The clock passes the deadline of the command (timeout or wall_millis).  *)
DeadlinePasses ==
  /\ handle.deadline = "armed"
  /\ handle' = [handle EXCEPT !.deadline = "past"]
  /\ UNCHANGED <<mode, proc, wire, cap, made, taken, input, owner, result, faults>>

-----------------------------------------------------------------------------
(* process_sandbox: the operations on the tree.  ok = FALSE is a failed    *)
(* SandboxGuard::terminate.                                                *)

Outcome == IF faults < MaxFaults THEN BOOLEAN ELSE {TRUE}
Fault(ok) == faults' = IF ok THEN faults ELSE faults + 1

GroupKilled(t) == [t EXCEPT !.kid = IF @ = "live" THEN "dead" ELSE @]
RootReaped(t) == [t EXCEPT !.root = "reaped", !.code = IF @ = None THEN "signal" ELSE @]

\* A fault: the root is killed, its descendants are not.
kill_root(t, ok) == IF ok THEN RootReaped(t) ELSE t

\* kill_tree: terminate()? comes first, so a failure leaves the tree as it is.
kill_tree(t, ok) == IF ok THEN RootReaped(GroupKilled(t)) ELSE t

\* A fault: a child that exited by itself leaves its descendants.
try_wait_alone(t, ok) == IF t.root = "live" THEN t ELSE RootReaped(t)

\* try_wait: a child that exited is reaped, then the rest of its group is killed.
try_wait(t, ok) ==
  IF t.root = "live" THEN t
  ELSE LET reaped == RootReaped(t) IN IF ok THEN GroupKilled(reaped) ELSE reaped

\* terminate_and_wait ignores both results: the root is killed directly as well.
terminate_and_wait(t, ok) == RootReaped(IF ok THEN GroupKilled(t) ELSE t)

-----------------------------------------------------------------------------
(* The reader threads.  count is what one read() returned.                 *)

EndOfFile(p) == wire[p] = 0 /\ ~Alive

Keep(p, count) ==
  CASE mode = "start"  -> Min2(Limit - cap[p].bytes, count)
    [] mode = "run"    -> Min2(Limit + 1 - cap[p].bytes, count)
    [] mode = "output" -> Min2(Limit - (cap["stdout"].bytes + cap["stderr"].bytes), count)

\* A pipe after a read of which retained chunks were kept: over the limit, or read to it.
Captured(pipe, retained, over, full) ==
  [bytes |-> pipe.bytes + retained, done |-> full, failed |-> pipe.failed, overflow |-> pipe.overflow \/ over]

\* child_pipe_reader, the two readers of execute_process, bounded_read: one read().
ReadChunk(p) ==
  \E count \in 1..wire[p] :
    LET retained == Keep(p, count) IN
    /\ ~cap[p].done
    /\ wire' = [wire EXCEPT ![p] = @ - count]
    /\ cap' = [cap EXCEPT ![p] = Captured(@, retained, mode # "run" /\ retained < count,
                                          mode = "run" /\ cap[p].bytes + retained = Limit + 1)]
    /\ UNCHANGED <<mode, proc, handle, made, taken, input, owner, result, faults>>

ReaderEnds(p) ==
  /\ ~cap[p].done /\ EndOfFile(p)
  /\ cap' = [cap EXCEPT ![p].done = TRUE]
  /\ UNCHANGED <<mode, proc, handle, wire, made, taken, input, owner, result, faults>>

ReaderFails(p) ==
  /\ ~cap[p].done /\ faults < MaxFaults
  /\ cap' = [cap EXCEPT ![p].done = TRUE, ![p].failed = TRUE]
  /\ faults' = faults + 1
  /\ UNCHANGED <<mode, proc, handle, wire, made, taken, input, owner, result>>

\* The writer thread of execute_process and of output_with_input: write_all, then close.
WriterThread ==
  /\ input.writer = "running"
  /\ \/ /\ input.left > 0 /\ Alive /\ input.pipe < InputSize
        /\ input' = [input EXCEPT !.pipe = @ + 1, !.left = @ - 1, !.sent = @ + 1]
        /\ UNCHANGED handle
     \/ /\ input.left > 0 /\ ~Alive
        /\ input' = [input EXCEPT !.writer = "broken"]
        /\ handle' = [handle EXCEPT !.input = FALSE]
     \/ /\ input.left = 0
        /\ input' = [input EXCEPT !.writer = "ok"]
        /\ handle' = [handle EXCEPT !.input = FALSE]
  /\ UNCHANGED <<mode, proc, wire, cap, made, taken, owner, result, faults>>

-----------------------------------------------------------------------------
(* The streaming handle.  Every operation takes the state lock; the owner  *)
(* is alone, so a critical section is one step.                            *)

TimedOut == handle.status = None /\ handle.deadline = "past"

\* An operation of the handle returns, with a value or an error; the owner may go on with it.
Return == owner' = "idle" /\ UNCHANGED result

\* check_timeout on its error path: the result of kill_tree is dropped.
check_timeout(ok) ==
  /\ TimedOut
  /\ proc' = kill_tree(proc, ok) /\ Fault(ok)
  /\ handle' = [handle EXCEPT !.status = "124", !.input = FALSE]

\* The section that read_pipe, try_wait and wait share when the deadline has not passed:
\* the status of a child that exited is recorded and its input closed.
Polled(ok) ==
  /\ ~TimedOut
  /\ IF handle.status = None /\ proc.root # "live"
     THEN /\ proc' = try_wait(proc, ok) /\ Fault(ok)
          /\ handle' = IF ok THEN [handle EXCEPT !.status = proc'.code, !.input = FALSE] ELSE handle
     ELSE ok /\ UNCHANGED <<proc, handle, faults>>

Unmoved == UNCHANGED <<mode, wire, cap, made, taken, input>>

write ==
  /\ mode = "start" /\ owner = "idle"
  /\ \E ok \in Outcome :
       \/ check_timeout(ok) /\ Return /\ UNCHANGED input
       \/ /\ ~TimedOut /\ ok /\ ~handle.input
          /\ Return /\ UNCHANGED <<proc, handle, input, faults>>
       \/ /\ ~TimedOut /\ ok /\ handle.input
          /\ \E n \in 1..(MaxWrites - input.sent) : input' = [input EXCEPT !.left = n]
          /\ owner' = "writing" /\ UNCHANGED <<result, proc, handle, faults>>
  /\ UNCHANGED <<mode, wire, cap, made, taken>>

\* write_all under the lock: it blocks while the pipe is full, whatever the deadline says.
\* "starting" is the write of the initial input inside start_process, before the owner
\* has the handle: when it fails the handle is dropped.
WriteAll ==
  /\ owner \in {"starting", "writing"}
  /\ \/ /\ owner = "starting" /\ TimedOut /\ input.sent = 0
        /\ \E ok \in Outcome : check_timeout(ok)
        /\ owner' = "dropping" /\ result' = "timeout"
        /\ UNCHANGED input
     \/ /\ input.left > 0 /\ Alive /\ input.pipe < InputSize
        /\ input' = [input EXCEPT !.pipe = @ + 1, !.left = @ - 1, !.sent = @ + 1]
        /\ UNCHANGED <<proc, handle, owner, result, faults>>
     \/ /\ input.left > 0 /\ ~Alive
        /\ input' = [input EXCEPT !.left = 0]
        /\ owner' = IF owner = "starting" THEN "dropping" ELSE "idle"
        /\ result' = "error" /\ UNCHANGED <<proc, handle, faults>>
     \/ /\ input.left = 0
        /\ Return /\ UNCHANGED <<input, proc, handle, faults>>
  /\ UNCHANGED <<mode, wire, cap, made, taken>>

close_input ==
  /\ mode = "start" /\ owner = "idle"
  /\ \E ok \in Outcome :
       \/ check_timeout(ok) /\ Return
       \/ /\ ~TimedOut /\ ok
          /\ handle' = [handle EXCEPT !.input = FALSE]
          /\ Return /\ UNCHANGED <<proc, faults>>
  /\ Unmoved

Reading(p) == IF p = "stdout" THEN "read_stdout" ELSE "read_stderr"

ReadStarts(p) ==
  /\ mode = "start" /\ owner = "idle"
  /\ owner' = Reading(p)
  /\ Unmoved /\ UNCHANGED <<result, proc, handle, faults>>

\* One turn of the loop of read_pipe; an unchanged owner is the sleep.
read_pipe(p) ==
  /\ owner = Reading(p)
  /\ \E ok \in Outcome :
       \/ check_timeout(ok) /\ Return /\ UNCHANGED <<cap, taken>>
       \/ /\ Polled(ok)
          /\ CASE ~ok -> Return /\ UNCHANGED <<cap, taken>>
               [] ok /\ (cap[p].failed \/ cap[p].overflow) ->
                    Return /\ UNCHANGED <<cap, taken>>
               [] OTHER ->
                    \/ \E n \in 1..cap[p].bytes :
                         /\ cap' = [cap EXCEPT ![p].bytes = @ - n]
                         /\ taken' = [taken EXCEPT ![p] = @ + n]
                         /\ Return
                    \/ /\ cap[p].bytes = 0
                       /\ IF cap[p].done THEN Return ELSE UNCHANGED <<owner, result>>
                       /\ UNCHANGED <<cap, taken>>
  /\ UNCHANGED <<mode, wire, made, input>>

TryWait ==
  /\ mode = "start" /\ owner = "idle"
  /\ \E ok \in Outcome :
       \/ check_timeout(ok) /\ Return
       \/ Polled(ok) /\ Return
  /\ Unmoved

kill ==
  /\ mode = "start" /\ owner = "idle"
  /\ \E ok \in Outcome :
       IF handle.status = None
       THEN /\ proc' = kill_tree(proc, ok) /\ Fault(ok)
            /\ handle' = IF ok THEN [handle EXCEPT !.status = proc'.code, !.input = FALSE]
                         ELSE handle
            /\ Return
       ELSE /\ ok /\ handle' = [handle EXCEPT !.input = FALSE]
            /\ Return /\ UNCHANGED <<proc, faults>>
  /\ Unmoved

\* wait consumes the handle: on every error it is dropped.
WaitStarts ==
  /\ mode = "start" /\ owner = "idle"
  /\ owner' = "waiting"
  /\ Unmoved /\ UNCHANGED <<result, proc, handle, faults>>

WaitPoll ==
  /\ owner = "waiting"
  /\ \E ok \in Outcome :
       \/ check_timeout(ok) /\ owner' = "dropping" /\ result' = "timeout"
       \/ /\ Polled(ok)
          /\ owner' = IF ok THEN "checking" ELSE "dropping"
          /\ result' = IF ok THEN result ELSE "error"
  /\ Unmoved

\* A fault: the status alone ends the wait.
WaitCheckEarly ==
  /\ owner = "checking"
  /\ owner' = IF handle.status # None THEN "joining" ELSE "waiting"
  /\ Unmoved /\ UNCHANGED <<proc, handle, result, faults>>

\* The done flags are read after the lock is released.
WaitCheck ==
  /\ owner = "checking"
  /\ owner' = IF handle.status # None /\ \A p \in Pipe : cap[p].done THEN "joining" ELSE "waiting"
  /\ Unmoved /\ UNCHANGED <<proc, handle, result, faults>>

WaitCollects ==
  /\ owner = "joining"
  /\ IF \E p \in Pipe : cap[p].failed \/ cap[p].overflow
     THEN result' = "error" /\ UNCHANGED <<cap, taken>>
     ELSE /\ result' = "ok"
          /\ taken' = [p \in Pipe |-> taken[p] + cap[p].bytes]
          /\ cap' = [p \in Pipe |-> [cap[p] EXCEPT !.bytes = 0]]
  /\ owner' = "dropping"
  /\ UNCHANGED <<mode, proc, handle, wire, made, input, faults>>

\* A handle goes out of scope.
Release ==
  /\ mode = "start" /\ owner = "idle"
  /\ owner' = "dropping"
  /\ Unmoved /\ UNCHANGED <<result, proc, handle, faults>>

\* RuntimeChildInner::drop up to the joins.
DropKills ==
  /\ owner = "dropping"
  /\ \E ok \in Outcome :
       IF handle.status = None
       THEN /\ proc' = kill_tree(proc, ok) /\ Fault(ok)
            /\ handle' = [handle EXCEPT !.status = IF ok THEN proc'.code ELSE @, !.input = FALSE]
       ELSE /\ ok /\ handle' = [handle EXCEPT !.input = FALSE]
            /\ UNCHANGED <<proc, faults>>
  /\ owner' = "draining"
  /\ Unmoved /\ UNCHANGED result

\* The joins, then SandboxedProcess::drop.  In "run" and "output" mode the readers are
\* joined in CollectOutput, and only SandboxedProcess::drop is left.
DropJoins ==
  /\ owner = "draining"
  /\ mode = "start" => \A p \in Pipe : cap[p].done
  /\ input.writer # "running"
  /\ \E ok \in Outcome :
       /\ proc' = IF proc.root = "live" THEN terminate_and_wait(proc, ok) ELSE try_wait(proc, ok)
       /\ Fault(ok)
  /\ owner' = "gone"
  /\ Unmoved /\ UNCHANGED <<handle, result>>

-----------------------------------------------------------------------------
(* execute_process and wait_with_output: one turn of their polling loops.  *)
(* wait_with_output looks at the overflow flag first, and polls last.      *)

PollProcess ==
  /\ owner = "polling"
  /\ \E ok \in Outcome :
       IF mode = "output" /\ \E p \in Pipe : cap[p].overflow
       THEN /\ proc' = terminate_and_wait(proc, ok) /\ Fault(ok)
            /\ owner' = "collecting" /\ result' = "error"
       ELSE IF proc.root # "live"
       THEN /\ proc' = try_wait(proc, ok) /\ Fault(ok)
            /\ owner' = IF mode = "output" /\ ~ok THEN "draining" ELSE "collecting"
            /\ result' = IF ok THEN "ok" ELSE "error"
       ELSE /\ handle.deadline = "past"
            /\ proc' = IF mode = "run" THEN kill_tree(proc, ok) ELSE terminate_and_wait(proc, ok)
            /\ Fault(ok)
            /\ owner' = "collecting" /\ result' = "timeout"
  /\ Unmoved /\ UNCHANGED handle

\* The joins at the end: the scope of execute_process waits for its three threads on every
\* path; wait_with_output joins its readers and output_with_input its writer.
CollectOutput ==
  /\ owner = "collecting"
  /\ input.writer # "running" /\ \A p \in Pipe : cap[p].done
  /\ IF /\ result = "ok" /\ input.writer = "ok"
        /\ \A p \in Pipe : ~cap[p].failed
        /\ mode = "run" => \A p \in Pipe : cap[p].bytes <= Limit
     THEN /\ taken' = [p \in Pipe |-> cap[p].bytes]
          /\ UNCHANGED result
     ELSE /\ result' = IF result = "timeout" THEN "timeout" ELSE "error"
          /\ UNCHANGED taken
  /\ owner' = "draining"
  /\ UNCHANGED <<mode, proc, handle, wire, cap, made, input, faults>>

OwnerSteps ==
  \/ WriteAll \/ WaitPoll \/ WaitCheck \/ WaitCollects \/ DropKills \/ DropJoins
  \/ PollProcess \/ CollectOutput
  \/ \E p \in Pipe : read_pipe(p)

ReaderSteps(p) == ReadChunk(p) \/ ReaderEnds(p)

OwnerChooses ==
  \/ write \/ close_input \/ TryWait \/ kill \/ WaitStarts \/ Release
  \/ \E p \in Pipe : ReadStarts(p)

TreeStep == TreeReads \/ TreeChanges \/ \E p \in Pipe : TreeWrites(p)

ChildNext ==
  \/ TreeStep \/ DeadlinePasses \/ OwnerSteps \/ OwnerChooses \/ WriterThread
  \/ \E p \in Pipe : ReaderSteps(p) \/ ReaderFails(p)

ChildSpec == ChildInit /\ [][ChildNext]_child_vars

(* The host's threads run and time passes.  Nothing is assumed of the tree, and an owner   *)
(* is not obliged to start another operation.                                              *)
Fairness ==
  /\ WF_child_vars(OwnerSteps) /\ WF_child_vars(WriterThread) /\ WF_child_vars(DeadlinePasses)
  /\ \A p \in Pipe : WF_child_vars(ReaderSteps(p))

FairSpec == ChildSpec /\ Fairness

-----------------------------------------------------------------------------
(* Properties *)

Ended == owner \in {"dropping", "draining", "gone"}

(* When ChildProcess.wait or ProcessCommand.run succeed, every chunk the tree wrote has    *)
(* been handed to the owner, in the reads before or in the result: the exit status and the *)
(* ends of the two streams may arrive in any order without losing output.                  *)
StreamsComplete == mode # "output" /\ Ended /\ result = "ok" => taken = made

(* The same of SandboxedCommand::output: "Resource limits ... do not ... continue with     *)
(* partial output" (docs/language/RESOURCE_LIMITS.md).                                      *)
OutputComplete == mode = "output" /\ Ended /\ result = "ok" => taken = made

(* No stream ever holds more than the capture limit, and a result that was given to the    *)
(* owner fits in it, also when several chunks arrive in one read.                          *)
CaptureBounded ==
  /\ mode = "start" => \A p \in Pipe : cap[p].bytes <= Limit
  /\ mode = "output" => cap["stdout"].bytes + cap["stderr"].bytes <= Limit
  /\ mode = "run" => \A p \in Pipe : taken[p] <= Limit

(* The output a successful wait or run hands over is whole and within its limit.           *)
OutputExact == StreamsComplete /\ CaptureBounded

(* "timeout, kill, normal root exit, or final drop terminates remaining descendants before *)
(* pipe readers are joined" (docs/language/SANDBOX.md): once the owner gets to a join, the *)
(* whole tree is dead, unless a kill failed; and a handle that is gone leaves no zombie.   *)
TreeDeadBeforeJoin ==
  /\ owner \in {"joining", "draining", "collecting", "gone"} /\ faults = 0 => ~Alive
  /\ owner = "gone" => proc.root = "reaped"

\* A kill failed and its tree lives on: the status is decided or the joins have begun, so
\* nothing kills the tree again before its streams end.
Survives == Alive /\ faults > 0 /\ (handle.status # None \/ owner \in {"joining", "collecting", "draining"})

UnderDeadline == owner \notin {"idle", "writing", "starting", "gone"} /\ handle.deadline # None
Ready == owner \in {"idle", "gone"} \/ Survives

(* A read, a wait or a run of a child that has a deadline ends, whatever the tree does,    *)
(* unless the tree survives its kill; other faults do not excuse it.  And a handle that is *)
(* dropped is released, deadline or not: the joins of the readers come after the kill and  *)
(* see the end of their streams.  (A handle that is being dropped is never idle again.)    *)
ChildEnds == (UnderDeadline \/ owner = "dropping") ~> Ready

(* "A timeout terminates and reaps the child" (docs/language/SURFACE_SYNTAX.md): a write   *)
(* to a child that has a deadline ends as well.                                            *)
WritesMeetDeadline ==
  (owner \in {"writing", "starting"} /\ handle.deadline # None) ~> (owner \in {"idle", "gone"})
=============================================================================
