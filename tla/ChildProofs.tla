---------------------------- MODULE ChildProofs ----------------------------
(***************************************************************************)
(* Proofs about ChildProcess: that its tree is dead before a pipe reader   *)
(* is joined, and that the output it hands over is whole and bounded; and  *)
(* about KeyProvider, the child that holds the signing key.                *)
(***************************************************************************)
EXTENDS ChildProcess, KeyProvider, FiniteSetTheorems, SequenceTheorems, TLAPS

-----------------------------------------------------------------------------
(* The tree                                                                *)

ProcRecord == [root : {"live", "zombie", "reaped"}, kid : {"unborn", "live", "dead"}, code : {None, "exit", "signal"}]
HandleRecord == [status : {None, "exit", "signal", "124"}, input : BOOLEAN, deadline : {None, "armed", "past"}]

Dead(t) == t.root # "live" /\ t.kid # "live"
AtJoins == {"joining", "draining", "collecting", "gone"}

\* A decided status, like a join, means that the tree is dead, unless a kill failed.
TreeInv ==
  /\ proc \in ProcRecord /\ handle \in HandleRecord /\ faults \in Nat
  /\ faults = 0 /\ (handle.status # None \/ owner \in AtJoins) => Dead(proc)
  /\ owner = "joining" => handle.status # None
  /\ owner = "gone" => proc.root = "reaped"

\* What the operations on the tree do to it: none of them brings a process to life.
LEMMA Killings ==
  ASSUME NEW t \in ProcRecord, NEW ok \in BOOLEAN,
         NEW u \in {kill_tree(t, ok), try_wait(t, ok), terminate_and_wait(t, ok)}
  PROVE  /\ u \in ProcRecord
         /\ Dead(t) => Dead(u)
         /\ t.root = "reaped" => u.root = "reaped"
<1>1. \A x \in ProcRecord :
        /\ GroupKilled(x) \in ProcRecord /\ GroupKilled(x).root = x.root /\ GroupKilled(x).kid # "live"
        /\ RootReaped(x) \in ProcRecord /\ RootReaped(x).root = "reaped" /\ RootReaped(x).kid = x.kid
        /\ RootReaped(x).code \in {"exit", "signal"}
  BY ZenonT(30) DEF ProcRecord, GroupKilled, RootReaped, None
<1>2. QED BY <1>1 DEF kill_tree, try_wait, terminate_and_wait, Dead

\* A kill that succeeds leaves no process of the tree, and the root is reaped.
LEMMA Killed ==
  ASSUME NEW t \in ProcRecord
  PROVE  /\ Dead(kill_tree(t, TRUE)) /\ Dead(terminate_and_wait(t, TRUE))
         /\ kill_tree(t, TRUE).code \in {"exit", "signal"}
         /\ \A ok \in BOOLEAN : terminate_and_wait(t, ok).root = "reaped"
         /\ t.root # "live" => /\ Dead(try_wait(t, TRUE)) /\ try_wait(t, TRUE).code \in {"exit", "signal"}
                               /\ \A ok \in BOOLEAN : try_wait(t, ok).root = "reaped"
<1>1. \A x \in ProcRecord :
        /\ GroupKilled(x) \in ProcRecord /\ GroupKilled(x).root = x.root /\ GroupKilled(x).kid # "live"
        /\ GroupKilled(x).code = x.code
        /\ RootReaped(x) \in ProcRecord /\ RootReaped(x).root = "reaped" /\ RootReaped(x).kid = x.kid
        /\ RootReaped(x).code \in {"exit", "signal"}
  BY ZenonT(30) DEF ProcRecord, GroupKilled, RootReaped, None
<1>2. QED BY <1>1 DEF kill_tree, try_wait, terminate_and_wait, Dead


\* What a step may do to the tree and the status, whoever takes it.
SafeMove ==
  /\ proc' \in ProcRecord /\ handle' \in HandleRecord /\ faults' \in Nat
  /\ faults' = 0 => faults = 0
  /\ faults' = 0 /\ handle'.status # None => Dead(proc')
  /\ Dead(proc) => Dead(proc')
  /\ proc.root = "reaped" => proc'.root = "reaped"
  /\ handle.status # None => handle'.status # None

\* The owner gets to a join only over a dead tree.
LEMMA TreeMove ==
  ASSUME TreeInv, SafeMove,
         \/ owner' \notin AtJoins
         \/ owner' = owner
         \/ /\ faults' = 0 => Dead(proc')
            /\ owner' = "joining" => handle'.status # None
            /\ owner' = "gone" => proc'.root = "reaped"
  PROVE  TreeInv'
  BY DEF TreeInv, SafeMove, AtJoins

\* A step that leaves the tree, the handle's status and the faults alone.
LEMMA TreeStill ==
  ASSUME TreeInv, UNCHANGED <<proc, faults>>, handle' \in HandleRecord, handle'.status = handle.status
  PROVE  SafeMove
  BY DEF TreeInv, SafeMove

\* The outcome of a kill is counted when it fails.
LEMMA Faulted ==
  ASSUME TreeInv, NEW ok \in BOOLEAN, Fault(ok)
  PROVE  faults' \in Nat /\ (faults' = 0 => faults = 0 /\ ok = TRUE)
<1>1. CASE ok
  BY <1>1 DEF TreeInv, Fault
<1>2. CASE ~ok
  BY <1>2 DEF TreeInv, Fault
<1>3. QED BY Zenon, <1>1, <1>2

\* The error path of a deadline.
LEMMA TimeoutSafe == ASSUME TreeInv, NEW ok \in BOOLEAN, check_timeout(ok) PROVE SafeMove
<1>1. faults' \in Nat /\ (faults' = 0 => faults = 0 /\ ok = TRUE)
  BY Zenon, Faulted DEF check_timeout
<1>2. proc \in ProcRecord /\ proc' = kill_tree(proc, ok)
  BY DEF TreeInv, check_timeout
<1>3. proc' \in ProcRecord /\ (Dead(proc) => Dead(proc')) /\ (proc.root = "reaped" => proc'.root = "reaped")
  BY <1>2, Killings
<1>4. faults' = 0 => Dead(proc')
  BY Zenon, <1>1, <1>2, Killed
<1>5. handle' \in HandleRecord /\ handle'.status # None
  BY Zenon DEF TreeInv, check_timeout, HandleRecord, None
<1>6. QED BY <1>1, <1>3, <1>4, <1>5 DEF SafeMove

\* The status of a child that exited is recorded once its group is dead.
LEMMA PolledSafe == ASSUME TreeInv, NEW ok \in BOOLEAN, Polled(ok) PROVE SafeMove
<1>1. CASE handle.status = None /\ proc.root # "live"
  <2>1. proc' = try_wait(proc, ok) /\ Fault(ok)
        /\ handle' = IF ok THEN [handle EXCEPT !.status = proc'.code, !.input = FALSE] ELSE handle
    BY <1>1 DEF Polled
  <2>2. faults' \in Nat /\ (faults' = 0 => faults = 0 /\ ok = TRUE)
    BY Zenon, <2>1, Faulted
  <2>3. proc' \in ProcRecord /\ (Dead(proc) => Dead(proc')) /\ (proc.root = "reaped" => proc'.root = "reaped")
    BY <2>1, Killings DEF TreeInv
  <2>4. ok = TRUE => Dead(proc') /\ proc'.code \in {"exit", "signal"}
    BY Zenon, <1>1, <2>1, Killed DEF TreeInv
  <2>5. handle' \in HandleRecord
    BY Zenon, <2>1, <2>4 DEF TreeInv, HandleRecord
  <2>6. QED BY <1>1, <2>2, <2>3, <2>4, <2>5 DEF SafeMove
<1>2. CASE ~(handle.status = None /\ proc.root # "live")
  <2>1. UNCHANGED <<proc, handle, faults>>
    BY <1>2 DEF Polled
  <2>2. QED BY <2>1, TreeStill DEF TreeInv
<1>3. QED BY <1>1, <1>2

\* kill_tree and the record of its result, of ChildProcess.kill and of a handle's drop.
LEMMA KillSafe ==
  ASSUME TreeInv, NEW ok \in BOOLEAN, proc' = kill_tree(proc, ok), Fault(ok), handle' \in HandleRecord,
         handle.status = None, ~ok => handle'.status = None
  PROVE  SafeMove /\ (faults' = 0 => Dead(proc'))
<1>1. faults' \in Nat /\ (faults' = 0 => faults = 0 /\ ok = TRUE)
  BY Zenon, Faulted
<1>2. proc' \in ProcRecord /\ (Dead(proc) => Dead(proc')) /\ (proc.root = "reaped" => proc'.root = "reaped")
  BY Killings DEF TreeInv
<1>3. ok = TRUE => Dead(proc')
  BY Zenon, Killed DEF TreeInv
<1>4. QED BY <1>1, <1>2, <1>3 DEF SafeMove

\* Every step keeps the tree's invariant.
LEMMA TreeSteps == TreeInv /\ [ChildNext]_child_vars => TreeInv'
<1> SUFFICES ASSUME TreeInv, [ChildNext]_child_vars PROVE TreeInv'
  OBVIOUS
<1> DEFINE Elsewhere == owner' \notin AtJoins \/ owner' = owner
<1>1. handle \in HandleRecord /\ proc \in ProcRecord /\ faults \in Nat /\ Outcome \subseteq BOOLEAN
  BY Zenon DEF TreeInv, Outcome
<1>2. ASSUME UNCHANGED <<proc, handle, faults>>, Elsewhere PROVE TreeInv'
  BY <1>1, <1>2, TreeStill, TreeMove
<1>3. CASE UNCHANGED child_vars
  BY <1>2, <1>3 DEF child_vars
<1>4. CASE TreeStep
  <2>1. CASE TreeChanges
    <3>1. proc' \in ProcRecord /\ (Dead(proc) => Dead(proc')) /\ (proc.root = "reaped" => proc'.root = "reaped")
      BY Zenon, <1>1, <2>1 DEF TreeChanges, ProcRecord, Dead
    <3>2. SafeMove
      BY <1>1, <2>1, <3>1 DEF TreeChanges, SafeMove, TreeInv
    <3>3. QED BY <2>1, <3>2, TreeMove DEF TreeChanges
  <2>2. CASE TreeReads \/ \E p \in Pipe : TreeWrites(p)
    BY <1>2, <2>2 DEF TreeReads, TreeWrites
  <2>3. QED BY <1>4, <2>1, <2>2 DEF TreeStep
<1>5. CASE DeadlinePasses
  <2>1. handle' \in HandleRecord /\ handle'.status = handle.status
    BY <1>1, <1>5 DEF DeadlinePasses, HandleRecord
  <2>2. QED BY <1>5, <2>1, TreeStill, TreeMove DEF DeadlinePasses
<1>6. CASE OwnerSteps
  <2>1. CASE WriteAll
    <3>1. ASSUME NEW ok \in Outcome, check_timeout(ok), owner' = "dropping" PROVE TreeInv'
      BY <1>1, <3>1, TimeoutSafe, TreeMove DEF AtJoins
    <3>2. ASSUME UNCHANGED <<proc, handle, faults>>, owner' \in {owner, "dropping", "idle"} PROVE TreeInv'
      BY <1>2, <3>2 DEF AtJoins
    <3>3. QED BY <2>1, <3>1, <3>2 DEF WriteAll, Return
  <2>2. CASE WaitPoll
    <3>1. PICK ok \in Outcome : (check_timeout(ok) \/ Polled(ok)) /\ owner' \in {"dropping", "checking"}
      BY <2>2 DEF WaitPoll
    <3>2. QED BY <1>1, <3>1, TimeoutSafe, PolledSafe, TreeMove DEF AtJoins
  <2>3. CASE WaitCheck
    <3>1. UNCHANGED <<proc, handle, faults>> /\ (owner' = "waiting" \/ (owner' = "joining" /\ handle.status # None))
      BY <2>3 DEF WaitCheck
    <3>2. SafeMove
      BY <1>1, <3>1, TreeStill
    <3>3. QED BY <3>1, <3>2, TreeMove DEF AtJoins, TreeInv
  <2>4. CASE WaitCollects
    BY <1>2, <2>4 DEF WaitCollects, AtJoins
  <2>5. CASE DropKills
    <3>1. PICK ok \in Outcome :
            IF handle.status = None
            THEN /\ proc' = kill_tree(proc, ok) /\ Fault(ok)
                 /\ handle' = [handle EXCEPT !.status = IF ok THEN proc'.code ELSE @, !.input = FALSE]
            ELSE handle' = [handle EXCEPT !.input = FALSE] /\ UNCHANGED <<proc, faults>>
      BY Zenon, <2>5 DEF DropKills
    <3>2. owner' = "draining"
      BY <2>5 DEF DropKills
    <3>3. CASE handle.status = None
      <4>1. proc' \in ProcRecord
        BY <1>1, <3>1, <3>3, Killings
      <4>2. ok = TRUE => proc'.code \in {"exit", "signal"}
        BY Zenon, <1>1, <3>1, <3>3, Killed
      <4>3. handle' \in HandleRecord /\ (~ok => handle'.status = None)
        BY Zenon, <1>1, <3>1, <3>3, <4>2 DEF HandleRecord
      <4>4. SafeMove /\ (faults' = 0 => Dead(proc'))
        BY <1>1, <3>1, <3>3, <4>3, KillSafe
      <4>5. QED BY <3>2, <4>4, TreeMove
    <3>4. CASE handle.status # None
      <4>1. handle' \in HandleRecord /\ handle'.status = handle.status
        BY Zenon, <1>1, <3>1, <3>4 DEF HandleRecord
      <4>2. SafeMove
        BY <3>1, <3>4, <4>1, TreeStill
      <4>3. QED BY <3>1, <3>2, <3>4, <4>2, TreeMove DEF TreeInv
    <3>5. QED BY <3>3, <3>4
  <2>6. CASE DropJoins
    <3>1. PICK ok \in Outcome :
            proc' = (IF proc.root = "live" THEN terminate_and_wait(proc, ok) ELSE try_wait(proc, ok)) /\ Fault(ok)
      BY <2>6 DEF DropJoins
    <3>2. proc' \in ProcRecord /\ (Dead(proc) => Dead(proc')) /\ (proc.root = "reaped" => proc'.root = "reaped")
      BY <1>1, <3>1, Killings
    <3>3. proc'.root = "reaped"
      BY Zenon, <1>1, <3>1, Killed
    <3>4. faults' \in Nat /\ (faults' = 0 => faults = 0)
      BY Zenon, <1>1, <3>1, Faulted
    <3>5. owner = "draining" /\ owner' = "gone" /\ handle' = handle
      BY <2>6 DEF DropJoins
    <3>6. faults' = 0 => Dead(proc')
      BY <3>2, <3>4, <3>5 DEF TreeInv, AtJoins
    <3>7. QED BY <1>1, <3>2, <3>3, <3>4, <3>5, <3>6, TreeMove DEF SafeMove
  <2>7. CASE PollProcess
    <3>1. PICK ok \in Outcome :
            /\ Fault(ok)
            /\ \/ proc' = terminate_and_wait(proc, ok) /\ owner' = "collecting"
               \/ proc' = kill_tree(proc, ok) /\ owner' = "collecting"
               \/ proc.root # "live" /\ proc' = try_wait(proc, ok) /\ owner' \in {"draining", "collecting"}
      BY <2>7 DEF PollProcess
    <3>2. proc' \in ProcRecord /\ (Dead(proc) => Dead(proc')) /\ (proc.root = "reaped" => proc'.root = "reaped")
      BY <1>1, <3>1, Killings
    <3>3. ok = TRUE => Dead(proc')
      BY Zenon, <1>1, <3>1, Killed
    <3>4. faults' \in Nat /\ (faults' = 0 => faults = 0 /\ ok = TRUE)
      BY Zenon, <1>1, <3>1, Faulted
    <3>5. handle' = handle
      BY <2>7 DEF PollProcess
    <3>6. QED BY <1>1, <3>1, <3>2, <3>3, <3>4, <3>5, TreeMove DEF SafeMove
  <2>8. CASE CollectOutput
    <3>1. UNCHANGED <<proc, handle, faults>> /\ owner = "collecting" /\ owner' = "draining"
      BY <2>8 DEF CollectOutput
    <3>2. SafeMove
      BY <1>1, <3>1, TreeStill
    <3>3. QED BY <3>1, <3>2, TreeMove DEF AtJoins, TreeInv
  <2>9. ASSUME NEW p \in Pipe, read_pipe(p) PROVE TreeInv'
    <3>1. PICK ok \in Outcome : (check_timeout(ok) \/ Polled(ok)) /\ owner' \in {"idle", owner}
      BY <2>9 DEF read_pipe, Return
    <3>2. QED BY <1>1, <3>1, TimeoutSafe, PolledSafe, TreeMove DEF AtJoins
  <2>10. QED BY <1>6, <2>1, <2>2, <2>3, <2>4, <2>5, <2>6, <2>7, <2>8, <2>9 DEF OwnerSteps
<1>7. CASE OwnerChooses
  <2>1. CASE write
    <3>1. ASSUME NEW ok \in Outcome, check_timeout(ok), owner' = "idle" PROVE TreeInv'
      BY <1>1, <3>1, TimeoutSafe, TreeMove DEF AtJoins
    <3>2. ASSUME UNCHANGED <<proc, handle, faults>>, owner' \in {"writing", "idle"} PROVE TreeInv'
      BY <1>2, <3>2 DEF AtJoins
    <3>3. QED BY <2>1, <3>1, <3>2 DEF write, Return
  <2>2. CASE close_input
    <3>1. owner' = "idle"
      BY <2>2 DEF close_input, Return
    <3>2. ASSUME NEW ok \in Outcome, check_timeout(ok) PROVE TreeInv'
      BY <1>1, <3>1, <3>2, TimeoutSafe, TreeMove DEF AtJoins
    <3>3. ASSUME UNCHANGED <<proc, faults>>, handle' = [handle EXCEPT !.input = FALSE] PROVE TreeInv'
      <4>1. handle' \in HandleRecord /\ handle'.status = handle.status
        BY Zenon, <1>1, <3>3 DEF HandleRecord
      <4>2. QED BY <3>1, <3>3, <4>1, TreeStill, TreeMove DEF AtJoins
    <3>4. QED BY <2>2, <3>2, <3>3 DEF close_input
  <2>3. CASE TryWait
    <3>1. PICK ok \in Outcome : (check_timeout(ok) \/ Polled(ok)) /\ owner' = "idle"
      BY <2>3 DEF TryWait, Return
    <3>2. QED BY <1>1, <3>1, TimeoutSafe, PolledSafe, TreeMove DEF AtJoins
  <2>4. CASE kill
    <3>1. PICK ok \in Outcome :
            IF handle.status = None
            THEN /\ proc' = kill_tree(proc, ok) /\ Fault(ok)
                 /\ handle' = IF ok THEN [handle EXCEPT !.status = proc'.code, !.input = FALSE] ELSE handle
            ELSE handle' = [handle EXCEPT !.input = FALSE] /\ UNCHANGED <<proc, faults>>
      BY <2>4 DEF kill
    <3>2. owner' = "idle"
      BY <2>4 DEF kill, Return
    <3>3. CASE handle.status = None
      <4>1. ok = TRUE => proc'.code \in {"exit", "signal"}
        BY Zenon, <1>1, <3>1, <3>3, Killed
      <4>2. handle' \in HandleRecord /\ (~ok => handle'.status = None)
        BY Zenon, <1>1, <3>1, <3>3, <4>1 DEF HandleRecord
      <4>3. SafeMove
        BY <1>1, <3>1, <3>3, <4>2, KillSafe
      <4>4. QED BY <3>2, <4>3, TreeMove DEF AtJoins
    <3>4. CASE handle.status # None
      <4>1. handle' \in HandleRecord /\ handle'.status = handle.status
        BY Zenon, <1>1, <3>1, <3>4 DEF HandleRecord
      <4>2. QED BY <3>1, <3>2, <3>4, <4>1, TreeStill, TreeMove DEF AtJoins
    <3>5. QED BY <3>3, <3>4
  <2>5. CASE WaitStarts \/ Release \/ \E p \in Pipe : ReadStarts(p)
    BY <1>2, <2>5 DEF WaitStarts, Release, ReadStarts, Reading, AtJoins
  <2>6. QED BY <1>7, <2>1, <2>2, <2>3, <2>4, <2>5 DEF OwnerChooses
<1>8. CASE WriterThread
  <2>1. handle' \in HandleRecord /\ handle'.status = handle.status
    BY Zenon, <1>1, <1>8 DEF WriterThread, HandleRecord
  <2>2. QED BY <1>8, <2>1, TreeStill, TreeMove DEF WriterThread
<1>9. ASSUME NEW p \in Pipe, ReaderSteps(p) PROVE TreeInv'
  BY <1>2, <1>9 DEF ReaderSteps, ReadChunk, ReaderEnds
<1>10. ASSUME NEW p \in Pipe, ReaderFails(p) PROVE TreeInv'
  BY <1>10 DEF ReaderFails, TreeInv
<1>11. QED BY <1>3, <1>4, <1>5, <1>6, <1>7, <1>8, <1>9, <1>10 DEF ChildNext

(* Whenever the owner gets to a join of a pipe reader, the whole tree is dead unless a      *)
(* kill failed, and a handle that is gone leaves no zombie: for every limit, every number   *)
(* of faults and every way the tree, the readers and the owner interleave.                  *)
THEOREM ChildTree == ChildSpec => []TreeDeadBeforeJoin
<1>1. ChildInit => TreeInv
  BY DEF ChildInit, TreeInv, ProcRecord, HandleRecord, AtJoins, None
<1>2. TreeInv => TreeDeadBeforeJoin
  BY DEF TreeInv, TreeDeadBeforeJoin, Alive, Dead, AtJoins
<1>3. QED BY <1>1, <1>2, TreeSteps, PTL DEF ChildSpec

-----------------------------------------------------------------------------
(* The streams                                                             *)

PipeRecord == [bytes : Nat, done : BOOLEAN, failed : BOOLEAN, overflow : BOOLEAN]

\* Every chunk the tree wrote is in the kernel's pipe, captured, or with the owner, unless
\* the stream went over its limit; and a reader that ended well has emptied the pipe.
Flow(p) ==
  /\ mode = "start" => cap[p].bytes <= Limit /\ (~cap[p].overflow => made[p] = wire[p] + cap[p].bytes + taken[p])
  /\ mode = "run" => /\ cap[p].bytes <= Limit + 1 /\ taken[p] <= Limit
                     /\ ~cap[p].done => cap[p].bytes <= Limit
                     /\ cap[p].bytes <= Limit => made[p] = wire[p] + cap[p].bytes
  /\ cap[p].done /\ ~cap[p].failed /\ (mode = "run" => cap[p].bytes <= Limit) => wire[p] = 0

\* Which places and results each way to run has.
Roles ==
  /\ mode = "start" => owner \notin {"polling", "collecting"} /\ (result = "ok" => Ended)
  /\ mode # "start" => owner \in {"polling", "collecting", "draining", "gone"}
  /\ owner = "polling" => result # "ok"
  /\ owner = "joining" => \A p \in Pipe : cap[p].done

\* After a success nothing moves: every stream has ended and everything was handed over.
HandedOver == mode # "output" /\ Ended /\ result = "ok" => \A p \in Pipe : cap[p].done /\ taken[p] = made[p]

FlowInv ==
  /\ mode \in {"start", "run", "output"}
  /\ cap \in [Pipe -> PipeRecord] /\ wire \in [Pipe -> Nat] /\ made \in [Pipe -> Nat] /\ taken \in [Pipe -> Nat]
  /\ mode = "output" => cap["stdout"].bytes + cap["stderr"].bytes <= Limit
  /\ \A p \in Pipe : Flow(p)
  /\ Roles /\ HandedOver

\* A step that moves no chunk and ends no reader.
LEMMA FlowStill ==
  ASSUME FlowInv, UNCHANGED <<mode, wire, cap, made, taken>>, Roles',
         result' = "ok" /\ Ended' => result = "ok" /\ Ended
  PROVE  FlowInv'
<1>1. \A p \in Pipe : Flow(p)'
  BY DEF FlowInv, Flow
<1>2. HandedOver'
  BY DEF FlowInv, HandedOver
<1>3. QED BY <1>1, <1>2 DEF FlowInv

\* A step of one stream that leaves the owner where it is.
LEMMA StreamStep ==
  ASSUME FlowInv, NEW p \in Pipe, UNCHANGED <<mode, owner, result>>,
         cap' \in [Pipe -> PipeRecord], wire' \in [Pipe -> Nat], made' \in [Pipe -> Nat], taken' = taken,
         \A q \in Pipe \ {p} : cap'[q] = cap[q] /\ wire'[q] = wire[q] /\ made'[q] = made[q],
         ~cap[p].done, Flow(p)',
         mode = "output" => cap'["stdout"].bytes + cap'["stderr"].bytes <= Limit
  PROVE  FlowInv'
<1>1. \A q \in Pipe : Flow(q)'
  BY DEF FlowInv, Flow
<1>2. owner # "joining" /\ ~(mode # "output" /\ Ended /\ result = "ok")
  BY DEF FlowInv, Roles, HandedOver
<1>3. Roles' /\ HandedOver'
  BY <1>2 DEF FlowInv, Roles, HandedOver, Ended
<1>4. QED BY <1>1, <1>3 DEF FlowInv

\* The invariant holds when the child starts.
LEMMA FlowStarts == ChildInit => FlowInv
<1> SUFFICES ASSUME ChildInit PROVE FlowInv
  OBVIOUS
<1>1. mode \in {"start", "run", "output"} /\ result = None
  BY ChildAssumption DEF ChildInit
<1>2. \A p \in Pipe : cap[p] = EmptyPipe /\ wire[p] = 0 /\ made[p] = 0 /\ taken[p] = 0
  BY DEF ChildInit
<1>3. cap \in [Pipe -> PipeRecord] /\ wire \in [Pipe -> Nat] /\ made \in [Pipe -> Nat] /\ taken \in [Pipe -> Nat]
  BY DEF ChildInit, EmptyPipe, PipeRecord
<1>4. \A p \in Pipe : Flow(p)
  BY <1>2, ChildAssumption DEF Flow, EmptyPipe
<1>5. Roles /\ HandedOver
  <2>1. owner = "polling" \/ (mode = "start" /\ owner \in {"starting", "idle"})
    BY DEF ChildInit
  <2>2. mode = "start" => owner # "polling"
    BY DEF ChildInit
  <2>3. QED BY <1>1, <2>1, <2>2 DEF Roles, HandedOver, Ended, None
<1>6. mode = "output" => cap["stdout"].bytes + cap["stderr"].bytes <= Limit
  BY <1>2, ChildAssumption DEF EmptyPipe, Pipe
<1>7. QED BY <1>1, <1>3, <1>4, <1>5, <1>6 DEF FlowInv

\* The owner of a streaming handle goes on, or gives the handle up without a success.
LEMMA OwnerMoves ==
  ASSUME FlowInv, UNCHANGED <<mode, wire, cap, made, taken>>,
         owner \notin {"polling", "collecting", "dropping", "draining", "gone"},
         owner' \in {owner, "idle", "writing", "read_stdout", "read_stderr", "waiting", "checking", "dropping"},
         result' \in {result, "timeout", "error"}
  PROVE  FlowInv'
<1>1. mode = "start" /\ result # "ok" /\ result' # "ok"
  BY DEF FlowInv, Roles, Ended
<1>2. Roles'
  BY <1>1 DEF FlowInv, Roles
<1>3. QED BY <1>1, <1>2, FlowStill

\* What a reader keeps of what it read, and what the limit leaves of it.
LEMMA KeepBounds ==
  ASSUME FlowInv, NEW p \in Pipe, NEW count \in Nat, ~cap[p].done
  PROVE  /\ Keep(p, count) \in Nat /\ Keep(p, count) <= count
         /\ mode = "start" => cap[p].bytes + Keep(p, count) <= Limit
         /\ mode = "run" => /\ cap[p].bytes + Keep(p, count) <= Limit + 1
                            /\ cap[p].bytes + Keep(p, count) <= Limit => Keep(p, count) = count
         /\ mode = "output" => cap["stdout"].bytes + cap["stderr"].bytes + Keep(p, count) <= Limit
<1>1. /\ cap[p].bytes \in Nat /\ cap["stdout"].bytes \in Nat /\ cap["stderr"].bytes \in Nat /\ Limit \in Nat
  BY ChildAssumption DEF FlowInv, PipeRecord, Pipe
<1>2. CASE mode = "start"
  BY <1>1, <1>2 DEF FlowInv, Flow, Keep, Min2
<1>3. CASE mode = "run"
  BY <1>1, <1>3 DEF FlowInv, Flow, Keep, Min2
<1>4. CASE mode = "output"
  BY <1>1, <1>4 DEF FlowInv, Keep, Min2
<1>5. QED BY <1>2, <1>3, <1>4 DEF FlowInv

\* What a read leaves in the record of its pipe.
LEMMA CapturedRecord ==
  ASSUME NEW r \in PipeRecord, NEW k \in Nat, NEW over \in BOOLEAN, NEW full \in BOOLEAN
  PROVE  /\ Captured(r, k, over, full) \in PipeRecord
         /\ Captured(r, k, over, full).bytes = r.bytes + k
         /\ Captured(r, k, over, full).overflow <=> r.overflow \/ over
         /\ Captured(r, k, over, full).done <=> full
         /\ Captured(r, k, over, full).failed <=> r.failed
<1> DEFINE c == Captured(r, k, over, full)
<1>1. c.bytes = r.bytes + k /\ c.failed = r.failed /\ c.done = full
  BY DEF Captured, PipeRecord
<1>2. c.overflow = (r.overflow \/ over)
  BY DEF Captured, PipeRecord
<1>3. c \in PipeRecord
  <2> DEFINE o == r.overflow \/ over
             b == r.bytes + k
             f == r.failed
  <2>1. o \in BOOLEAN
    BY Zenon
  <2>2. b \in Nat /\ f \in BOOLEAN
    BY DEF PipeRecord
  <2>3. c = [bytes |-> b, done |-> full, failed |-> f, overflow |-> o]
    BY DEF Captured
  <2> HIDE DEF c, o, b, f
  <2>4. QED BY <2>1, <2>2, <2>3 DEF PipeRecord
<1> HIDE DEF c
<1>4. c.overflow <=> r.overflow \/ over
  BY <1>2, <1>3 DEF PipeRecord
<1>5. (c.done <=> full) /\ (c.failed <=> r.failed)
  BY <1>1, <1>3 DEF PipeRecord
<1>6. QED BY <1>1, <1>3, <1>4, <1>5 DEF c

\* One read keeps the invariant.
LEMMA ReadFlows == ASSUME FlowInv, NEW p \in Pipe, ReadChunk(p) PROVE FlowInv'
<1>1. PICK count \in 1 .. wire[p] :
        /\ ~cap[p].done
        /\ wire' = [wire EXCEPT ![p] = @ - count]
        /\ cap' = [cap EXCEPT ![p] = Captured(@, Keep(p, count), mode # "run" /\ Keep(p, count) < count,
                                              mode = "run" /\ cap[p].bytes + Keep(p, count) = Limit + 1)]
        /\ UNCHANGED <<mode, made, taken, owner, result>>
  BY Zenon DEF ReadChunk
<1> DEFINE kept == Keep(p, count)
           over == mode # "run" /\ kept < count
           full == mode = "run" /\ cap[p].bytes + kept = Limit + 1
<1>2. count \in Nat /\ wire[p] \in Nat /\ count <= wire[p] /\ cap[p] \in PipeRecord /\ made[p] \in Nat /\ taken[p] \in Nat /\ Limit \in Nat
  BY ChildAssumption DEF FlowInv
<1>3. /\ kept \in Nat /\ kept <= count
      /\ mode = "start" => cap[p].bytes + kept <= Limit
      /\ mode = "run" => cap[p].bytes + kept <= Limit + 1 /\ (cap[p].bytes + kept <= Limit => kept = count)
      /\ mode = "output" => cap["stdout"].bytes + cap["stderr"].bytes + kept <= Limit
  BY <1>1, <1>2, KeepBounds
<1>4. /\ cap' = [cap EXCEPT ![p] = Captured(cap[p], kept, over, full)] /\ Captured(cap[p], kept, over, full) \in PipeRecord
      /\ cap' \in [Pipe -> PipeRecord] /\ wire' \in [Pipe -> Nat]
  <2>1. cap' = [cap EXCEPT ![p] = Captured(cap[p], kept, over, full)] /\ over \in BOOLEAN /\ full \in BOOLEAN
    BY <1>1
  <2> HIDE DEF over, full, kept
  <2>2. Captured(cap[p], kept, over, full) \in PipeRecord
    BY <1>2, <1>3, <2>1, CapturedRecord
  <2>3. wire' \in [Pipe -> Nat]
    BY <1>1, <1>2 DEF FlowInv
  <2>4. QED BY Zenon, <2>1, <2>2, <2>3 DEF FlowInv
<1>5. /\ cap'[p].bytes = cap[p].bytes + kept
      /\ cap'[p].overflow <=> cap[p].overflow \/ (mode # "run" /\ kept < count)
      /\ cap'[p].done <=> (mode = "run" /\ cap[p].bytes + kept = Limit + 1)
      /\ cap'[p].failed <=> cap[p].failed
      /\ wire'[p] = wire[p] - count
  <2>1. over \in BOOLEAN /\ full \in BOOLEAN
    OBVIOUS
  <2>2. wire'[p] = wire[p] - count
    BY <1>1 DEF FlowInv
  <2> HIDE DEF over, full, kept
  <2>3. cap'[p] = Captured(cap[p], kept, over, full)
    BY <1>4 DEF FlowInv
  <2>4. /\ cap'[p].bytes = cap[p].bytes + kept /\ (cap'[p].overflow <=> cap[p].overflow \/ over)
        /\ (cap'[p].done <=> full) /\ (cap'[p].failed <=> cap[p].failed)
    <3> DEFINE c == Captured(cap[p], kept, over, full)
    <3>1. cap[p] \in PipeRecord /\ kept \in Nat
      BY <1>2, <1>3
    <3>2. c.bytes = cap[p].bytes + kept /\ (c.overflow <=> cap[p].overflow \/ over) /\ (c.done <=> full) /\ (c.failed <=> cap[p].failed)
      BY <2>1, <3>1, CapturedRecord, Zenon
    <3> HIDE DEF c
    <3>3. cap'[p] = c
      BY <2>3 DEF c
    <3>4. QED BY <3>2, <3>3
  <2>5. QED BY <2>2, <2>4 DEF over, full
<1> HIDE DEF kept, over, full
<1>6. \A q \in Pipe \ {p} : cap'[q] = cap[q] /\ wire'[q] = wire[q]
  BY <1>1, <1>4 DEF FlowInv
<1>7. Flow(p)'
  <2>1. Flow(p) /\ cap[p].bytes \in Nat /\ mode' = mode /\ made' = made /\ taken' = taken
    BY <1>1, <1>2 DEF FlowInv, PipeRecord
  <2>2. CASE mode = "start"
    <3>1. ~cap'[p].done /\ cap'[p].bytes <= Limit
      BY <1>3, <1>5, <2>2
    <3>2. ~cap'[p].overflow => ~cap[p].overflow /\ kept = count
      BY <1>2, <1>3, <1>5, <2>2
    <3>3. ~cap'[p].overflow => made[p] = wire'[p] + cap'[p].bytes + taken[p]
      BY <1>2, <1>3, <1>5, <2>1, <2>2, <3>2 DEF Flow
    <3>4. QED BY <2>1, <2>2, <3>1, <3>3 DEF Flow
  <2>3. CASE mode = "run"
    <3>1. cap'[p].bytes <= Limit + 1 /\ (~cap'[p].done => cap'[p].bytes <= Limit)
      BY <1>2, <1>3, <1>5, <2>1, <2>3
    <3>2. cap'[p].bytes <= Limit => ~cap'[p].done /\ made[p] = wire'[p] + cap'[p].bytes
      BY <1>1, <1>2, <1>3, <1>5, <2>1, <2>3 DEF Flow
    <3>3. QED BY <2>1, <2>3, <3>1, <3>2 DEF Flow
  <2>4. CASE mode = "output"
    <3>1. ~cap'[p].done
      BY <1>5, <2>4
    <3>2. QED BY <2>1, <2>4, <3>1 DEF Flow
  <2>5. QED BY <2>2, <2>3, <2>4 DEF FlowInv
<1>8. mode = "output" => cap'["stdout"].bytes + cap'["stderr"].bytes <= Limit
  <2>1. CASE p = "stdout"
    BY <1>2, <1>3, <1>5, <1>6, <2>1 DEF FlowInv, PipeRecord, Pipe
  <2>2. CASE p = "stderr"
    BY <1>2, <1>3, <1>5, <1>6, <2>2 DEF FlowInv, PipeRecord, Pipe
  <2>3. QED BY <2>1, <2>2 DEF Pipe
<1>9. QED BY <1>1, <1>4, <1>6, <1>7, <1>8, StreamStep DEF FlowInv

\* The end of a stream, and a write of the tree, keep it too.
LEMMA StreamFlows ==
  ASSUME FlowInv, NEW p \in Pipe, ReaderEnds(p) \/ ReaderFails(p) \/ TreeWrites(p)
  PROVE  FlowInv'
<1>1. ~cap[p].done /\ cap[p] \in PipeRecord /\ wire[p] \in Nat /\ made[p] \in Nat
  BY DEF FlowInv, ReaderEnds, ReaderFails, TreeWrites
<1>2. CASE ReaderEnds(p)
  <2>1. cap' \in [Pipe -> PipeRecord] /\ \A q \in Pipe : cap'[q].bytes = cap[q].bytes /\ (q # p => cap'[q] = cap[q])
    BY Zenon, <1>2 DEF FlowInv, PipeRecord, ReaderEnds
  <2>2. Flow(p)'
    BY <1>1, <1>2, <2>1 DEF FlowInv, Flow, PipeRecord, ReaderEnds, EndOfFile
  <2>3. QED BY <1>1, <1>2, <2>1, <2>2, StreamStep DEF FlowInv, ReaderEnds, Pipe
<1>3. CASE ReaderFails(p)
  <2>1. cap' \in [Pipe -> PipeRecord] /\ \A q \in Pipe : cap'[q].bytes = cap[q].bytes /\ (q # p => cap'[q] = cap[q])
    BY Zenon, <1>3 DEF FlowInv, PipeRecord, ReaderFails
  <2>2. Flow(p)'
    BY <1>1, <1>3, <2>1 DEF FlowInv, Flow, PipeRecord, ReaderFails
  <2>3. QED BY <1>1, <1>3, <2>1, <2>2, StreamStep DEF FlowInv, ReaderFails, Pipe
<1>4. CASE TreeWrites(p)
  <2>1. wire' \in [Pipe -> Nat] /\ made' \in [Pipe -> Nat] /\ wire'[p] = wire[p] + 1 /\ made'[p] = made[p] + 1
        /\ \A q \in Pipe \ {p} : wire'[q] = wire[q] /\ made'[q] = made[q]
    BY <1>4 DEF FlowInv, TreeWrites
  <2>2. Flow(p)'
    <3>1. Flow(p) /\ cap[p].bytes \in Nat /\ taken[p] \in Nat /\ UNCHANGED <<mode, cap, taken>>
      BY <1>1, <1>4 DEF FlowInv, PipeRecord, TreeWrites
    <3>2. made[p] = wire[p] + cap[p].bytes + taken[p] => made'[p] = wire'[p] + cap[p].bytes + taken[p]
      BY <1>1, <2>1, <3>1
    <3>3. made[p] = wire[p] + cap[p].bytes => made'[p] = wire'[p] + cap[p].bytes
      BY <1>1, <2>1, <3>1
    <3>4. QED BY <1>1, <3>1, <3>2, <3>3 DEF Flow
  <2>3. QED BY <1>1, <1>4, <2>1, <2>2, StreamStep DEF FlowInv, TreeWrites
<1>5. QED BY <1>2, <1>3, <1>4

\* Every step keeps the streams' invariant.
LEMMA FlowSteps == FlowInv /\ [ChildNext]_child_vars => FlowInv'
<1> SUFFICES ASSUME FlowInv, [ChildNext]_child_vars PROVE FlowInv'
  OBVIOUS
<1>1. ASSUME UNCHANGED <<mode, wire, cap, made, taken, owner, result>> PROVE FlowInv'
  <2>1. Roles'
    BY <1>1 DEF FlowInv, Roles, Ended
  <2>2. QED BY <1>1, <2>1, FlowStill DEF Ended
<1>2. CASE UNCHANGED child_vars
  BY <1>1, <1>2 DEF child_vars
<1>3. CASE TreeStep
  BY <1>1, <1>3, StreamFlows DEF TreeStep, TreeReads, TreeChanges
<1>4. CASE DeadlinePasses \/ WriterThread
  BY <1>1, <1>4 DEF DeadlinePasses, WriterThread
<1>5. ASSUME NEW p \in Pipe, ReaderSteps(p) \/ ReaderFails(p) PROVE FlowInv'
  BY <1>5, ReadFlows, StreamFlows DEF ReaderSteps
<1>6. CASE OwnerChooses
  <2>1. UNCHANGED <<mode, wire, cap, made, taken>> /\ owner = "idle" /\ result' = result
        /\ owner' \in {"idle", "writing", "read_stdout", "read_stderr", "waiting", "dropping"}
    BY <1>6 DEF OwnerChooses, write, close_input, TryWait, kill, WaitStarts, Release, ReadStarts, Reading, Return, Unmoved
  <2>2. QED BY <2>1, OwnerMoves
<1>7. CASE OwnerSteps
  <2>1. CASE WriteAll
    <3>1. UNCHANGED <<mode, wire, cap, made, taken>> /\ owner \in {"starting", "writing"}
          /\ owner' \in {owner, "idle", "dropping"} /\ result' \in {result, "timeout", "error"}
      BY <2>1 DEF WriteAll, Return
    <3>2. QED BY <3>1, OwnerMoves
  <2>2. CASE WaitPoll
    <3>1. UNCHANGED <<mode, wire, cap, made, taken>> /\ owner = "waiting"
          /\ owner' \in {"checking", "dropping"} /\ result' \in {result, "timeout", "error"}
      BY <2>2 DEF WaitPoll, Unmoved
    <3>2. QED BY <3>1, OwnerMoves
  <2>3. CASE WaitCheck
    <3>1. UNCHANGED <<mode, wire, cap, made, taken>> /\ owner = "checking" /\ result' = result
          /\ (owner' = "waiting" \/ (owner' = "joining" /\ \A p \in Pipe : cap[p].done))
      BY <2>3 DEF WaitCheck, Unmoved
    <3>2. Roles' /\ ~Ended'
      BY <3>1 DEF FlowInv, Roles, Ended
    <3>3. QED BY <3>1, <3>2, FlowStill
  <2>4. CASE WaitCollects
    <3>1. UNCHANGED <<mode, wire, made>> /\ owner = "joining" /\ owner' = "dropping" /\ mode = "start" /\ \A p \in Pipe : cap[p].done
      BY <2>4 DEF WaitCollects, FlowInv, Roles
    <3>2. CASE UNCHANGED <<cap, taken>> /\ result' = "error"
      BY <3>1, <3>2, OwnerMoves DEF WaitCollects
    <3>3. CASE /\ \A p \in Pipe : ~cap[p].failed /\ ~cap[p].overflow
               /\ taken' = [p \in Pipe |-> taken[p] + cap[p].bytes]
               /\ cap' = [p \in Pipe |-> [cap[p] EXCEPT !.bytes = 0]]
      <4>1. ASSUME NEW p \in Pipe
            PROVE  /\ taken[p] \in Nat /\ made[p] \in Nat /\ cap[p] \in PipeRecord /\ cap[p].bytes \in Nat
                   /\ wire[p] = 0 /\ made[p] = cap[p].bytes + taken[p]
        BY <3>1, <3>3 DEF FlowInv, Flow, PipeRecord
      <4>2. ASSUME NEW p \in Pipe
            PROVE  /\ taken'[p] = made[p] /\ cap'[p] = [cap[p] EXCEPT !.bytes = 0] /\ cap'[p] \in PipeRecord
                   /\ cap'[p].bytes = 0 /\ cap'[p].done
        <5>1. taken'[p] = made[p] /\ cap'[p] = [cap[p] EXCEPT !.bytes = 0]
          BY <3>3, <4>1
        <5>2. QED BY <3>1, <4>1, <5>1 DEF PipeRecord
      <4>3. cap' \in [Pipe -> PipeRecord] /\ taken' \in [Pipe -> Nat]
        BY <3>3, <4>1, <4>2
      <4>4. \A p \in Pipe : Flow(p)'
        <5> SUFFICES ASSUME NEW p \in Pipe PROVE Flow(p)'
          OBVIOUS
        <5>1. made'[p] = made[p] /\ wire'[p] = 0 /\ mode' = "start" /\ made[p] \in Nat
          BY <3>1, <4>1
        <5>2. taken'[p] = made[p] /\ cap'[p].bytes = 0
          BY Zenon, <4>2
        <5>3. cap'[p].bytes <= Limit /\ made'[p] = wire'[p] + cap'[p].bytes + taken'[p]
          BY <5>1, <5>2, ChildAssumption
        <5>4. QED BY <5>1, <5>3 DEF Flow
      <4>5. Roles' /\ HandedOver'
        BY Zenon, <3>1, <4>2 DEF FlowInv, Roles, HandedOver, Ended
      <4>6. QED BY <3>1, <4>3, <4>4, <4>5 DEF FlowInv
    <3>4. QED BY <2>4, <3>2, <3>3 DEF WaitCollects
  <2>5. CASE DropKills \/ DropJoins
    <3>1. UNCHANGED <<mode, wire, cap, made, taken>> /\ result' = result
          /\ ((owner = "dropping" /\ owner' = "draining") \/ (owner = "draining" /\ owner' = "gone"))
      BY Zenon, <2>5 DEF DropKills, DropJoins, Unmoved
    <3>2. Roles' /\ Ended
      BY <3>1 DEF FlowInv, Roles, Ended
    <3>3. QED BY <3>1, <3>2, FlowStill
  <2>6. CASE PollProcess
    <3>1. UNCHANGED <<mode, wire, cap, made, taken>> /\ owner = "polling"
          /\ (owner' = "collecting" \/ (owner' = "draining" /\ result' # "ok"))
      BY <2>6 DEF PollProcess, Unmoved
    <3>2. Roles' /\ ~(result' = "ok" /\ Ended')
      BY <3>1 DEF FlowInv, Roles, Ended
    <3>3. QED BY <3>1, <3>2, FlowStill
  <2>7. CASE CollectOutput
    <3>1. /\ UNCHANGED <<mode, wire, made, cap>> /\ owner = "collecting" /\ owner' = "draining" /\ mode # "start"
          /\ \A p \in Pipe : cap[p].done
      BY <2>7 DEF CollectOutput, FlowInv, Roles
    <3>2. CASE UNCHANGED taken /\ result' # "ok"
      <4>1. Roles'
        BY <3>1 DEF FlowInv, Roles
      <4>2. QED BY <3>1, <3>2, <4>1, FlowStill
    <3>3. CASE /\ \A p \in Pipe : ~cap[p].failed
               /\ mode = "run" => \A p \in Pipe : cap[p].bytes <= Limit
               /\ taken' = [p \in Pipe |-> cap[p].bytes]
      <4>1. ASSUME NEW p \in Pipe
            PROVE  /\ made[p] \in Nat /\ cap[p].bytes \in Nat /\ taken'[p] = cap[p].bytes
                   /\ mode = "run" => wire[p] = 0 /\ made[p] = cap[p].bytes /\ taken'[p] <= Limit
        BY <3>1, <3>3 DEF FlowInv, Flow, PipeRecord
      <4>2. taken' \in [Pipe -> Nat]
        BY <3>3, <4>1
      <4>3. \A p \in Pipe : Flow(p)'
        BY <3>1, <4>1 DEF FlowInv, Flow
      <4>4. Roles' /\ HandedOver'
        BY <3>1, <4>1 DEF FlowInv, Roles, HandedOver
      <4>5. QED BY <3>1, <4>2, <4>3, <4>4 DEF FlowInv
    <3>4. QED BY <2>7, <3>2, <3>3 DEF CollectOutput
  <2>8. ASSUME NEW p \in Pipe, read_pipe(p) PROVE FlowInv'
    <3>1. UNCHANGED <<mode, wire, made>> /\ owner \in {"read_stdout", "read_stderr"} /\ result' = result /\ owner' \in {owner, "idle"}
      BY <2>8 DEF read_pipe, Reading, Return
    <3>2. CASE UNCHANGED <<cap, taken>>
      BY <3>1, <3>2, OwnerMoves
    <3>3. ASSUME NEW n \in 1 .. cap[p].bytes, cap' = [cap EXCEPT ![p].bytes = @ - n], taken' = [taken EXCEPT ![p] = @ + n]
          PROVE  FlowInv'
      <4>1. mode = "start" /\ result # "ok"
        BY <3>1 DEF FlowInv, Roles, Ended
      <4>2. taken[p] \in Nat /\ made[p] \in Nat /\ wire[p] \in Nat /\ cap[p] \in PipeRecord /\ cap[p].bytes \in Nat /\ n \in Nat /\ n <= cap[p].bytes
        BY DEF FlowInv, PipeRecord
      <4>3. cap' \in [Pipe -> PipeRecord] /\ taken' \in [Pipe -> Nat]
        BY <3>3, <4>2 DEF FlowInv, PipeRecord
      <4>4. cap'[p].bytes = cap[p].bytes - n /\ taken'[p] = taken[p] + n
            /\ cap'[p].done = cap[p].done /\ cap'[p].failed = cap[p].failed /\ cap'[p].overflow = cap[p].overflow
        BY <3>3, <4>2 DEF FlowInv, PipeRecord
      <4>5. \A q \in Pipe \ {p} : cap'[q] = cap[q] /\ taken'[q] = taken[q]
        BY <3>3 DEF FlowInv
      <4>6. Flow(p)'
        <5>1. Flow(p)
          BY DEF FlowInv
        <5>2. cap'[p].bytes <= Limit
          BY <4>1, <4>2, <4>4, <5>1, ChildAssumption DEF Flow
        <5>3. made[p] = wire[p] + cap[p].bytes + taken[p] => made[p] = wire[p] + cap'[p].bytes + taken'[p]
          BY <4>2, <4>4
        <5>4. QED BY <3>1, <4>1, <4>4, <5>1, <5>2, <5>3 DEF Flow
      <4>7. \A q \in Pipe : Flow(q)'
        BY <3>1, <4>5, <4>6 DEF FlowInv, Flow
      <4>8. Roles' /\ HandedOver'
        BY <3>1, <4>1 DEF FlowInv, Roles, HandedOver
      <4>9. QED BY <3>1, <4>1, <4>3, <4>7, <4>8 DEF FlowInv
    <3>4. UNCHANGED <<cap, taken>> \/ \E n \in 1 .. cap[p].bytes : cap' = [cap EXCEPT ![p].bytes = @ - n] /\ taken' = [taken EXCEPT ![p] = @ + n]
      BY <2>8 DEF read_pipe
    <3>5. QED BY <3>2, <3>3, <3>4
  <2>9. QED BY <1>7, <2>1, <2>2, <2>3, <2>4, <2>5, <2>6, <2>7, <2>8 DEF OwnerSteps
<1>8. QED BY <1>2, <1>3, <1>4, <1>5, <1>6, <1>7 DEF ChildNext

(* A successful wait or run hands over exactly what the tree wrote to each stream, in       *)
(* whatever order the exit, the ends of the streams and the owner's reads come, and no      *)
(* capture goes over its limit: for every limit, pipe size and amount of output.            *)
THEOREM ChildOutput == ChildSpec => []OutputExact
<1>1. FlowInv => OutputExact
  <2> SUFFICES ASSUME FlowInv PROVE OutputExact
    OBVIOUS
  <2>1. StreamsComplete
    BY DEF FlowInv, HandedOver, StreamsComplete
  <2>2. CaptureBounded
    BY DEF FlowInv, Flow, CaptureBounded
  <2>3. QED BY <2>1, <2>2 DEF OutputExact
<1>2. QED BY <1>1, FlowStarts, FlowSteps, PTL DEF ChildSpec

-----------------------------------------------------------------------------
(* KeyProvider                                                              *)

KeyRecord == [handle : 1 .. MAX_HANDLE_BYTES, digest : {"real", "other"}, expected : Keys]
CallRecord == [op : {"public_key", "sign"}, message : Nat, asks : {"public_key", "sign"},
               public : {<<>>} \union {<<k>> : k \in Keys}, at : {"measure", "launch"}]

\* What a call in progress has established: a signature is asked for only after the
\* provider gave the pinned public key, and while nothing was disturbed it gave it as
\* the key of the device's own slot.
CallSound ==
    /\ invocation \in CallRecord
    /\ invocation.op = "public_key" => invocation.message = 0 /\ invocation.asks = "public_key"
    /\ invocation.op = "sign" => invocation.message <= MAX_KEYSTORE_MESSAGE_BYTES
    /\ invocation.asks = "sign" => invocation.public = <<key.expected>>
    /\ invocation.asks = "sign" /\ changes = 0 => key.handle = Slot /\ device = key.expected

SigningInv ==
    /\ executable \in {"real", "other", "missing"} /\ device \in Keys /\ changes \in Nat
    /\ changes = 0 => executable = "real"
    /\ key # Closed => key \in KeyRecord /\ (changes = 0 => key.digest = "real")
    /\ invocation # Idle => key # Closed /\ CallSound

\* The invariant holds at the start.
LEMMA SigningStarts == SigningInit => SigningInv
  BY DEF SigningInit, SigningInv

\* Whatever is received, what passes validate_public_key and validate_signature is what
\* the pinned key made.
LEMMA ValidatedSound ==
    ASSUME SigningInv, invocation # Idle, NEW answer, Validate(answer),
           UNCHANGED <<executable, device, key>>, changes' \in Nat, changes' = 0 => changes = 0,
           changes' = 0 /\ answer.error = "none" => key.handle = Slot /\ answer.value[1] = device
    PROVE  SigningInv' /\ Released
<1>0. /\ key # Closed /\ key \in KeyRecord /\ CallSound
      /\ key' = key /\ device' = device /\ executable' = executable
  BY DEF SigningInv
<1>1. CASE invocation' = Idle /\ outcome' = answer /\ answer.error # "none"
  BY <1>0, <1>1 DEF SigningInv, Released, CallEnds
<1>2. CASE invocation' = Idle /\ \E e \in {"identity", "signature"} : outcome' = Failure(e)
  BY <1>0, <1>2 DEF SigningInv, Released, CallEnds, Failure
<1>3. CASE /\ answer.error = "none" /\ invocation.op = invocation.asks /\ CallReturns(answer)
           /\ invocation.asks = "public_key" => answer.value = <<key.expected>>
           /\ invocation.asks = "sign" => answer.value = <<invocation.public[1], invocation.message>>
  <2>1. SigningInv'
    BY <1>0, <1>3 DEF SigningInv, CallReturns
  <2>2. CASE invocation.asks = "public_key"
    BY <1>0, <1>3, <2>1, <2>2 DEF Released, CallReturns
  <2>3. CASE invocation.asks = "sign"
    <3>1. invocation.public[1] = key.expected
      BY <1>0, <2>3 DEF CallSound
    <3>2. QED BY <1>3, <2>1, <2>3, <3>1 DEF Released, CallReturns
  <2>4. QED BY <1>0, <2>2, <2>3 DEF CallSound, CallRecord
<1>4. CASE /\ answer.error = "none" /\ invocation.op # invocation.asks
           /\ invocation.asks = "public_key" => answer.value = <<key.expected>>
           /\ invocation' = [invocation EXCEPT !.asks = "sign", !.public = answer.value, !.at = "measure"]
  <2>1. invocation.op = "sign" /\ invocation.asks = "public_key" /\ answer.value = <<key.expected>>
    BY <1>0, <1>4 DEF CallSound, CallRecord
  <2>2. invocation' \in CallRecord /\ invocation'.op = "sign" /\ invocation'.asks = "sign"
        /\ invocation'.message = invocation.message /\ invocation'.public = <<key.expected>>
    BY Zenon, <1>0, <1>4, <2>1 DEF CallSound, CallRecord, KeyRecord
  <2>3. CallSound'
    BY <1>0, <2>1, <2>2, <1>4 DEF CallSound
  <2>4. QED BY <1>0, <2>2, <2>3 DEF SigningInv, Released, CallEnds
<1>5. QED BY <1>0, <1>1, <1>2, <1>3, <1>4 DEF Validate, CallReturns, CallSound, CallRecord

\* An undisturbed exchange: the provider answers the request itself, in full.
LEMMA UndisturbedAnswer ==
    ASSUME SigningInv, invocation # Idle, changes = 0, NEW response \in Answered
    PROVE  decode_frame(invocation.asks, encode_frame(response)) =
             IF key.handle # Slot THEN Failure("rejected")
             ELSE Success(IF invocation.asks = "public_key" THEN <<device>> ELSE <<device, invocation.message>>)
<1>0. executable = "real" /\ key \in KeyRecord /\ CallSound
  BY DEF SigningInv
<1>1. /\ ProviderRequest.op = invocation.asks /\ ProviderRequest.handle = key.handle
      /\ invocation.asks = "sign" => ProviderRequest.message = invocation.message
  BY DEF ProviderRequest, encode_request
<1>2. response = IF key.handle # Slot THEN ProviderResponse(invocation.asks, 4, <<>>, 0)
                 ELSE ProviderResponse(invocation.asks, 0,
                        IF invocation.asks = "public_key" THEN <<device>> ELSE <<device, ProviderRequest.message>>,
                        Size(invocation.asks))
  BY <1>0, <1>1 DEF Answered, dispatch_provider_request
<1>3. invocation.asks \in {"public_key", "sign"}
  BY <1>0 DEF CallSound, CallRecord
<1>4. encode_frame(response).response = response /\ ~encode_frame(response).missing /\ ~encode_frame(response).trailing
  BY DEF encode_frame
<1>5. response.op = invocation.asks /\ response.bytes \in {0, 32, 64}
      /\ HEADER_BYTES + response.bytes <= COMPONENT_MESSAGE_BYTES
  BY <1>2, <1>3, SigningAssumption DEF ProviderResponse, Size, SignatureBytes, PublicKeyBytes
<1>6. decode_frame(invocation.asks, encode_frame(response)) = decode_response(invocation.asks, response)
  BY <1>4, <1>5, SigningAssumption DEF decode_frame
<1>7. CASE key.handle # Slot
  <2>1. response.op = invocation.asks /\ response.status # 0 /\ response.bytes = 0
    BY <1>2, <1>7 DEF ProviderResponse
  <2>2. decode_response(invocation.asks, response) = Failure("rejected")
    BY <2>1 DEF decode_response
  <2>3. QED BY <1>6, <1>7, <2>2
<1>8. CASE key.handle = Slot
  BY <1>1, <1>2, <1>3, <1>6, <1>8 DEF decode_response, ProviderResponse
<1>9. QED BY <1>7, <1>8

\* The message and the handle of a call fit the request, and the request one message.
LEMMA RequestFits ==
    ASSUME SigningInv, invocation # Idle
    PROVE  decode_request(ProviderRequest) /\ ~(RequestBytes(ProviderRequest) > COMPONENT_MESSAGE_BYTES)
<1>1. key \in KeyRecord /\ CallSound
  BY DEF SigningInv
<1>2. /\ ProviderRequest.op = invocation.asks /\ ProviderRequest.handle = key.handle
      /\ ProviderRequest.message = IF invocation.asks = "sign" THEN invocation.message ELSE 0
  BY DEF ProviderRequest, encode_request
<1>3. /\ key.handle \in 1 .. MAX_HANDLE_BYTES /\ ProviderRequest.message \in Nat
      /\ ProviderRequest.message <= MAX_KEYSTORE_MESSAGE_BYTES
      /\ invocation.asks = "public_key" => ProviderRequest.message = 0
  BY <1>1, <1>2, SigningAssumption DEF CallSound, CallRecord, KeyRecord
<1>4. QED
  BY <1>2, <1>3, SigningAssumption
  DEF decode_request, ValidHandle, ValidMessage, RequestBytes, MAX_KEYSTORE_MESSAGE_BYTES

\* Every step keeps the invariant and does what the two action properties ask.
LEMMA SigningSteps == SigningInv /\ [SigningNext]_signing_vars => SigningInv' /\ Released /\ Undisturbed
<1> SUFFICES ASSUME SigningInv, [SigningNext]_signing_vars PROVE SigningInv' /\ Released /\ Undisturbed
  OBVIOUS
<1>0. key # Closed => key \in KeyRecord
  BY DEF SigningInv
<1>1. ASSUME NEW h \in Handles, NEW expected \in Keys, Open(h, expected)
      PROVE  SigningInv' /\ Released /\ Undisturbed
  <2>1. invocation = Idle /\ invocation' = Idle
    BY <1>1 DEF Open, SigningInv
  <2>2. \/ key' = key
        \/ /\ key' = [handle |-> h, digest |-> executable, expected |-> expected]
           /\ executable # "missing" /\ h \in 1 .. MAX_HANDLE_BYTES
    <3>1. provider_digest.error = "none" => executable # "missing" /\ provider_digest.value = executable
      BY DEF provider_digest, Success, Failure
    <3>2. QED BY <1>1, <3>1 DEF Open, ValidHandle
  <2>3. key' # Closed => key' \in KeyRecord /\ (changes = 0 => key'.digest = "real")
    BY <2>2 DEF SigningInv, KeyRecord
  <2>4. QED BY <1>1, <2>1, <2>3 DEF Open, SigningInv, Released, Undisturbed, CallEnds
<1>2. ASSUME NEW op \in {"public_key", "sign"}, NEW message \in Nat, BeginCall(op, message),
             op = "public_key" => message = 0
      PROVE  SigningInv' /\ Released /\ Undisturbed
  <2>1. CASE invocation' = invocation
    BY <1>2, <2>1 DEF BeginCall, SigningInv, Released, Undisturbed, CallEnds
  <2>2. CASE /\ invocation' = [op |-> op, message |-> message, asks |-> "public_key", public |-> <<>>, at |-> "measure"]
             /\ op = "sign" => message <= MAX_KEYSTORE_MESSAGE_BYTES
    <3>1. CallSound'
      BY <1>2, <2>2 DEF CallSound, CallRecord
    <3>2. QED BY <1>2, <3>1 DEF BeginCall, SigningInv, Released, Undisturbed, CallEnds
  <2>3. QED BY <1>2, <2>1, <2>2, SigningAssumption DEF BeginCall, MAX_KEYSTORE_MESSAGE_BYTES
<1>3. CASE Measure
  <2>1. decode_request(ProviderRequest) /\ key # Closed /\ CallSound
    BY <1>3, RequestFits DEF Measure, SigningInv
  <2>2. CASE \E r : CallReturns(r) /\ r.error # "none"
    <3>1. changes = 0 => provider_digest.error = "none" /\ provider_digest.value = key.digest
      BY <2>1 DEF SigningInv, provider_digest, Success
    <3>2. [invocation EXCEPT !.at = "launch"].op # "none"
      BY <2>1 DEF CallSound, CallRecord
    <3>3. changes # 0
      BY <1>3, <2>1, <2>2, <3>1, <3>2 DEF Measure, CallReturns, Idle
    <3>4. QED BY <1>3, <2>2, <3>3 DEF Measure, SigningInv, Released, Undisturbed, CallReturns
  <2>3. CASE invocation' = [invocation EXCEPT !.at = "launch"]
    <3>1. CallSound'
      BY <1>3, <2>1, <2>3 DEF Measure, CallSound, CallRecord
    <3>2. invocation'.op # "none"
      BY <2>1, <2>3 DEF CallSound, CallRecord
    <3>3. QED BY <1>3, <2>1, <3>1, <3>2 DEF Measure, SigningInv, Released, Undisturbed, CallEnds
  <2>4. QED BY <1>3, <2>1, <2>2, <2>3 DEF Measure, Failure, Success, provider_digest
<1>4. CASE InvokeComponent
  <2>0. invocation # Idle /\ ~(RequestBytes(ProviderRequest) > COMPONENT_MESSAGE_BYTES) /\ CallSound
    BY <1>4, RequestFits DEF InvokeComponent, SigningInv
  <2>1. CASE Answered = {} /\ CallReturns(Failure("component"))
    <3>1. executable # "real"
      BY Zenon, <2>0, <2>1, RequestFits DEF Answered, dispatch_provider_request
    <3>2. QED BY <1>4, <2>1, <3>1 DEF InvokeComponent, SigningInv, Released, Undisturbed, CallReturns, Failure
  <2>2. ASSUME NEW response \in Answered, Validate(decode_frame(invocation.asks, encode_frame(response)))
        PROVE  SigningInv' /\ Released /\ Undisturbed
    <3> DEFINE answer == decode_frame(invocation.asks, encode_frame(response))
    <3>1. changes = 0 => answer = IF key.handle # Slot THEN Failure("rejected")
             ELSE Success(IF invocation.asks = "public_key" THEN <<device>> ELSE <<device, invocation.message>>)
      BY <2>0, UndisturbedAnswer
    <3>2. changes = 0 /\ answer.error = "none" => key.handle = Slot /\ answer.value[1] = device
      BY <3>1 DEF Failure, Success
    <3>3. changes' = changes /\ changes \in Nat /\ UNCHANGED <<executable, device, key>>
      BY <1>4 DEF InvokeComponent, SigningInv
    <3>4. Validate(answer)
      BY <2>2
    <3> HIDE DEF answer
    <3>5. SigningInv' /\ Released
      BY <2>0, <3>2, <3>3, <3>4, ValidatedSound
    <3>6. ASSUME changes = 0, CallEnds
          PROVE  outcome'.error = IF key.handle # Slot THEN "rejected" ELSE IF key.expected # device THEN "identity" ELSE "none"
      <4>1. CASE key.handle # Slot
        BY <3>1, <3>4, <3>6, <4>1 DEF Validate, CallReturns, Failure
      <4>2. CASE key.handle = Slot /\ invocation.asks = "public_key"
        <5>1. answer.error = "none" /\ answer.value = <<device>>
          BY <3>1, <3>6, <4>2 DEF Success
        <5>2. CASE key.expected # device
          BY <3>4, <4>2, <5>1, <5>2 DEF Validate, CallReturns, Failure
        <5>3. CASE key.expected = device
          BY Zenon, <2>0, <3>4, <3>6, <4>2, <5>1, <5>3 DEF Validate, CallReturns, CallEnds, CallSound, CallRecord
        <5>4. QED BY <5>2, <5>3
      <4>3. CASE key.handle = Slot /\ invocation.asks = "sign"
        <5>1. answer.error = "none" /\ answer.value = <<device, invocation.message>>
          BY <3>1, <3>6, <4>3 DEF Success
        <5>2. device = key.expected /\ invocation.public[1] = key.expected /\ invocation.op = "sign"
          BY <2>0, <3>6, <4>3 DEF CallSound, CallRecord
        <5>3. QED BY <3>4, <4>3, <5>1, <5>2 DEF Validate, CallReturns
      <4>4. QED BY <2>0, <4>1, <4>2, <4>3 DEF CallSound, CallRecord
    <3>7. QED BY <3>3, <3>5, <3>6 DEF Undisturbed
  <2>3. QED BY <1>4, <2>0, <2>1, <2>2, Zenon DEF InvokeComponent
<1>5. CASE Disturbed
  <2>0. invocation # Idle /\ changes' = changes + 1 /\ changes' \in Nat /\ changes' # 0 /\ UNCHANGED <<executable, device, key>>
    BY <1>5 DEF Disturbed, SigningInv
  <2>1. Undisturbed
    BY <2>0 DEF Undisturbed
  <2>2. CASE CallReturns(Failure("component"))
    BY <2>0, <2>1, <2>2 DEF SigningInv, Released, CallReturns, Failure
  <2>3. ASSUME NEW answer, Validate(answer)
        PROVE  SigningInv' /\ Released
    BY <2>0, <2>3, ValidatedSound
  <2>4. QED BY <1>5, <2>1, <2>2, <2>3 DEF Disturbed
<1>6. CASE Drop
  BY <1>6 DEF Drop, SigningInv, Released, Undisturbed, CallEnds
<1>7. ASSUME NEW program \in {"real", "other", "missing"}, ReplaceProgram(program)
      PROVE  SigningInv' /\ Released /\ Undisturbed
  BY <1>7 DEF ReplaceProgram, SigningInv, CallSound, CallRecord, Released, Undisturbed, CallEnds
<1>8. ASSUME NEW k \in Keys, Rotate(k)
      PROVE  SigningInv' /\ Released /\ Undisturbed
  BY <1>8 DEF Rotate, SigningInv, CallSound, CallRecord, Released, Undisturbed, CallEnds
<1>9. CASE UNCHANGED signing_vars
  BY <1>9 DEF signing_vars, SigningInv, CallSound, CallRecord, Released, Undisturbed, CallEnds
<1>10. QED
  BY <1>1, <1>2, <1>3, <1>4, <1>5, <1>6, <1>7, <1>8, <1>9, SigningAssumption DEF SigningNext

\* crypto_keystore.rs: whatever happens to the executable, the device and the bytes between
\* them, a call returns the pinned key or its signature of the caller's message; and a call
\* that nothing disturbs fails only for a handle or a key that is not the device's.
THEOREM SigningCorrect == SigningSpec => SigningExact
<1>1. SigningSpec => []SigningInv
  BY SigningStarts, SigningSteps, PTL DEF SigningSpec
<1>2. SigningInv /\ [SigningNext]_signing_vars => [Released /\ Undisturbed]_signing_vars
  BY SigningSteps
<1>3. QED BY <1>1, <1>2, PTL DEF SigningSpec, SigningExact
=============================================================================
