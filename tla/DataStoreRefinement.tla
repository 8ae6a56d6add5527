------------------------ MODULE DataStoreRefinement ------------------------
(***************************************************************************)
(* The durable store implements the atomic one, for every set of handles   *)
(* and every number of pages and generations: the initial states map to    *)
(* initial states, and every step of the store maps to one step of         *)
(* AtomicStore or to none.  Beside the invariants of DataStoreDurability   *)
(* the argument needs two facts: a handle that has not read the store yet  *)
(* has nothing in memory, and a power loss never has the choice between    *)
(* more than two snapshots.                                                *)
(***************************************************************************)
EXTENDS DataStoreDurability

\* what is in the memory of a handle that is not open yet
Blank == \A s \in Store : Phase(s) = "none" => mem[s] = Empty /\ prev[s] = Empty

\* beside the stored snapshot there is at most one that an open may read
TwoAnswers ==
  \A d, e \in dirs : Target(d) # Stored /\ Target(e) # Stored => Target(d) = Target(e)

RInv == IInv /\ Blank /\ TwoAnswers

Phases == [s \in Store |-> Phase(s)]

-----------------------------------------------------------------------------
(* What a power loss may leave *)

\* With one answer the fallback is the stored snapshot.
LEMMA OneAnswer ==
  ASSUME \A d \in dirs : Recovered(d, main) = Recovered(dir, main)
  PROVE  Fallback = Stored /\ TwoAnswers
<1>1. {Recovered(d, main) : d \in dirs} \ {Stored} = {}
  BY DEF Stored
<1> QED
  BY <1>1 DEF Fallback, TwoAnswers, Target, Stored

\* Every answer is the stored snapshot or the fallback.
LEMMA FallbackCovers ==
  ASSUME TwoAnswers, NEW d \in dirs
  PROVE  Recovered(d, main) \in {Stored, Fallback}
<1> DEFINE others == {Recovered(e, main) : e \in dirs} \ {Stored}
<1> SUFFICES ASSUME Recovered(d, main) # Stored PROVE Recovered(d, main) = Fallback
  OBVIOUS
<1>1. others = {Recovered(d, main)}
  BY DEF TwoAnswers, Target
<1>2. Fallback = CHOOSE x \in others : TRUE
  BY <1>1 DEF Fallback
<1> QED
  BY <1>1, <1>2

\* The same facts about the state after a step.
LEMMA OneAnswerNext ==
  ASSUME \A d \in dirs' : Recovered(d, main') = Recovered(dir', main')
  PROVE  Fallback' = Stored' /\ TwoAnswers'
<1>1. {Recovered(d, main') : d \in dirs'} \ {Stored'} = {}
  BY DEF Stored
<1> QED
  BY <1>1 DEF Fallback, TwoAnswers, Target, Stored

\* A step that keeps the stored snapshot and adds no answer keeps the fallback,
\* or settles it.
LEMMA FewerAnswers ==
  ASSUME TwoAnswers, Recovered(dir', main') = Recovered(dir, main),
         \A d \in dirs' : \E e \in dirs : Recovered(d, main') = Recovered(e, main)
  PROVE  Stored' = Stored /\ Fallback' \in {Stored, Fallback} /\ TwoAnswers'
<1> DEFINE others == {Recovered(d, main) : d \in dirs} \ {Stored}
           left   == {Recovered(d, main') : d \in dirs'} \ {Stored'}
<1>1. Stored' = Stored
  BY DEF Stored
<1>2. left \subseteq others /\ \A x, y \in others : x = y
  BY <1>1 DEF TwoAnswers, Target
<1>3. Fallback = (IF others = {} THEN Stored ELSE CHOOSE x \in others : TRUE)
  BY DEF Fallback
<1>4. Fallback' = (IF left = {} THEN Stored' ELSE CHOOSE x \in left : TRUE)
  BY DEF Fallback
<1>5. left = {} \/ left = others
  BY <1>2
<1>6. Fallback' \in {Stored, Fallback}
  BY <1>1, <1>3, <1>4, <1>5
<1>7. TwoAnswers'
  <2> SUFFICES ASSUME NEW d \in dirs', NEW e \in dirs', Recovered(d, main') # Stored', Recovered(e, main') # Stored'
               PROVE  Recovered(d, main') = Recovered(e, main')
    BY DEF TwoAnswers, Target
  <2>1. Recovered(d, main') \in left /\ Recovered(e, main') \in left
    OBVIOUS
  <2> QED
    BY <1>2, <2>1
<1> QED
  BY <1>1, <1>6, <1>7

-----------------------------------------------------------------------------
(* Phases *)

\* The phase of a handle outside an operation is its place, inside one it is
\* given by the operation.
LEMMA PhaseIs ==
  ASSUME NEW s
  PROVE  /\ pc[s] \in {"none", "open", "closed"} => Phase(s) = pc[s]
         /\ pc[s] \notin {"none", "open", "closed"} =>
              /\ mode[s] = "load" => Phase(s) = "none"
              /\ mode[s] = "commit" => Phase(s) = "busy"
              /\ mode[s] = "checkpoint" => Phase(s) = "done"
  BY DEF Phase

\* A step of one handle moves the phase of that handle only.
LEMMA PhaseMoves ==
  ASSUME TypeInv, NEW s \in Store, NEW x, NEW m,
         pc' = [pc EXCEPT ![s] = x], mode' = [mode EXCEPT ![s] = m]
  PROVE  /\ Phases' = [Phases EXCEPT ![s] = Phase(s)']
         /\ \A t \in Store : t # s => Phase(t)' = Phase(t)
         /\ x \in {"none", "open", "closed"} => Phase(s)' = x
         /\ x \notin {"none", "open", "closed"} =>
              /\ m = "load" => Phase(s)' = "none"
              /\ m = "commit" => Phase(s)' = "busy"
              /\ m = "checkpoint" => Phase(s)' = "done"
<1>1. pc'[s] = x /\ mode'[s] = m /\ \A t \in Store : t # s => pc'[t] = pc[t] /\ mode'[t] = mode[t]
  BY PerHandle
<1>2. \A t \in Store : t # s => Phase(t)' = Phase(t)
  BY <1>1 DEF Phase
<1>3. Phases' = [Phases EXCEPT ![s] = Phase(s)']
  BY Zenon, <1>2 DEF Phases
<1> QED
  BY Zenon, <1>1, <1>2, <1>3 DEF Phase

\* The phase of a handle in each operation.
LEMMA PhaseIn ==
  ASSUME TypeInv, NEW s \in Store
  PROVE  /\ mode[s] = "idle" => Phase(s) = pc[s]
         /\ mode[s] = "load" => Phase(s) = "none"
         /\ mode[s] = "commit" => Phase(s) = "busy"
         /\ mode[s] = "checkpoint" => Phase(s) = "done"
  BY PhaseIs DEF TypeInv, LocalInv, InApply

-----------------------------------------------------------------------------
(* The steps *)

\* The step is one of the atomic store or none, and keeps the two invariants.
Simulated == Blank' /\ TwoAnswers' /\ [Atomic!Next]_(Atomic!vars)

\* A step of one handle leaves the memory of the others blank or full.
LEMMA BlankMoves ==
  ASSUME Blank, NEW s \in Store,
         \A t \in Store : t # s => Phase(t)' = Phase(t) /\ mem'[t] = mem[t] /\ prev'[t] = prev[t],
         Phase(s)' = "none" => mem'[s] = Empty /\ prev'[s] = Empty
  PROVE  Blank'
  BY DEF Blank

\* A step inside an operation that changes no memory image, keeps the stored
\* snapshot and adds no answer: nothing, or Harden.
LEMMA InnerStep ==
  ASSUME TypeInv, Blank, TwoAnswers, NEW s \in Store, NEW x, NEW m,
         pc' = [pc EXCEPT ![s] = x], mode' = [mode EXCEPT ![s] = m], Phase(s)' = Phase(s),
         mem' = mem, prev' = prev, Recovered(dir', main') = Recovered(dir, main),
         \A d \in dirs' : \E e \in dirs : Recovered(d, main') = Recovered(e, main)
  PROVE  Simulated
<1>1. Phases' = Phases /\ \A t \in Store : Phase(t)' = Phase(t)
  BY Zenon, PhaseMoves DEF Phases
<1>2. Blank'
  BY <1>1 DEF Blank
<1>3. Stored' = Stored /\ Fallback' \in {Stored, Fallback} /\ TwoAnswers'
  BY FewerAnswers
<1>4. CASE Fallback' = Fallback
  <2>1. UNCHANGED Atomic!vars
    BY <1>1, <1>3, <1>4 DEF Atomic!vars, Phases
  <2> QED
    BY <1>2, <1>3, <2>1 DEF Simulated
<1>5. CASE Fallback' = Stored
  <2>1. Atomic!Harden
    BY <1>1, <1>3, <1>5 DEF Atomic!Harden, Phases
  <2> QED
    BY <1>2, <1>3, <2>1 DEF Simulated, Atomic!Next
<1> QED
  BY <1>3, <1>4, <1>5

\* A step that leaves the disk alone leaves the answers alone.
LEMMA DiskUnchanged ==
  ASSUME TwoAnswers, UNCHANGED disk
  PROVE  Stored' = Stored /\ Fallback' = Fallback /\ TwoAnswers'
  BY DEF disk, Stored, Fallback, TwoAnswers, Target

\* The step of a handle from one phase to another.
Moved(s, from, to) == Phases[s] = from /\ Phases' = [Phases EXCEPT ![s] = to]

\* A move of one handle's phase is a move of the abstract store.
LEMMA MovedIsMove ==
  ASSUME NEW s \in Store, NEW from, NEW to, Moved(s, from, to)
  PROVE  Atomic!Move(s, from, to)
  BY DEF Moved, Phases, Atomic!Move

\* Mutations begin and handles close without touching the disk.
LEMMA MutateStep ==
  ASSUME RInv, NEW s \in Store, NEW v \in Value, Mutate(s, v)
  PROVE  Simulated
<1>1. /\ pc[s] = "open" /\ pc' = [pc EXCEPT ![s] = "recover"] /\ mode' = [mode EXCEPT ![s] = "commit"]
      /\ prev' = [prev EXCEPT ![s] = mem[s]] /\ mem' = [mem EXCEPT ![s] = v] /\ UNCHANGED disk
  BY DEF Mutate, Goto, SetPc
<1>2. TypeInv /\ Blank /\ TwoAnswers
  BY DEF RInv, IInv
<1>3. /\ Phases' = [Phases EXCEPT ![s] = "busy"] /\ Phase(s)' = "busy"
      /\ \A t \in Store : t # s => Phase(t)' = Phase(t)
  BY Zenon, <1>1, <1>2, PhaseMoves
<1>4. Phase(s) = "open"
  BY <1>1, PhaseIs
<1>5. Moved(s, "open", "busy")
  BY <1>3, <1>4 DEF Moved, Phases
<1>6. Blank'
  <2>1. \A t \in Store : t # s => mem'[t] = mem[t] /\ prev'[t] = prev[t]
    BY <1>1, <1>2 DEF TypeInv, TypeOK
  <2> QED
    BY <1>2, <1>3, <2>1, BlankMoves
<1>7. Stored' = Stored /\ Fallback' = Fallback /\ TwoAnswers'
  BY <1>1, <1>2, DiskUnchanged
<1>8. Atomic!Begin(s)
  BY Zenon, <1>1, <1>5, <1>7, MovedIsMove DEF Atomic!Begin
<1> QED
  BY <1>6, <1>7, <1>8 DEF Simulated, Atomic!Next

\* close forgets the memory image of its handle.
LEMMA CloseStep ==
  ASSUME RInv, NEW s \in Store, Close(s)
  PROVE  Simulated
<1>1. /\ pc[s] = "open" /\ pc' = [pc EXCEPT ![s] = "closed"] /\ mode' = mode
      /\ prev' = prev /\ mem' = [mem EXCEPT ![s] = Empty] /\ UNCHANGED disk
  BY DEF Close, Goto, SetPc
<1>2. TypeInv /\ Blank /\ TwoAnswers
  BY DEF RInv, IInv
<1>3. /\ Phases' = [Phases EXCEPT ![s] = "closed"] /\ Phase(s)' = "closed"
      /\ \A t \in Store : t # s => Phase(t)' = Phase(t)
  <2>1. mode' = [mode EXCEPT ![s] = mode[s]]
    BY <1>1, <1>2, PerHandle
  <2> QED
    BY Zenon, <1>1, <1>2, <2>1, PhaseMoves
<1>4. Phase(s) = "open"
  BY <1>1, PhaseIs
<1>5. Moved(s, "open", "closed")
  BY <1>3, <1>4 DEF Moved, Phases
<1>6. Blank'
  <2>1. \A t \in Store : t # s => mem'[t] = mem[t] /\ prev'[t] = prev[t]
    BY <1>1, <1>2 DEF TypeInv, TypeOK
  <2> QED
    BY <1>2, <1>3, <2>1, BlankMoves
<1>7. Stored' = Stored /\ Fallback' = Fallback /\ TwoAnswers'
  BY <1>1, <1>2, DiskUnchanged
<1>8. Atomic!Close(s)
  BY <1>1, <1>5, <1>7, MovedIsMove DEF Atomic!Close
<1> QED
  BY <1>6, <1>7, <1>8 DEF Simulated, Atomic!Next

\* A handle that goes away had the store open, or leaves nothing behind.
LEMMA LeaveStep ==
  ASSUME RInv, NEW s \in Store, Leave(s)
  PROVE  Simulated
<1>1. /\ pc' = [pc EXCEPT ![s] = "none"] /\ mode' = [mode EXCEPT ![s] = "idle"]
      /\ mem' = [mem EXCEPT ![s] = Empty] /\ prev' = [prev EXCEPT ![s] = Empty] /\ UNCHANGED disk
  BY DEF Leave, SetPc
<1>2. TypeInv /\ Blank /\ TwoAnswers
  BY DEF RInv, IInv
<1>3. /\ Phases' = [Phases EXCEPT ![s] = "none"] /\ Phase(s)' = "none"
      /\ \A t \in Store : t # s => Phase(t)' = Phase(t)
  BY Zenon, <1>1, <1>2, PhaseMoves
<1>4. mem'[s] = Empty /\ prev'[s] = Empty /\ \A t \in Store : t # s => mem'[t] = mem[t] /\ prev'[t] = prev[t]
  BY <1>1, <1>2 DEF TypeInv, TypeOK
<1>5. Blank'
  BY <1>2, <1>3, <1>4, BlankMoves
<1>6. Stored' = Stored /\ Fallback' = Fallback /\ TwoAnswers'
  BY <1>1, <1>2, DiskUnchanged
<1>7. CASE Phase(s) = "none"
  <2>1. mem' = mem /\ prev' = prev
    BY <1>1, <1>2, <1>7 DEF Blank, TypeInv, TypeOK
  <2>2. Phases' = Phases
    BY <1>3, <1>7 DEF Phases
  <2>3. UNCHANGED Atomic!vars
    BY <1>6, <2>1, <2>2 DEF Atomic!vars, Phases
  <2> QED
    BY <1>5, <1>6, <2>3 DEF Simulated
<1>8. CASE Phase(s) # "none"
  <2>1. Atomic!Leave(s)
    BY <1>1, <1>3, <1>6, <1>8 DEF Atomic!Leave, Phases
  <2> QED
    BY <1>5, <1>6, <2>1 DEF Simulated, Atomic!Next
<1> QED
  BY <1>7, <1>8

\* A reported error takes the memory image back: before the commit point this
\* is Abort, and when only the removal of the log failed it is Misreport.
LEMMA ReturnErrStep ==
  ASSUME RInv, NEW s \in Store, ReturnErr(s),
         mode[s] = "commit" \/ (mode[s] = "checkpoint" /\ pc[s] = "unlink")
  PROVE  Simulated
<1>1. /\ pc' = [pc EXCEPT ![s] = "open"] /\ mode' = [mode EXCEPT ![s] = "idle"]
      /\ mem' = [mem EXCEPT ![s] = prev[s]] /\ prev' = [prev EXCEPT ![s] = Empty] /\ UNCHANGED disk
  BY DEF ReturnErr, Return, SetPc, disk
<1>2. TypeInv /\ DiskInv /\ HistoryInv /\ Blank /\ TwoAnswers
  BY DEF RInv, IInv
<1>3. /\ Phases' = [Phases EXCEPT ![s] = "open"] /\ Phase(s)' = "open"
      /\ \A t \in Store : t # s => Phase(t)' = Phase(t)
  BY Zenon, <1>1, <1>2, PhaseMoves
<1>4. \A t \in Store : t # s => mem'[t] = mem[t] /\ prev'[t] = prev[t]
  BY <1>1, <1>2 DEF TypeInv, TypeOK
<1>5. Blank'
  BY <1>2, <1>3, <1>4, BlankMoves
<1>6. Stored' = Stored /\ Fallback' = Fallback /\ TwoAnswers'
  BY <1>1, <1>2, DiskUnchanged
<1>7. Atomic!Restore(s)
  BY <1>1, <1>6 DEF Atomic!Restore
<1>8. CASE mode[s] = "commit"
  <2>1. Phase(s) = "busy"
    BY <1>2, <1>8, PhaseIn
  <2>2. Moved(s, "busy", "open")
    BY <1>3, <2>1 DEF Moved, Phases
  <2>3. Atomic!Abort(s)
    BY <1>7, <2>2, MovedIsMove DEF Atomic!Abort
  <2> QED
    BY <1>5, <1>6, <2>3 DEF Simulated, Atomic!Next
<1>9. CASE mode[s] = "checkpoint" /\ pc[s] = "unlink"
  <2>1. Phase(s) = "done"
    BY <1>2, <1>9, PhaseIn
  <2>2. Moved(s, "done", "open")
    BY <1>3, <2>1 DEF Moved, Phases
  <2>3. \A d \in dirs : Recovered(d, main) = Recovered(dir, main)
    BY <1>2, <1>9 DEF HistoryInv, HistoryAt, Target
  <2>4. Fallback = Stored
    BY <2>3, OneAnswer
  <2>5. Atomic!Misreport(s)
    BY <1>7, <2>2, <2>4, MovedIsMove DEF Atomic!Misreport
  <2> QED
    BY <1>5, <1>6, <2>5 DEF Simulated, Atomic!Next
<1> QED
  BY <1>8, <1>9

\* commit returns Ok when its snapshot is the one answer.
LEMMA ReturnOkStep ==
  ASSUME RInv, NEW s \in Store, Unbackup(s) \/ FailCheckpoint(s)
  PROVE  Simulated
<1>1. TypeInv /\ DiskInv /\ HistoryInv /\ Blank /\ TwoAnswers
  BY DEF RInv, IInv
<1>2. /\ mode[s] = "checkpoint" /\ ReturnOk(s) /\ dir' \in dirs'
      /\ \A d \in dirs : Recovered(d, main) = mem[s]
      /\ \A d \in dirs' : Recovered(d, main') = mem[s]
  BY <1>1, OkAnswers
<1>3. /\ pc' = [pc EXCEPT ![s] = "open"] /\ mode' = [mode EXCEPT ![s] = "idle"]
      /\ prev' = [prev EXCEPT ![s] = Empty] /\ mem' = mem
  BY <1>2 DEF ReturnOk, Return, SetPc
<1>4. Stored = mem[s] /\ Stored' = mem[s]
  BY <1>1, <1>2 DEF Stored, DiskInv, DirInv
<1>5. Fallback = Stored
  BY <1>2, <1>4, OneAnswer DEF Stored
<1>6. Fallback' = Stored' /\ TwoAnswers'
  BY <1>2, <1>4, OneAnswerNext DEF Stored
<1>7. /\ Phases' = [Phases EXCEPT ![s] = "open"] /\ Phase(s)' = "open"
      /\ \A t \in Store : t # s => Phase(t)' = Phase(t)
  BY Zenon, <1>1, <1>3, PhaseMoves
<1>8. \A t \in Store : t # s => mem'[t] = mem[t] /\ prev'[t] = prev[t]
  BY <1>1, <1>3 DEF TypeInv, TypeOK
<1>9. Blank'
  BY <1>1, <1>7, <1>8, BlankMoves
<1>10. Moved(s, "done", "open")
  BY <1>1, <1>2, <1>7, PhaseIn DEF Moved, Phases
<1>11. Atomic!Acknowledge(s)
  BY <1>3, <1>4, <1>5, <1>6, <1>10, MovedIsMove DEF Atomic!Acknowledge
<1> QED
  BY <1>6, <1>9, <1>11 DEF Simulated, Atomic!Next

\* load ends by opening the atomic store: no other handle is at it, and the
\* stored snapshot is the one answer.
LEMMA ReadSnapshotStep ==
  ASSUME RInv, NEW s \in Store, ReadSnapshot(s)
  PROVE  Simulated
<1>1. TypeInv /\ DiskInv /\ HistoryInv /\ Blank /\ TwoAnswers
  BY DEF RInv, IInv
<1>2. /\ pc[s] = "snapshot" /\ pc' = [pc EXCEPT ![s] = "open"] /\ mode' = [mode EXCEPT ![s] = "idle"]
      /\ mem' = [mem EXCEPT ![s] = Stored] /\ prev' = prev
  BY DEF ReadSnapshot, Goto, SetPc, Stored
<1>3. /\ dir' \in dirs'
      /\ \A d \in dirs : Recovered(d, main) = Recovered(dir, main)
      /\ \A d \in dirs' : Recovered(d, main') = Recovered(dir, main)
  BY <1>1, ReadSnapshotAnswers
<1>4. Stored' = Stored /\ Fallback = Stored
  BY <1>3, OneAnswer DEF Stored
<1>5. Fallback' = Stored' /\ TwoAnswers'
  BY <1>3, <1>4, OneAnswerNext DEF Stored
<1>6. mode[s] = "load"
  BY <1>1, <1>2 DEF TypeInv, TypeOK, LocalInv, InApply
<1>7. \A t \in Store : Phase(t) = "none"
  <2>1. \A t \in Store : t # s => pc[t] = "none"
    BY <1>1, <1>2, OthersIdle
  <2> QED
    BY Zenon, <1>1, <1>6, <2>1, PhaseIn, PhaseIs
<1>8. /\ Phases' = [Phases EXCEPT ![s] = "open"] /\ Phase(s)' = "open"
      /\ \A t \in Store : t # s => Phase(t)' = Phase(t)
  BY Zenon, <1>1, <1>2, PhaseMoves
<1>9. \A t \in Store : t # s => mem'[t] = mem[t] /\ prev'[t] = prev[t]
  BY <1>1, <1>2 DEF TypeInv, TypeOK
<1>10. Blank'
  BY <1>1, <1>8, <1>9, BlankMoves
<1>11. Moved(s, "none", "open")
  BY <1>7, <1>8 DEF Moved, Phases
<1>12. Atomic!Open(s)
  BY <1>2, <1>4, <1>5, <1>7, <1>11, MovedIsMove DEF Atomic!Open
<1> QED
  BY <1>5, <1>10, <1>12 DEF Simulated, Atomic!Next

\* The rename of the log is the commit: the new snapshot is stored, the old one
\* is what a power loss may bring back.
LEMMA RenameStep ==
  ASSUME RInv, HistoryInv', NEW s \in Store, Rename(s)
  PROVE  Simulated
<1>1. TypeInv /\ DiskInv /\ HistoryInv /\ Blank /\ TwoAnswers
  BY DEF RInv, IInv
<1>2. /\ pc[s] = "rename" /\ pc' = [pc EXCEPT ![s] = "syncdir"]
      /\ mode' = [mode EXCEPT ![s] = "checkpoint"] /\ mem' = mem /\ prev' = prev
      /\ dirs' = dirs \cup {dir'} /\ main' = main
  BY DEF Rename, Goto, SetPc, SetDir
<1>3. mode[s] = "commit" /\ dir.wal = NoWal /\ mode'[s] = "checkpoint"
  BY <1>1, <1>2 DEF TypeInv, TypeOK, LocalInv, InApply
<1>4. Stored' = mem[s]
  BY <1>2, <1>3 DEF HistoryInv, HistoryAt, Target, Stored
<1>5. \A d \in dirs : Recovered(d, main) = Stored
  BY <1>1, <1>3 DEF HistoryInv, Target, Stored
<1>6. dir \in dirs
  BY <1>1 DEF DiskInv, DirInv
<1>7. {Recovered(d, main') : d \in dirs'} = {Stored, Stored'}
  <2>1. \A d \in dirs' : Recovered(d, main') \in {Stored, Stored'}
    BY <1>2, <1>5 DEF Stored
  <2>2. Recovered(dir, main') = Stored /\ Recovered(dir', main') = Stored'
    BY <1>2 DEF Stored
  <2> QED
    BY <1>2, <1>6, <2>1, <2>2
<1>8. Fallback' = Stored
  <2> DEFINE left == {Recovered(d, main') : d \in dirs'} \ {Stored'}
  <2>1. Fallback' = (IF left = {} THEN Stored' ELSE CHOOSE x \in left : TRUE)
    BY DEF Fallback
  <2>2. CASE Stored' = Stored
    <3>1. left = {}
      BY <1>7, <2>2
    <3> QED
      BY <2>1, <2>2, <3>1
  <2>3. CASE Stored' # Stored
    <3>1. left = {Stored}
      BY <1>7, <2>3
    <3> QED
      BY <2>1, <3>1
  <2> QED
    BY <2>2, <2>3
<1>9. TwoAnswers'
  BY <1>7 DEF TwoAnswers, Target
<1>10. /\ Phases' = [Phases EXCEPT ![s] = "done"] /\ Phase(s)' = "done"
       /\ \A t \in Store : t # s => Phase(t)' = Phase(t)
  BY Zenon, <1>1, <1>2, PhaseMoves
<1>11. Blank'
  BY <1>1, <1>2, <1>10, BlankMoves
<1>12. Moved(s, "busy", "done")
  BY <1>1, <1>3, <1>10, PhaseIn DEF Moved, Phases
<1>13. Atomic!Commit(s)
  BY <1>2, <1>4, <1>8, <1>12, MovedIsMove DEF Atomic!Commit
<1> QED
  BY <1>9, <1>11, <1>13 DEF Simulated, Atomic!Next

\* A power loss leaves the stored snapshot or the fallback, and no handle.
LEMMA PowerLossStep ==
  ASSUME RInv, PowerLoss
  PROVE  Simulated
<1>1. TypeInv /\ DiskInv /\ TwoAnswers
  BY DEF RInv, IInv
<1>2. PICK d \in dirs : main' \in Survivors(d) /\ dir' = Settled(d)
  BY DEF PowerLoss
<1>3. dir' = d /\ Recovered(d, main') = Recovered(d, main)
  BY <1>1, <1>2, SoundSurvives DEF TypeInv, DiskInv, DirInv
<1>4. Stored' \in {Stored, Fallback}
  BY <1>1, <1>3, FallbackCovers DEF Stored
<1>5. dirs' = {dir'}
  BY DEF PowerLoss
<1>6. Fallback' = Stored' /\ TwoAnswers'
  BY <1>5, OneAnswerNext
<1>7. /\ pc' = [s \in Store |-> "none"] /\ mem' = [s \in Store |-> Empty]
      /\ prev' = [s \in Store |-> Empty]
  BY DEF PowerLoss
<1>8. Phases' = [s \in Store |-> "none"]
  BY <1>7 DEF Phases, Phase
<1>9. Blank'
  BY <1>7 DEF Blank
<1>10. Atomic!PowerLoss
  BY <1>4, <1>6, <1>7, <1>8 DEF Atomic!PowerLoss, Phases
<1> QED
  BY <1>6, <1>9, <1>10 DEF Simulated, Atomic!Next

\* What an operation does between its start and its end is nothing to the
\* atomic store, or settles which snapshot a power loss leaves.
LEMMA InnerSteps ==
  ASSUME Ordered, ~DirSyncFails, RInv, NEW s \in Store,
         \/ Open(s) \/ Recover(s) \/ Prepare(s) \/ SyncTmp(s) \/ SyncDir(s)
         \/ Apply(s) \/ BeginWrite(s) \/ EndWrite(s) \/ SetLen(s) \/ Sync(s) \/ Unlink(s)
  PROVE  Simulated
<1>1. TypeInv /\ DiskInv /\ HistoryInv /\ Blank /\ TwoAnswers
  BY DEF RInv, IInv
<1>2. mode = [mode EXCEPT ![s] = mode[s]]
  BY <1>1, PerHandle
<1>3. CASE Open(s)
  <2>1. /\ pc[s] = "none" /\ pc' = [pc EXCEPT ![s] = "recover"] /\ mode' = [mode EXCEPT ![s] = "load"]
        /\ mem' = mem /\ prev' = prev /\ UNCHANGED disk
    BY <1>3 DEF Open, Goto, SetPc
  <2>2. Phase(s)' = Phase(s)
    <3>1. Phase(s)' = "none"
      BY Zenon, <1>1, <2>1, PhaseMoves
    <3> QED
      BY <2>1, <3>1, PhaseIs
  <2> QED
    BY Zenon, <1>1, <2>1, <2>2, InnerStep DEF disk
<1>4. CASE Recover(s) \/ Prepare(s) \/ SyncTmp(s) \/ SyncDir(s)
  <2>1. /\ pc[s] \notin {"none", "open", "closed"}
        /\ UNCHANGED <<mode, mem, prev, main, dir>> /\ dirs' \subseteq dirs \cup {dir}
    BY <1>4 DEF Recover, Prepare, SyncTmp, SyncDir, Goto, disk
  <2>2. PICK x : pc' = [pc EXCEPT ![s] = x] /\ x \notin {"none", "open", "closed"}
    BY ZenonT(30), <1>4 DEF Recover, Prepare, SyncTmp, SyncDir, Goto, SetPc
  <2>3. Phase(s)' = Phase(s)
    BY <1>1, <2>1, <2>2, PerHandle DEF Phase
  <2>4. \A d \in dirs' : \E e \in dirs : Recovered(d, main') = Recovered(e, main)
    BY <1>1, <2>1 DEF DiskInv, DirInv
  <2> QED
    BY ZenonT(30), <1>1, <1>2, <2>1, <2>2, <2>3, <2>4, InnerStep
<1>5. CASE Apply(s) \/ BeginWrite(s) \/ EndWrite(s) \/ SetLen(s) \/ Sync(s) \/ Unlink(s)
  <2>1. /\ pc[s] \in InApply
        /\ UNCHANGED <<mode, mem, prev>>
        /\ \E x : pc' = [pc EXCEPT ![s] = x] /\ x \notin {"none", "open", "closed"}
        /\ Recovered(dir', main') = Recovered(dir, main)
        /\ \A d \in dirs' : \E e \in dirs : Recovered(d, main') = Recovered(e, main)
    BY Zenon, <1>1, <1>5, ApplyAnswers
  <2>2. PICK x : pc' = [pc EXCEPT ![s] = x] /\ x \notin {"none", "open", "closed"}
    BY Zenon, <2>1
  <2>3. Phase(s)' = Phase(s)
    BY <1>1, <2>1, <2>2, PerHandle DEF Phase, InApply
  <2> QED
    BY Zenon, <1>1, <1>2, <2>1, <2>2, <2>3, InnerStep
<1> QED
  BY <1>3, <1>4, <1>5

\* Every step of the store is simulated.
LEMMA NextStep ==
  ASSUME Ordered, ~DirSyncFails, RInv, IInv', [Next]_vars
  PROVE  Simulated
<1>1. ASSUME NEW s \in Store, NEW v \in Value, Mutate(s, v) PROVE Simulated
  BY <1>1, MutateStep
<1>2. ASSUME NEW s \in Store, Close(s) PROVE Simulated
  BY <1>2, CloseStep
<1>3. ASSUME NEW s \in Store, FailOpen(s) \/ Drop(s) \/ Crash(s) PROVE Simulated
  BY <1>3, LeaveStep DEF FailOpen, Drop, Crash
<1>4. ASSUME NEW s \in Store, FailCommit(s) \/ FailUnlink(s) PROVE Simulated
  <2>1. ReturnErr(s) /\ (mode[s] = "commit" \/ (mode[s] = "checkpoint" /\ pc[s] = "unlink"))
    BY <1>4 DEF FailCommit, FailUnlink
  <2> QED
    BY Zenon, <2>1, ReturnErrStep
<1>5. ASSUME NEW s \in Store, Unbackup(s) \/ FailCheckpoint(s) PROVE Simulated
  BY <1>5, ReturnOkStep
<1>6. ASSUME NEW s \in Store, ReadSnapshot(s) PROVE Simulated
  BY <1>6, ReadSnapshotStep
<1>7. ASSUME NEW s \in Store, Rename(s) PROVE Simulated
  BY <1>7, RenameStep DEF IInv
<1>8. ASSUME NEW s \in Store,
             \/ Open(s) \/ Recover(s) \/ Prepare(s) \/ SyncTmp(s) \/ SyncDir(s)
             \/ Apply(s) \/ BeginWrite(s) \/ EndWrite(s) \/ SetLen(s) \/ Sync(s) \/ Unlink(s)
      PROVE  Simulated
  BY <1>8, InnerSteps
<1>9. CASE PowerLoss
  BY <1>9, PowerLossStep
<1>10. CASE UNCHANGED vars
  <2>1. UNCHANGED Atomic!vars
    BY <1>10 DEF vars, disk, Atomic!vars, Stored, Fallback, Phase
  <2>2. Blank' /\ TwoAnswers'
    BY <1>10 DEF vars, disk, RInv, Blank, TwoAnswers, Phase, Target, Stored
  <2> QED
    BY <2>1, <2>2 DEF Simulated
<1> QED
  BY <1>1, <1>2, <1>3, <1>4, <1>5, <1>6, <1>7, <1>8, <1>9, <1>10 DEF Next

\* A store that nobody has opened is an atomic store that nobody has opened.
LEMMA InitStep == Init => Blank /\ TwoAnswers /\ Atomic!Init
<1> SUFFICES ASSUME Init PROVE Blank /\ TwoAnswers /\ Atomic!Init
  OBVIOUS
<1>1. dirs = {dir} /\ mem = [s \in Store |-> Empty] /\ prev = [s \in Store |-> Empty]
  BY DEF Init
<1>2. Fallback = Stored /\ TwoAnswers
  BY <1>1, OneAnswer
<1>3. [s \in Store |-> Phase(s)] = [s \in Store |-> "none"]
  BY DEF Init, Phase
<1>4. Stored \in Value \cup {Empty}
  <2>1. TypeOK
    BY TypeInit DEF TypeInv
  <2> QED
    BY <2>1 DEF Init, Stored, TypeOK, Snapshot
<1> QED
  BY <1>1, <1>2, <1>3, <1>4 DEF Blank, Atomic!Init

\* The durable store implements the atomic one: pages, write-ahead log,
\* checkpoint, recovery, failures of single steps, crashes and power losses
\* together are one snapshot that a mutation replaces in a single step, which
\* only a power loss before its acknowledgement takes back.
THEOREM StoreImplementsAtomic == Ordered /\ ~DirSyncFails => (Spec => ImplementsAtomicStore)
<1> SUFFICES ASSUME Ordered, ~DirSyncFails PROVE Spec => ImplementsAtomicStore
  OBVIOUS
<1>1. Init => RInv /\ Atomic!Init
  BY TypeInit, DiskInit, HistoryInit, InitStep DEF RInv, IInv
<1>2. RInv /\ [Next]_vars => RInv' /\ [Atomic!Next]_(Atomic!vars)
  <2> SUFFICES ASSUME RInv, [Next]_vars PROVE RInv' /\ [Atomic!Next]_(Atomic!vars)
    OBVIOUS
  <2>1. IInv'
    BY TypeNext, DiskNext, HistoryNext DEF RInv, IInv
  <2>2. Simulated
    BY <2>1, NextStep
  <2> QED
    BY <2>1, <2>2 DEF RInv, Simulated
<1> QED
  BY <1>1, <1>2, PTL DEF Spec, ImplementsAtomicStore, Atomic!Spec

=============================================================================
