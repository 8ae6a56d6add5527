-------------------------- MODULE DataStoreProofs --------------------------
(***************************************************************************)
(* Proofs about DataStore for every set of handles and every number of     *)
(* pages and generations: types, and the lock.  They rest on which step    *)
(* each operation is at and what its locals then hold (LocalInv).          *)
(***************************************************************************)
EXTENDS DataStore, TLAPS

InApply == {"apply", "write", "writing", "sync", "unlink"}

\* which steps each operation goes through, and what its locals then hold
LocalInv ==
  \A s \in Store :
    /\ mode[s] = "idle" => pc[s] \in {"none", "open", "closed"}
    /\ mode[s] = "load" => pc[s] \in {"recover", "snapshot"} \cup InApply
    /\ mode[s] = "commit" => pc[s] \in {"recover", "prepare", "synctmp", "rename"} \cup InApply
    /\ mode[s] = "checkpoint" => pc[s] \in {"syncdir", "unbackup"} \cup InApply
    /\ mode[s] \in {"commit", "checkpoint"} => mem[s] \in Value
    /\ pc[s] \in {"synctmp", "rename", "syncdir"} \cup InApply => log[s] \in Wal
    /\ pc[s] = "rename" => tmp[s] = "synced"
    /\ pc[s] \in {"snapshot", "prepare", "synctmp", "rename", "unbackup"} => dir.wal = NoWal
    /\ pc[s] = "writing" => next[s] \in PageIds /\ log[s].recs[next[s]] # NoPage

TypeInv == TypeOK /\ OnlyHolderActive /\ LocalInv

-----------------------------------------------------------------------------
(* Types *)

\* A snapshot is a sequence of one to MaxData payload pages (encode_pages_version
\* writes at least one).
LEMMA ValueFacts ==
  ASSUME NEW v \in Value
  PROVE  /\ Len(v) \in 1..MaxData
         /\ DOMAIN v = 1..Len(v)
         /\ \A i \in 1..Len(v) : v[i] \in Cell
<1>1. PICK n \in 1..MaxData : v \in [1..n -> Cell]
  BY DEF Value
<1>2. n \in Nat /\ v \in Seq(Cell) /\ Len(v) = n
  BY <1>1, ConstantsAssumption
<1> QED
  BY <1>1, <1>2

\* What encode_pages returns is a file image.
LEMMA EncodeType ==
  ASSUME NEW v \in Value, NEW g \in 0..MaxGen
  PROVE  Encode(v, g) \in Image
<1>1. [gen |-> g, value |-> v] \in Page
  BY DEF Page, Header
<1>2. \A i \in PageIds : DataPage(v, i) \in Page
  BY ValueFacts DEF DataPage, Page, Body
<1> QED
  BY <1>1, <1>2 DEF Encode, Image

\* What encode_wal returns is a log.
LEMMA EncodeWalType ==
  ASSUME NEW old \in Image, NEW v \in Value, NEW g \in 1..MaxGen
  PROVE  EncodeWal(old, v, g) \in Wal
<1>1. g \in 0..MaxGen
  BY ConstantsAssumption
<1>2. Encode(v, g) \in Image
  BY <1>1, EncodeType
<1>3. NoPage \in Page
  BY DEF Page
<1>4. WalRecords(old, Encode(v, g)) \in Image
  BY <1>2, <1>3 DEF WalRecords, Image
<1>5. Len(v) + 1 \in 2..(MaxData + 1)
  BY ValueFacts, ConstantsAssumption
<1> QED
  BY <1>4, <1>5 DEF EncodeWal, Wal

\* Opening reads a snapshot whenever the checks of load pass.
LEMMA RecoveredType ==
  ASSUME NEW d \in Dir, NEW img \in Image, d.wal = NoWal, d.file => Decodes(img)
  PROVE  Recovered(d, img) \in Snapshot
<1>1. d.backup \in Value \cup {NoValue}
  BY DEF Dir
<1>2. CASE d.file
  BY <1>2 DEF Recovered, Decodes, Header, Snapshot
<1>3. CASE ~d.file
  BY <1>1, <1>3 DEF Recovered, Snapshot
<1> QED
  BY <1>2, <1>3

\* Initially every variable has its type.
LEMMA TypeInit == Init => TypeInv
<1> SUFFICES ASSUME Init PROVE TypeInv
  OBVIOUS
<1>1. NoImage \in Image
  BY DEF NoImage, Image, Page
<1>2. main \in Image
  <2>1. 0 \in 0..MaxGen
    BY ConstantsAssumption
  <2> QED
    BY Zenon, <1>1, <2>1, EncodeType DEF Init
<1>3. dir \in Dir /\ dir.wal = NoWal /\ (dir.file => Decodes(main))
  <2>1. CASE dir \in [file : {FALSE}, wal : {NoWal}, backup : Value \cup {NoValue}]
    <3>1. dir.file = FALSE /\ dir.wal = NoWal
      BY Zenon, <2>1
    <3>2. dir \in Dir
      BY Zenon, <2>1 DEF Dir
    <3> QED
      BY <3>1, <3>2
  <2>2. CASE /\ main \in {Encode(v, 0) : v \in Value}
             /\ dir = [file |-> TRUE, wal |-> NoWal, backup |-> NoValue]
    <3>1. \A v \in Value : Decodes(Encode(v, 0))
      BY ConstantsAssumption DEF Decodes, Encode, Header, PageIds
    <3> QED
      BY <2>2, <3>1 DEF Dir
  <2> QED
    BY Zenon, <2>1, <2>2 DEF Init
<1>5. acked \in Snapshot
  BY <1>2, <1>3, RecoveredType DEF Init
<1>6. TypeOK
  BY <1>2, <1>3, <1>5 DEF Init, TypeOK, Snapshot
<1>7. LocalInv
  BY Zenon DEF Init, LocalInv, InApply
<1>8. OnlyHolderActive
  BY DEF Init, OnlyHolderActive
<1> QED
  BY <1>6, <1>7, <1>8 DEF TypeInv

\* A directory operation leaves a directory.
LEMMA SetDirType ==
  ASSUME NEW d \in Dir
  PROVE  /\ [d EXCEPT !.file = TRUE] \in Dir
         /\ [d EXCEPT !.wal = NoWal] \in Dir
         /\ [d EXCEPT !.backup = NoValue] \in Dir
         /\ [d EXCEPT !.file = TRUE, !.backup = NoValue] \in Dir
         /\ \A w \in Wal : \A b \in BOOLEAN : [d EXCEPT !.wal = [w EXCEPT !.synced = b]] \in Dir
  BY Zenon DEF Dir, Wal

\* A commit that is past its commit point has a snapshot in memory.
LEMMA CommittingType ==
  ASSUME TypeOK, NEW s \in Store
  PROVE  Committing(s) \subseteq Snapshot
  BY DEF TypeOK, Committing

\* The ways out of an operation keep the types.
LEMMA ReturnType ==
  ASSUME TypeOK, NEW s \in Store, ReturnOk(s) \/ ReturnErr(s), dir' \in Dir, dirs' \subseteq Dir
  PROVE  TypeOK'
  BY CommittingType DEF TypeOK, Snapshot, ReturnOk, ReturnErr, Return, SetPc

\* Leaving an operation keeps the types.
LEMMA LeaveType ==
  ASSUME TypeOK, NEW s \in Store, Leave(s)
  PROVE  TypeOK'
  BY CommittingType DEF TypeOK, Snapshot, Leave, SetPc, disk

\* Every step keeps the types, what LocalInv says of the locals, and the lock.
LEMMA TypeNext == TypeInv /\ [Next]_vars => TypeInv'
<1> SUFFICES ASSUME TypeInv, [Next]_vars PROVE TypeInv'
  OBVIOUS
<1>0. TypeOK /\ OnlyHolderActive /\ LocalInv
  BY DEF TypeInv
<1>1. ASSUME NEW s \in Store, NEW v \in Value, Mutate(s, v) PROVE TypeInv'
  <2>1. TypeOK'
    BY <1>0, <1>1 DEF TypeOK, Snapshot, Mutate, Goto, SetPc, disk, history
  <2>2. OnlyHolderActive' /\ LocalInv'
    BY <1>0, <1>1 DEF TypeOK, OnlyHolderActive, LocalInv, InApply, Mutate, Goto, SetPc, disk
  <2> QED
    BY <2>1, <2>2 DEF TypeInv
<1>2. ASSUME NEW s \in Store, Open(s) PROVE TypeInv'
  <2>1. TypeOK'
    BY <1>0, <1>2 DEF TypeOK, Open, Goto, SetPc, disk, history
  <2>2. OnlyHolderActive' /\ LocalInv'
    BY <1>0, <1>2, ConstantsAssumption DEF TypeOK, OnlyHolderActive, LocalInv, InApply, Open, Goto, SetPc, disk
  <2> QED
    BY <2>1, <2>2 DEF TypeInv
<1>3. ASSUME NEW s \in Store, Recover(s) PROVE TypeInv'
  <2>1. TypeOK'
    BY <1>0, <1>3 DEF TypeOK, Dir, Recover, SetPc, disk, history
  <2>2. OnlyHolderActive' /\ LocalInv'
    BY <1>0, <1>3 DEF TypeOK, OnlyHolderActive, LocalInv, InApply, Dir, Recover, SetPc, disk
  <2> QED
    BY <2>1, <2>2 DEF TypeInv
<1>4. ASSUME NEW s \in Store, ReadSnapshot(s) PROVE TypeInv'
  <2>1. TypeOK'
    <3>1. Recovered(dir, main) \in Snapshot
      BY <1>0, <1>4, RecoveredType DEF ReadSnapshot, Goto, LocalInv, TypeOK
    <3>2. main' \in Image /\ dmain' \in Image /\ dir' \in Dir /\ dirs' \subseteq Dir
      <4>1. CASE ~dir.file /\ dir.backup # NoValue
        <5>1. dir.backup \in Value
          BY <1>0, <4>1 DEF TypeOK, Dir
        <5>2. Encode(dir.backup, 0) \in Image
          BY <5>1, EncodeType, ConstantsAssumption
        <5> QED
          BY ZenonT(30), <1>0, <1>4, <4>1, <5>2, SetDirType DEF ReadSnapshot, SetDir, TypeOK
      <4>2. CASE ~(~dir.file /\ dir.backup # NoValue)
        BY <1>0, <1>4, <4>2 DEF ReadSnapshot, TypeOK, disk
      <4> QED
        BY <4>1, <4>2
    <3> QED
      BY <1>0, <1>4, <3>1, <3>2 DEF TypeOK, ReadSnapshot, Goto, SetPc
  <2>2. OnlyHolderActive' /\ LocalInv'
    BY <1>0, <1>4 DEF TypeOK, OnlyHolderActive, LocalInv, InApply, ReadSnapshot, Goto, SetPc, SetDir, disk
  <2> QED
    BY <2>1, <2>2 DEF TypeInv
<1>5. ASSUME NEW s \in Store, Prepare(s) PROVE TypeInv'
  <2>1. Generation(main) + 1 \in 1..MaxGen
    <3>1. Generation(main) \in 0..MaxGen
      BY ConstantsAssumption DEF Generation, Header
    <3> QED
      BY <1>5, <3>1, ConstantsAssumption DEF Prepare
  <2>2. mem[s] \in Value
    BY <1>0, <1>5 DEF Prepare, Goto, LocalInv, InApply, TypeOK
  <2>3. EncodeWal(main, mem[s], Generation(main) + 1) \in Wal
    BY <1>0, <2>1, <2>2, EncodeWalType DEF TypeOK
  <2>4. TypeOK'
    BY <1>0, <1>5, <2>3 DEF TypeOK, Prepare, Goto, SetPc, disk, history
  <2>5. OnlyHolderActive' /\ LocalInv'
    BY <1>0, <1>5, <2>3 DEF TypeOK, OnlyHolderActive, LocalInv, InApply, Prepare, Goto, SetPc, disk
  <2> QED
    BY <2>4, <2>5 DEF TypeInv
<1>6. ASSUME NEW s \in Store, SyncTmp(s) PROVE TypeInv'
  <2>1. TypeOK'
    BY <1>0, <1>6 DEF TypeOK, SyncTmp, Goto, SetPc, disk, history
  <2>2. OnlyHolderActive' /\ LocalInv'
    BY <1>0, <1>6 DEF TypeOK, OnlyHolderActive, LocalInv, InApply, SyncTmp, Goto, SetPc, disk
  <2> QED
    BY <2>1, <2>2 DEF TypeInv
<1>7. ASSUME NEW s \in Store, Rename(s) PROVE TypeInv'
  <2>1. TypeOK'
    <3>1. log[s] \in Wal
      BY <1>0, <1>7 DEF LocalInv, InApply, Rename, Goto
    <3>2. dir' \in Dir /\ dirs' \subseteq Dir
      BY ZenonT(30), <1>0, <1>7, <3>1, SetDirType DEF Rename, SetDir, TypeOK
    <3> QED
      BY <1>0, <1>7, <3>2 DEF TypeOK, Rename, Goto, SetPc, history
  <2>2. OnlyHolderActive' /\ LocalInv'
    BY <1>0, <1>7 DEF TypeOK, OnlyHolderActive, LocalInv, InApply, Rename, Goto, SetPc, SetDir
  <2> QED
    BY <2>1, <2>2 DEF TypeInv
<1>8. ASSUME NEW s \in Store, SyncDir(s) PROVE TypeInv'
  <2>1. TypeOK'
    BY <1>0, <1>8 DEF TypeOK, SyncDir, Goto, SetPc, history
  <2>2. OnlyHolderActive' /\ LocalInv'
    BY <1>0, <1>8 DEF TypeOK, OnlyHolderActive, LocalInv, InApply, SyncDir, Goto, SetPc
  <2> QED
    BY <2>1, <2>2 DEF TypeInv
<1>9. ASSUME NEW s \in Store, Apply(s) PROVE TypeInv'
  <2>1. TypeOK'
    <3>1. dir' \in Dir /\ dirs' \subseteq Dir
      BY Zenon, <1>0, <1>9, SetDirType DEF Apply, SetDir, TypeOK
    <3> QED
      BY <1>0, <1>9, <3>1 DEF TypeOK, Apply, Goto, SetPc, history
  <2>2. OnlyHolderActive' /\ LocalInv'
    BY <1>0, <1>9 DEF TypeOK, OnlyHolderActive, LocalInv, InApply, Apply, Goto, SetPc, SetDir
  <2> QED
    BY <2>1, <2>2 DEF TypeInv
<1>10. ASSUME NEW s \in Store, BeginWrite(s) PROVE TypeInv'
  <2>1. TypeOK'
    <3>1. PICK i \in PageIds : next' = [next EXCEPT ![s] = i] /\ main' = [main EXCEPT ![i] = BadPage]
      BY Zenon, <1>0, <1>10 DEF BeginWrite
    <3>2. main' \in Image
      BY <1>0, <3>1 DEF TypeOK, Image, Page
    <3>3. dirs' \subseteq Dir
      BY <1>0, <1>10 DEF TypeOK, BeginWrite
    <3> QED
      BY <1>0, <1>10, <3>1, <3>2, <3>3 DEF TypeOK, PageIds, BeginWrite, Goto, SetPc, history
  <2>2. OnlyHolderActive' /\ LocalInv'
    BY <1>0, <1>10 DEF TypeOK, OnlyHolderActive, LocalInv, InApply, BeginWrite, IsNext, Left, Goto, SetPc
  <2> QED
    BY <2>1, <2>2 DEF TypeInv
<1>11. ASSUME NEW s \in Store, EndWrite(s) PROVE TypeInv'
  <2>1. TypeOK'
    <3>1. log[s] \in Wal /\ next[s] \in PageIds
      BY <1>0, <1>11 DEF EndWrite, Goto, LocalInv, InApply
    <3>2. main' \in Image
      BY <1>0, <1>11, <3>1 DEF TypeOK, Image, Wal, EndWrite
    <3> QED
      BY <1>0, <1>11, <3>1, <3>2 DEF TypeOK, PageIds, EndWrite, Goto, SetPc, history
  <2>2. OnlyHolderActive' /\ LocalInv'
    BY <1>0, <1>11 DEF TypeOK, OnlyHolderActive, LocalInv, InApply, EndWrite, Goto, SetPc
  <2> QED
    BY <2>1, <2>2 DEF TypeInv
<1>12. ASSUME NEW s \in Store, SetLen(s) PROVE TypeInv'
  <2>1. TypeOK'
    <3>1. main' \in Image
      BY SMTT(30), <1>0, <1>12 DEF TypeOK, Image, Page, SetLen
    <3> QED
      BY <1>0, <1>12, <3>1 DEF TypeOK, SetLen, Goto, SetPc, history
  <2>2. OnlyHolderActive' /\ LocalInv'
    BY <1>0, <1>12 DEF TypeOK, OnlyHolderActive, LocalInv, InApply, SetLen, Goto, SetPc
  <2> QED
    BY <2>1, <2>2 DEF TypeInv
<1>13. ASSUME NEW s \in Store, Sync(s) PROVE TypeInv'
  <2>1. TypeOK'
    BY <1>0, <1>13 DEF TypeOK, Sync, Goto, SetPc, history
  <2>2. OnlyHolderActive' /\ LocalInv'
    BY <1>0, <1>13 DEF TypeOK, OnlyHolderActive, LocalInv, InApply, Sync, Goto, SetPc
  <2> QED
    BY <2>1, <2>2 DEF TypeInv
<1>14. ASSUME NEW s \in Store, Unlink(s) PROVE TypeInv'
  <2>1. TypeOK'
    <3>1. dir' \in Dir /\ dirs' \subseteq Dir
      BY Zenon, <1>0, <1>14, SetDirType DEF Unlink, SetDir, TypeOK
    <3>2. mode[s] \in {"load", "commit", "checkpoint"}
      BY <1>0, <1>14 DEF Unlink, LocalInv, TypeOK
    <3> QED
      BY <1>0, <1>14, <3>1, <3>2 DEF TypeOK, Unlink, SetPc, history
  <2>2. OnlyHolderActive' /\ LocalInv'
    BY <1>0, <1>14 DEF TypeOK, OnlyHolderActive, LocalInv, InApply, Unlink, SetPc, SetDir
  <2> QED
    BY <2>1, <2>2 DEF TypeInv
<1>15. ASSUME NEW s \in Store, Unbackup(s) PROVE TypeInv'
  <2>1. TypeOK'
    <3>1. dir' \in Dir /\ dirs' \subseteq Dir
      BY Zenon, <1>0, <1>15, SetDirType DEF Unbackup, SetDir, TypeOK
    <3> QED
      BY <1>0, <1>15, <3>1, ReturnType DEF Unbackup
  <2>2. OnlyHolderActive' /\ LocalInv'
    BY <1>0, <1>15 DEF TypeOK, OnlyHolderActive, LocalInv, InApply, Unbackup, ReturnOk, Return, SetPc, SetDir
  <2> QED
    BY <2>1, <2>2 DEF TypeInv
<1>16. ASSUME NEW s \in Store, FailOpen(s) PROVE TypeInv'
  <2>1. TypeOK'
    BY <1>0, <1>16, LeaveType DEF FailOpen
  <2>2. OnlyHolderActive' /\ LocalInv'
    BY <1>0, <1>16 DEF TypeOK, OnlyHolderActive, LocalInv, InApply, FailOpen, Leave, SetPc, disk
  <2> QED
    BY <2>1, <2>2 DEF TypeInv
<1>17. ASSUME NEW s \in Store, FailCommit(s) PROVE TypeInv'
  <2>1. TypeOK'
    BY Zenon, <1>0, <1>17, ReturnType DEF FailCommit, ReturnErr, TypeOK
  <2>2. OnlyHolderActive' /\ LocalInv'
    BY <1>0, <1>17 DEF TypeOK, OnlyHolderActive, LocalInv, InApply, FailCommit, ReturnErr, Return, SetPc
  <2> QED
    BY <2>1, <2>2 DEF TypeInv
<1>18. ASSUME NEW s \in Store, FailCheckpoint(s) PROVE TypeInv'
  <2>1. TypeOK'
    BY <1>0, <1>18, ReturnType DEF FailCheckpoint, TypeOK
  <2>2. OnlyHolderActive' /\ LocalInv'
    BY <1>0, <1>18 DEF TypeOK, OnlyHolderActive, LocalInv, InApply, FailCheckpoint, ReturnOk, Return, SetPc
  <2> QED
    BY <2>1, <2>2 DEF TypeInv
<1>19. ASSUME NEW s \in Store, FailUnlink(s) PROVE TypeInv'
  <2>1. TypeOK'
    BY Zenon, <1>0, <1>19, ReturnType DEF FailUnlink, ReturnErr, TypeOK
  <2>2. OnlyHolderActive' /\ LocalInv'
    BY <1>0, <1>19 DEF TypeOK, OnlyHolderActive, LocalInv, InApply, FailUnlink, ReturnErr, Return, SetPc
  <2> QED
    BY <2>1, <2>2 DEF TypeInv
<1>20. ASSUME NEW s \in Store, Close(s) PROVE TypeInv'
  <2>1. TypeOK'
    BY <1>0, <1>20 DEF TypeOK, Snapshot, Close, Goto, SetPc, disk, history
  <2>2. OnlyHolderActive' /\ LocalInv'
    BY <1>0, <1>20 DEF TypeOK, OnlyHolderActive, LocalInv, InApply, Close, Goto, SetPc, disk
  <2> QED
    BY <2>1, <2>2 DEF TypeInv
<1>21. ASSUME NEW s \in Store, Drop(s) PROVE TypeInv'
  <2>1. TypeOK'
    BY <1>0, <1>21, LeaveType DEF Drop
  <2>2. OnlyHolderActive' /\ LocalInv'
    BY <1>0, <1>21 DEF TypeOK, OnlyHolderActive, LocalInv, InApply, Drop, Leave, SetPc, disk
  <2> QED
    BY <2>1, <2>2 DEF TypeInv
<1>22. ASSUME NEW s \in Store, Crash(s) PROVE TypeInv'
  <2>1. TypeOK'
    BY <1>0, <1>22, LeaveType DEF Crash
  <2>2. OnlyHolderActive' /\ LocalInv'
    BY <1>0, <1>22 DEF TypeOK, OnlyHolderActive, LocalInv, InApply, Crash, Leave, SetPc, disk
  <2> QED
    BY <2>1, <2>2 DEF TypeInv
<1>23. ASSUME PowerLoss PROVE TypeInv'
  <2>1. PICK d \in dirs : main' \in Survivors(d) /\ dir' = Settled(d)
    BY <1>23 DEF PowerLoss
  <2>2. NoImage \in Image
    BY DEF NoImage, Image, Page
  <2>3. main' \in Image
    BY <1>0, <2>1, <2>2 DEF TypeOK, Survivors, Image, Page
  <2>4. dir' \in Dir
    BY <1>0, <2>1, <2>2 DEF TypeOK, Settled, Dir, Wal
  <2>5. doubt' \subseteq Snapshot
    BY <1>0, <1>23, CommittingType DEF PowerLoss, TypeOK
  <2>6. TypeOK'
    BY <1>0, <1>23, <2>3, <2>4, <2>5 DEF TypeOK, Snapshot, PowerLoss
  <2>7. OnlyHolderActive' /\ LocalInv'
    BY <1>23 DEF OnlyHolderActive, LocalInv, InApply, PowerLoss
  <2> QED
    BY <2>6, <2>7 DEF TypeInv
<1>24. CASE UNCHANGED vars
  BY <1>0, <1>24 DEF TypeInv, TypeOK, OnlyHolderActive, LocalInv, vars, disk
<1> QED
  BY <1>1, <1>2, <1>3, <1>4, <1>5, <1>6, <1>7, <1>8, <1>9, <1>10, <1>11, <1>12, <1>13, <1>14, <1>15, <1>16, <1>17, <1>18, <1>19, <1>20, <1>21, <1>22, <1>23, <1>24 DEF Next

\* A handle that is not inside an operation is idle.
LEMMA IdleMode ==
  ASSUME TypeInv, NEW s \in Store, pc[s] \in {"none", "open", "closed"}
  PROVE  mode[s] = "idle"
<1>1. mode[s] \in {"idle", "load", "commit", "checkpoint"}
  BY DEF TypeInv, TypeOK
<1>2. /\ mode[s] = "load" => pc[s] \in {"recover", "snapshot"} \cup InApply
      /\ mode[s] = "commit" => pc[s] \in {"recover", "prepare", "synctmp", "rename"} \cup InApply
      /\ mode[s] = "checkpoint" => pc[s] \in {"syncdir", "unbackup"} \cup InApply
  BY Zenon DEF TypeInv, LocalInv
<1> QED
  BY <1>1, <1>2 DEF InApply

\* The variables with one value per handle are functions on the handles.
LEMMA PerHandle ==
  ASSUME TypeInv
  PROVE  /\ DOMAIN pc = Store /\ pc = [s \in Store |-> pc[s]]
         /\ DOMAIN mode = Store /\ mode = [s \in Store |-> mode[s]]
         /\ DOMAIN prev = Store /\ prev = [s \in Store |-> prev[s]]
  BY DEF TypeInv, TypeOK

\* Every variable of the store keeps its type: in particular no generation is
\* used that does not fit its width, and no page outside the file is written.
THEOREM TypeCorrect == Spec => []TypeOK
<1>1. Spec => []TypeInv
  BY TypeInit, TypeNext, PTL DEF Spec
<1>2. TypeInv => TypeOK
  BY DEF TypeInv
<1> QED
  BY <1>1, <1>2, PTL

\* For any number of handles, the one that is inside open, commit or close
\* holds the operating-system lock.
THEOREM LockExclusive == Spec => []OnlyHolderActive
<1>1. Spec => []TypeInv
  BY TypeInit, TypeNext, PTL DEF Spec
<1>2. TypeInv => OnlyHolderActive
  BY DEF TypeInv
<1> QED
  BY <1>1, <1>2, PTL

=============================================================================
