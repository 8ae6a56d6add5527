----------------------------- MODULE DataStore -----------------------------
(***************************************************************************)
(* The durable DISP Data store: the process lock, the write-ahead log, the *)
(* checkpoint into the page file, recovery on open, and the interpreter's  *)
(* in-memory image that is rolled back when a commit reports an error      *)
(* (compiler/src/data_store.rs; mutate_native_data, native_open and close  *)
(* in compiler/src/interpreter.rs).                                        *)
(*                                                                         *)
(* A snapshot is the sequence of its payload pages.  A file is a function  *)
(* from page numbers to pages, NoPage past its end.  Page 0 is the header: *)
(* its generation is 0 for the formats before version 5, and its checksums *)
(* fix the payload (they are taken to be collision free).  A page that its *)
(* checksum rejects, torn or zero-filled, is BadPage.                      *)
(*                                                                         *)
(* The disk has two views.  The operating system's view (main, dir) is     *)
(* what a process reads, and survives the death of a process.  A power     *)
(* loss keeps of the file the pages of the last sync, mixed with any of    *)
(* the later writes, and of the directory one of the states in dirs: the   *)
(* states it went through since it was last synced.                        *)
(***************************************************************************)
EXTENDS Naturals, Sequences

CONSTANTS
  Store,        \* store handles, each opened by a program run of its own
  Cell,         \* contents of one payload page
  MaxData,      \* payload pages of the largest snapshot
  MaxGen,       \* the last generation number (u64::MAX in the code)
  DirSyncFails, \* may the directory sync, whose result is ignored, fail?
  Ordered,      \* is a directory change durable before any later file write?
  NoStore, NoPage, BadPage, NoWal, NoValue, Empty

Value    == UNION {[1..n -> Cell] : n \in 1..MaxData}
Snapshot == Value \cup {Empty}
PageIds  == 0..MaxData
Header   == [gen : 0..MaxGen, value : Value]
Body     == [cell : Cell, last : BOOLEAN]
Page     == Header \cup Body \cup {NoPage, BadPage}
Image    == [PageIds -> Page]
Wal      == [gen : 1..MaxGen, count : 2..(MaxData + 1), recs : Image, synced : BOOLEAN]
Dir      == [file : BOOLEAN, wal : Wal \cup {NoWal}, backup : Value \cup {NoValue}]

ASSUME ConstantsAssumption ==
  /\ NoStore \notin Store
  /\ MaxData \in Nat \ {0} /\ MaxGen \in Nat
  /\ DirSyncFails \in BOOLEAN /\ Ordered \in BOOLEAN
  /\ NoPage # BadPage
  /\ {NoPage, BadPage} \cap (Header \cup Body) = {}
  /\ NoWal \notin Wal
  /\ NoValue \notin Snapshot /\ Empty \notin Value

VARIABLES
  lock,    \* the handle that holds the operating-system lock of the store
  pc,      \* what each handle is about to do
  mode,    \* "idle", or inside "load", "commit" or, past the commit point, "checkpoint"
  mem,     \* NativeDataStore: the snapshot each handle has in memory
  prev,    \* `previous`, the clone mutate_native_data restores on an error
  log,     \* wal_bytes: the log being written or applied
  next,    \* the next page of the log to be written
  tmp,     \* the temporary log file: "none", "written" or "synced"
  main,    \* the page file, as the operating system shows it
  dmain,   \* the page file, as last synced
  dir,     \* the directory: page file, log and backup
  dirs,    \* directory states a power loss may leave
  acked,   \* history: the last snapshot loaded or committed with Ok
  doubt,   \* history: snapshots whose commit was cut short or reported failed
           \*          after the commit point
  ret      \* history: what the last commit of each handle returned

disk == <<main, dmain, dir, dirs>>
vars == <<lock, pc, mode, mem, prev, log, next, tmp, disk, acked, doubt, ret>>

NoImage == [i \in PageIds |-> NoPage]

-----------------------------------------------------------------------------
(* Page images, the log and what decoding accepts *)

\* a page of the payload chain; the last one has no successor
DataPage(v, i) == IF i \in DOMAIN v THEN [cell |-> v[i], last |-> i = Len(v)] ELSE NoPage

\* encode_pages
Encode(v, g) == [i \in PageIds |-> IF i = 0 THEN [gen |-> g, value |-> v] ELSE DataPage(v, i)]

\* decode: the header, the length and every page agree
Decodes(img) ==
  /\ img[0] \in Header
  /\ \A i \in PageIds \ {0} : img[i] = DataPage(img[0].value, i)

Generation(img) == IF img[0] \in Header THEN img[0].gen ELSE 0

\* wal_records: the pages of the new image that differ from the old one
WalRecords(old, new) == [i \in PageIds |-> IF new[i] # old[i] THEN new[i] ELSE NoPage]

EncodeWal(old, v, g) ==
  [gen |-> g, count |-> Len(v) + 1, recs |-> WalRecords(old, Encode(v, g)), synced |-> FALSE]

\* the committed image apply_wal builds before it touches the file
Committed(wal, img) ==
  [i \in PageIds |->
     IF i >= wal.count THEN NoPage
     ELSE IF wal.recs[i] # NoPage THEN wal.recs[i]
     ELSE IF img[i] = NoPage THEN BadPage ELSE img[i]]

\* the checks of apply_wal
WalApplies(wal, img) ==
  /\ wal.recs[0] # NoPage
  /\ Generation(Committed(wal, img)) = wal.gen
  /\ Decodes(Committed(wal, img))

\* what opening the store reads when no step of it fails
Opens(d, img) == IF d.wal # NoWal THEN WalApplies(d.wal, img)
                 ELSE d.file => Decodes(img)

Recovered(d, img) ==
  IF d.wal # NoWal THEN Committed(d.wal, img)[0].value
  ELSE IF d.file THEN img[0].value
  ELSE IF d.backup # NoValue THEN d.backup ELSE Empty

-----------------------------------------------------------------------------
(* A store starts as nothing, as a file of an earlier format, or as the    *)
(* backup that earlier versions left when interrupted.                     *)

Init ==
  /\ lock = NoStore
  /\ pc   = [s \in Store |-> "none"]
  /\ mode = [s \in Store |-> "idle"]
  /\ mem  = [s \in Store |-> Empty]
  /\ prev = [s \in Store |-> Empty]
  /\ log  = [s \in Store |-> NoWal]
  /\ next = [s \in Store |-> 0]
  /\ tmp  = [s \in Store |-> "none"]
  /\ \/ /\ main = NoImage
        /\ dir \in [file : {FALSE}, wal : {NoWal}, backup : Value \cup {NoValue}]
     \/ /\ main \in {Encode(v, 0) : v \in Value}
        /\ dir = [file |-> TRUE, wal |-> NoWal, backup |-> NoValue]
  /\ dmain   = main
  /\ dirs    = {dir}
  /\ acked   = Recovered(dir, main)
  /\ doubt   = {}
  /\ ret     = [s \in Store |-> "ok"]

SetPc(s, to)  == pc' = [pc EXCEPT ![s] = to]
Goto(s, from, to) == pc[s] = from /\ SetPc(s, to)

\* a directory operation: visible at once, durable at the next directory sync
SetDir(d) == dir' = d /\ dirs' = dirs \cup {d}

history == <<acked, doubt, ret>>

\* Lock::acquire and the start of load; a held lock makes open return an error
Open(s) ==
  /\ lock = NoStore
  /\ lock' = s
  /\ Goto(s, "none", "recover")
  /\ mode' = [mode EXCEPT ![s] = "load"]
  /\ UNCHANGED <<mem, prev, log, next, tmp, disk, history>>

\* mutate_native_data up to the start of commit
Mutate(s, v) ==
  /\ Goto(s, "open", "recover")
  /\ mode' = [mode EXCEPT ![s] = "commit"]
  /\ prev' = [prev EXCEPT ![s] = mem[s]]
  /\ mem'  = [mem EXCEPT ![s] = v]
  /\ UNCHANGED <<lock, log, next, tmp, disk, history>>

\* recover_wal: a log that is present is applied before anything else
Recover(s) ==
  /\ pc[s] = "recover"
  /\ IF dir.wal # NoWal
     THEN SetPc(s, "apply") /\ log' = [log EXCEPT ![s] = dir.wal]
     ELSE SetPc(s, IF mode[s] = "load" THEN "snapshot" ELSE "prepare") /\ UNCHANGED log
  /\ UNCHANGED <<lock, mode, mem, prev, next, tmp, disk, history>>

\* mutant: a page file that is missing is an empty store, the backup is ignored
ReadSnapshotWithoutBackup(s) ==
  /\ Goto(s, "snapshot", "open")
  /\ mode' = [mode EXCEPT ![s] = "idle"]
  /\ log'  = [log EXCEPT ![s] = NoWal]
  /\ next' = [next EXCEPT ![s] = 0]
  /\ dir.file => Decodes(main)
  /\ mem'   = [mem EXCEPT ![s] = IF dir.file THEN main[0].value ELSE Empty]
  /\ acked' = mem'[s]
  /\ doubt' = {}
  /\ UNCHANGED <<lock, prev, tmp, disk, ret>>

\* load after recovery: the page file, else the backup, else an empty store
ReadSnapshot(s) ==
  /\ Goto(s, "snapshot", "open")
  /\ mode' = [mode EXCEPT ![s] = "idle"]
  /\ log'  = [log EXCEPT ![s] = NoWal]
  /\ next' = [next EXCEPT ![s] = 0]
  /\ dir.file => Decodes(main)
  /\ mem'   = [mem EXCEPT ![s] = Recovered(dir, main)]
  /\ acked' = Recovered(dir, main)
  /\ doubt' = {}
  /\ IF ~dir.file /\ dir.backup # NoValue
     THEN /\ SetDir([dir EXCEPT !.file = TRUE, !.backup = NoValue])
          /\ main' = Encode(dir.backup, 0) /\ dmain' = main'
     ELSE UNCHANGED disk
  /\ UNCHANGED <<lock, prev, tmp, ret>>

\* mutant: the generation is not checked for overflow
PrepareUnchecked(s) ==
  /\ Goto(s, "prepare", "synctmp")
  /\ log' = [log EXCEPT ![s] = EncodeWal(main, mem[s], Generation(main) + 1)]
  /\ tmp' = [tmp EXCEPT ![s] = "written"]
  /\ UNCHANGED <<lock, mode, mem, prev, next, disk, history>>

\* commit: the next generation, its pages and its log in a temporary file
Prepare(s) ==
  /\ Goto(s, "prepare", "synctmp")
  /\ Generation(main) < MaxGen
  /\ log' = [log EXCEPT ![s] = EncodeWal(main, mem[s], Generation(main) + 1)]
  /\ tmp' = [tmp EXCEPT ![s] = "written"]
  /\ UNCHANGED <<lock, mode, mem, prev, next, disk, history>>

\* mutant: the temporary log is not synced before the rename
SyncTmpMissing(s) ==
  /\ Goto(s, "synctmp", "rename")
  /\ UNCHANGED <<lock, mode, mem, prev, log, next, tmp, disk, history>>

SyncTmp(s) ==
  /\ Goto(s, "synctmp", "rename")
  /\ tmp' = [tmp EXCEPT ![s] = "synced"]
  /\ UNCHANGED <<lock, mode, mem, prev, log, next, disk, history>>

\* the commit point
Rename(s) ==
  /\ Goto(s, "rename", "syncdir")
  /\ SetDir([dir EXCEPT !.wal = [log[s] EXCEPT !.synced = tmp[s] = "synced"]])
  /\ tmp'  = [tmp EXCEPT ![s] = "none"]
  /\ mode' = [mode EXCEPT ![s] = "checkpoint"]
  /\ UNCHANGED <<lock, mem, prev, log, next, main, dmain, history>>

\* mutant: the directory is not synced after the rename
SyncDirMissing(s) ==
  /\ Goto(s, "syncdir", "apply")
  /\ UNCHANGED <<lock, mode, mem, prev, log, next, tmp, disk, history>>

\* the result of the directory sync is ignored
SyncDir(s) ==
  /\ Goto(s, "syncdir", "apply")
  /\ \/ dirs' = {dir}
     \/ DirSyncFails /\ UNCHANGED dirs
  /\ UNCHANGED <<lock, mode, mem, prev, log, next, tmp, main, dmain, dir, history>>

-----------------------------------------------------------------------------
(* apply_wal, from recovery and from commit *)

Apply(s) ==
  /\ Goto(s, "apply", "write")
  /\ WalApplies(log[s], main)
  /\ SetDir([dir EXCEPT !.file = TRUE])
  /\ next' = [next EXCEPT ![s] = 0]
  /\ UNCHANGED <<lock, mode, mem, prev, log, tmp, main, dmain, history>>

\* the pages the log of s has still to write
Left(s) == {i \in PageIds : i >= next[s] /\ log[s].recs[i] # NoPage}
IsNext(s, i) == i \in Left(s) /\ \A j \in Left(s) : i <= j

\* a page write in progress leaves a page that its checksum rejects
BeginWrite(s) ==
  /\ Goto(s, "write", "writing")
  /\ \E i \in PageIds :
       /\ IsNext(s, i)
       /\ next' = [next EXCEPT ![s] = i]
       /\ main' = [main EXCEPT ![i] = BadPage]
  /\ dirs' = IF Ordered THEN {dir} ELSE dirs
  /\ UNCHANGED <<lock, mode, mem, prev, log, tmp, dmain, dir, history>>

EndWrite(s) ==
  /\ Goto(s, "writing", "write")
  /\ main' = [main EXCEPT ![next[s]] = log[s].recs[next[s]]]
  /\ next' = [next EXCEPT ![s] = @ + 1]
  /\ UNCHANGED <<lock, mode, mem, prev, log, tmp, dmain, dir, dirs, history>>

SetLen(s) ==
  /\ Goto(s, "write", "sync")
  /\ Left(s) = {}
  /\ main' = [i \in PageIds |-> IF i >= log[s].count THEN NoPage
                                ELSE IF main[i] = NoPage THEN BadPage ELSE main[i]]
  /\ UNCHANGED <<lock, mode, mem, prev, log, next, tmp, dmain, dir, dirs, history>>

Sync(s) ==
  /\ Goto(s, "sync", "unlink")
  /\ dmain' = main
  /\ UNCHANGED <<lock, mode, mem, prev, log, next, tmp, main, dir, dirs, history>>

\* the log is removed; a checkpoint goes on to the backup
Unlink(s) ==
  /\ pc[s] = "unlink"
  /\ SetPc(s, CASE mode[s] = "load" -> "snapshot"
                [] mode[s] = "commit" -> "prepare"
                [] mode[s] = "checkpoint" -> "unbackup")
  /\ SetDir([dir EXCEPT !.wal = NoWal])
  /\ UNCHANGED <<lock, mode, mem, prev, log, next, tmp, main, dmain, history>>

\* the snapshot of a commit that is past its commit point
Committing(s) == IF mode[s] = "checkpoint" THEN {mem[s]} ELSE {}

\* commit returns: its local variables are gone
Return(s, r) ==
  /\ SetPc(s, "open")
  /\ mode' = [mode EXCEPT ![s] = "idle"]
  /\ prev' = [prev EXCEPT ![s] = Empty]
  /\ log'  = [log EXCEPT ![s] = NoWal]
  /\ next' = [next EXCEPT ![s] = 0]
  /\ tmp'  = [tmp EXCEPT ![s] = "none"]
  /\ ret'  = [ret EXCEPT ![s] = r]
  /\ UNCHANGED <<lock, main, dmain>>

ReturnOk(s) ==
  /\ Return(s, "ok")
  /\ acked' = mem[s]
  /\ doubt' = {}
  /\ UNCHANGED mem

\* mutant: the memory image is kept on an error
ReturnErrKeeping(s) ==
  /\ Return(s, "err")
  /\ doubt' = doubt \cup Committing(s)
  /\ UNCHANGED <<mem, acked, dir, dirs>>

\* on an error mutate_native_data restores the memory image
ReturnErr(s) ==
  /\ Return(s, "err")
  /\ mem'   = [mem EXCEPT ![s] = prev[s]]
  /\ doubt' = doubt \cup Committing(s)
  /\ UNCHANGED <<acked, dir, dirs>>

\* a handle is gone, and its lock with it
Leave(s) ==
  /\ SetPc(s, "none")
  /\ lock' = NoStore
  /\ mode' = [mode EXCEPT ![s] = "idle"]
  /\ mem'  = [mem EXCEPT ![s] = Empty]
  /\ prev' = [prev EXCEPT ![s] = Empty]
  /\ log'  = [log EXCEPT ![s] = NoWal]
  /\ next' = [next EXCEPT ![s] = 0]
  /\ tmp'  = [tmp EXCEPT ![s] = "none"]
  /\ ret'  = [ret EXCEPT ![s] = "ok"]
  /\ doubt' = doubt \cup Committing(s)
  /\ UNCHANGED <<disk, acked>>

\* the last step of commit; removing the backup may fail
Unbackup(s) ==
  /\ pc[s] = "unbackup"
  /\ \/ SetDir([dir EXCEPT !.backup = NoValue])
     \/ dir.backup # NoValue /\ UNCHANGED <<dir, dirs>>
  /\ ReturnOk(s)

\* a step of opening the store fails, or the store is not readable
FailOpen(s) ==
  /\ mode[s] = "load"
  /\ pc[s] \in {"recover", "apply", "write", "writing", "sync", "unlink", "snapshot"}
  /\ Leave(s)

\* a step of commit before the rename fails, or the generation is exhausted
FailCommit(s) ==
  /\ mode[s] = "commit"
  /\ pc[s] \in {"recover", "apply", "write", "writing", "sync", "unlink",
                "prepare", "synctmp", "rename"}
  /\ ReturnErr(s)

\* the checkpoint of a commit fails, which commit does not report
FailCheckpoint(s) ==
  /\ mode[s] = "checkpoint"
  /\ pc[s] \in {"apply", "write", "writing", "sync"}
  /\ ReturnOk(s)
  /\ UNCHANGED <<dir, dirs>>

\* removing the applied log fails, which commit does report
FailUnlink(s) ==
  /\ mode[s] = "checkpoint"
  /\ pc[s] = "unlink"
  /\ ReturnErr(s)

\* close clears the tables and keeps the lock, which goes with the last reference
Close(s) ==
  /\ Goto(s, "open", "closed")
  /\ mem' = [mem EXCEPT ![s] = Empty]
  /\ UNCHANGED <<lock, mode, prev, log, next, tmp, disk, history>>

Drop(s) ==
  /\ pc[s] \in {"open", "closed"}
  /\ Leave(s)

\* the process dies; the operating system releases its lock
Crash(s) ==
  /\ pc[s] \notin {"none", "open", "closed"}
  /\ Leave(s)

\* file contents a power loss may leave when the directory is found in state d
Survivors(d) ==
  IF ~d.file THEN {NoImage}
  ELSE {img \in [PageIds -> {main[i] : i \in PageIds} \cup {dmain[i] : i \in PageIds} \cup {BadPage}] :
          \A i \in PageIds : \/ img[i] \in {main[i], dmain[i]}
                             \/ img[i] = BadPage /\ main[i] # dmain[i]}

\* a log that was renamed before it was synced is found truncated
Settled(d) == IF d.wal # NoWal
              THEN [d EXCEPT !.wal.recs = IF d.wal.synced THEN @ ELSE NoImage]
              ELSE d

PowerLoss ==
  /\ lock' = NoStore
  /\ pc'   = [s \in Store |-> "none"]
  /\ mode' = [s \in Store |-> "idle"]
  /\ mem'  = [s \in Store |-> Empty]
  /\ prev' = [s \in Store |-> Empty]
  /\ log'  = [s \in Store |-> NoWal]
  /\ next' = [s \in Store |-> 0]
  /\ tmp'  = [s \in Store |-> "none"]
  /\ ret'  = [s \in Store |-> "ok"]
  /\ \E d \in dirs : main' \in Survivors(d) /\ dir' = Settled(d)
  /\ dmain' = main'
  /\ dirs'  = {dir'}
  /\ doubt' = doubt \cup UNION {Committing(s) : s \in Store}
  /\ UNCHANGED acked

Next ==
  \/ \E s \in Store :
       \/ Open(s) \/ \E v \in Value : Mutate(s, v)
       \/ Recover(s) \/ ReadSnapshot(s) \/ Prepare(s) \/ SyncTmp(s) \/ Rename(s) \/ SyncDir(s)
       \/ Apply(s) \/ BeginWrite(s) \/ EndWrite(s) \/ SetLen(s) \/ Sync(s) \/ Unlink(s)
       \/ Unbackup(s) \/ FailOpen(s) \/ FailCommit(s) \/ FailCheckpoint(s) \/ FailUnlink(s)
       \/ Close(s) \/ Drop(s) \/ Crash(s)
  \/ PowerLoss

Spec == Init /\ [][Next]_vars

-----------------------------------------------------------------------------
(* Correctness *)

TypeOK ==
  /\ lock \in Store \cup {NoStore}
  /\ pc \in [Store -> {"none", "open", "closed", "recover", "snapshot", "prepare", "synctmp",
                      "rename", "syncdir", "apply", "write", "writing", "sync", "unlink",
                      "unbackup"}]
  /\ mode \in [Store -> {"idle", "load", "commit", "checkpoint"}]
  /\ mem \in [Store -> Snapshot] /\ prev \in [Store -> Snapshot]
  /\ log \in [Store -> Wal \cup {NoWal}]
  /\ next \in [Store -> Nat]
  /\ tmp \in [Store -> {"none", "written", "synced"}]
  /\ main \in Image /\ dmain \in Image
  /\ dir \in Dir /\ dirs \in SUBSET Dir
  /\ acked \in Snapshot /\ doubt \in SUBSET Snapshot
  /\ ret \in [Store -> {"ok", "err"}]

\* Whenever the power fails, whatever part of the unsynced writes reached the
\* disk, the next open succeeds: the log that recover_wal finds applies to the
\* file, and without a log the file decodes.
NeverTorn == \A d \in dirs : \A img \in Survivors(d) : Opens(Settled(d), img)

\* ... and it reads a whole snapshot: the last one acknowledged by commit (or
\* loaded), or one whose commit had passed the rename of the log without being
\* acknowledged.
Durable ==
  \A d \in dirs : \A img \in Survivors(d) :
    Recovered(Settled(d), img) \in {acked} \cup doubt \cup UNION {Committing(s) : s \in Store}

\* While no commit is in doubt, the in-memory store of an idle handle is what
\* reopening the store would read: mutate_native_data rolls back exactly the
\* changes that commit did not make durable.
MemoryMatchesDisk ==
  \A s \in Store : pc[s] = "open" /\ doubt = {} => mem[s] = Recovered(dir, main)

\* Only the holder of the lock is inside load or commit, so two handles never
\* write the files of one store.
OnlyHolderActive == \A s \in Store : pc[s] # "none" => lock = s

\* "Checkpoint failure after this point cannot be reported as an aborted
\* transaction" (comment in commit): a commit that returned an error has left
\* nothing that a reopen would read.
ErrorMeansAborted ==
  \A s \in Store : pc[s] = "open" /\ ret[s] = "err" => mem[s] = Recovered(dir, main)

-----------------------------------------------------------------------------
(* The store implements the atomic one *)

Stored == Recovered(dir, main)

\* what the next open may read instead of Stored after a power loss
Fallback ==
  LET others == {Recovered(d, main) : d \in dirs} \ {Stored}
  IN  IF others = {} THEN Stored ELSE CHOOSE x \in others : TRUE

Phase(s) ==
  IF pc[s] \in {"none", "open", "closed"} THEN pc[s]
  ELSE IF mode[s] = "load" THEN "none"
  ELSE IF mode[s] = "commit" THEN "busy" ELSE "done"

Atomic == INSTANCE AtomicStore WITH
            stored <- Stored,
            undo   <- Fallback,
            phase  <- [s \in Store |-> Phase(s)],
            view   <- mem,
            saved  <- prev

\* Pages, log, checkpoint, recovery, crashes and power losses together behave
\* as one snapshot replaced in a single step.
ImplementsAtomicStore == Atomic!Spec

=============================================================================
