-------------------------- MODULE FileTransaction --------------------------
(***************************************************************************)
(* The three writers that stage a file beside its destination and rename   *)
(* it into place, each used by two processes or threads on one path:       *)
(*   "runtime"  transactional_replace of the interpreter, under            *)
(*              File.write, File.append and File.copy: one rename;         *)
(*   "lockfile" transactional_write of package.rs and                      *)
(*   "image"    that of freestanding.rs (boot images, C headers): the old  *)
(*              file is renamed to a backup, the new one into its place.   *)
(* A content is a sequence of blocks; Torn is a file that was not synced   *)
(* when the machine stopped.                                               *)
(***************************************************************************)
EXTENDS Integers, Sequences

CONSTANTS Writer,
          Kinds,         \* which of the three an instance explores
          SizeLimit,     \* DISP_MAX_FILE_WRITE_BYTES, in blocks
          MaxOps,        \* bound: operations begun
          MaxFileFaults  \* bound: failed system calls, crashes and power losses

VARIABLES kind,         \* which of the three
          dest,         \* the destination
          job,          \* each writer's operation, and the outcome of its last one
          temp,         \* its staging file
          backup,       \* its backup file
          stale,        \* staging names that stopped operations left in the directory
          file_faults,  \* faults so far
          past,         \* history: what the destination has been
          ops           \* operations begun

file_vars == <<kind, dest, job, temp, backup, stale, file_faults, past, ops>>

\* A limit of zero allows no file; a writer's block is not a word for a file's state.
ASSUME FileAssumption == SizeLimit \in Nat \ {0} /\ Writer \cap {"absent", "torn"} = {}

Absent == <<"absent">>
Torn == <<"torn">>
Old == <<"old">>
Block(w) == <<w>>
NoJob == [op |-> "none", pc |-> "idle", base |-> Absent, installed |-> FALSE, result |-> "none"]

Contents == {Absent, Torn, <<>>} \union UNION {[1..n -> {"old"} \union Writer] : n \in 1..SizeLimit}
Operation == {"none", "write", "append", "copy"}
Place == {"idle", "create", "fill", "sync", "rename", "exchange", "setaside", "install",
          "unbackup", "discard"}

FileTypeOK ==
  /\ kind \in Kinds /\ dest \in Contents
  /\ job \in [Writer -> [op : Operation, pc : Place, base : Contents, installed : BOOLEAN,
                         result : {"none", "ok", "error"}]]
  /\ temp \in [Writer -> [data : Contents, synced : BOOLEAN]]
  /\ backup \in [Writer -> Contents]
  /\ stale \in [Writer -> 0..MaxFileFaults]
  /\ file_faults \in 0..MaxFileFaults /\ past \subseteq Contents /\ ops \in 0..MaxOps

NoTemp == [data |-> Absent, synced |-> FALSE]

FileInit ==
  /\ kind \in Kinds
  /\ dest \in {Absent, Old}
  /\ job = [w \in Writer |-> NoJob]
  /\ temp = [w \in Writer |-> NoTemp] /\ backup = [w \in Writer |-> Absent]
  /\ stale = [w \in Writer |-> 0]
  /\ file_faults = 0 /\ past = {dest} /\ ops = 0

-----------------------------------------------------------------------------

At(w, place) == job[w].pc = place
Go(w, place) == job' = [job EXCEPT ![w].pc = place]
Ends(w, outcome) == job' = [job EXCEPT ![w] = [@ EXCEPT !.pc = "idle", !.result = outcome]]
FileFault == file_faults < MaxFileFaults /\ file_faults' = file_faults + 1
Sets(content) == dest' = content /\ past' = past \union {content}
SameFiles == UNCHANGED <<dest, backup, past>>

\* The names one operation tries: the interpreter and the image writer try 128, the
\* lockfile has the one that holds its process identifier.
Names == IF kind = "lockfile" THEN 1 ELSE 128

(* The size of the data is tested first; a lockfile or an image is always written whole.    *)
Begin(w, op) ==
  /\ At(w, "idle") /\ ops < MaxOps /\ ops' = ops + 1
  /\ kind # "runtime" => op = "write"
  /\ job' = [job EXCEPT ![w] = [NoJob EXCEPT !.op = op, !.pc = "create"]]
  /\ UNCHANGED <<kind, dest, temp, backup, stale, file_faults, past>>

(* create_new: a name that a stopped process left behind is passed over.                    *)
CreateTemp(w) ==
  /\ At(w, "create")
  /\ \/ /\ stale[w] < Names
        /\ temp' = [temp EXCEPT ![w] = [data |-> <<>>, synced |-> FALSE]]
        /\ Go(w, "fill") /\ UNCHANGED file_faults
     \/ stale[w] >= Names /\ Ends(w, "error") /\ UNCHANGED <<temp, file_faults>>
     \/ FileFault /\ Ends(w, "error") /\ UNCHANGED temp
  /\ SameFiles /\ UNCHANGED <<kind, stale, ops>>

(* What the closure of transactional_file_write or of transactional_file_copy puts in the   *)
(* staging file.  An append reads the destination through one open handle, which keeps the  *)
(* content it had when it was opened.                                                       *)
Base(w) ==
  CASE job[w].op = "append" /\ dest # Absent -> dest
    [] job[w].op = "copy"                    -> Old
    [] OTHER                                 -> <<>>
Fragment(w) == IF job[w].op = "copy" THEN <<>> ELSE Block(w)

Staged(w) == Base(w) \o Fragment(w)

Fill(w) ==
  /\ At(w, "fill")
  /\ \/ /\ Len(Staged(w)) <= SizeLimit
        /\ temp' = [temp EXCEPT ![w].data = Staged(w)]
        /\ job' = [job EXCEPT ![w] = [@ EXCEPT !.pc = "sync", !.base = dest]]
        /\ UNCHANGED file_faults
     \/ Len(Staged(w)) > SizeLimit /\ Go(w, "discard") /\ UNCHANGED <<temp, file_faults>>
     \/ FileFault /\ Go(w, "discard") /\ UNCHANGED temp
  /\ SameFiles /\ UNCHANGED <<kind, stale, ops>>

\* A fault: the staging file is renamed before it is synced.
SyncTempLate(w) ==
  /\ At(w, "sync")
  /\ Go(w, IF kind = "runtime" THEN "rename" ELSE "exchange")
  /\ SameFiles /\ UNCHANGED <<kind, temp, stale, file_faults, ops>>

(* flush, sync_all and set_permissions.                                                     *)
SyncTemp(w) ==
  /\ At(w, "sync")
  /\ \/ /\ temp' = [temp EXCEPT ![w].synced = TRUE]
        /\ Go(w, IF kind = "runtime" THEN "rename" ELSE "exchange") /\ UNCHANGED file_faults
     \/ FileFault /\ Go(w, "discard") /\ UNCHANGED temp
  /\ SameFiles /\ UNCHANGED <<kind, stale, ops>>

\* The bytes that survive when a file is renamed into place and the power goes.
Surviving(t) == IF t.synced THEN t.data ELSE Torn

\* A fault: an error after the rename is reported like one before it.
ReplaceThenFail(w) ==
  /\ At(w, "rename")
  /\ Sets(Surviving(temp[w]))
  /\ temp' = [temp EXCEPT ![w] = NoTemp]
  /\ \/ /\ job' = [job EXCEPT ![w] = [@ EXCEPT !.pc = "idle", !.installed = TRUE, !.result = "ok"]]
        /\ UNCHANGED file_faults
     \/ FileFault /\ job' = [job EXCEPT ![w] = [@ EXCEPT !.pc = "discard", !.installed = TRUE]]
  /\ UNCHANGED <<kind, backup, stale, ops>>

(* The commit of the interpreter: one rename.                                               *)
Replace(w) ==
  /\ At(w, "rename")
  /\ \/ /\ Sets(Surviving(temp[w]))
        /\ temp' = [temp EXCEPT ![w] = NoTemp]
        /\ job' = [job EXCEPT ![w] = [@ EXCEPT !.pc = "idle", !.installed = TRUE, !.result = "ok"]]
        /\ UNCHANGED file_faults
     \/ FileFault /\ Go(w, "discard") /\ UNCHANGED <<dest, past, temp>>
  /\ UNCHANGED <<kind, backup, stale, ops>>

(* replace_file and the middle of the lockfile's writer: path.exists() ...                  *)
Exchange(w) ==
  /\ At(w, "exchange")
  /\ Go(w, IF dest = Absent THEN "install" ELSE "setaside")
  /\ SameFiles /\ UNCHANGED <<kind, temp, stale, file_faults, ops>>

(* ... rename(path, backup) ...                                                             *)
SetAside(w) ==
  /\ At(w, "setaside")
  /\ \/ /\ dest # Absent
        /\ backup' = [backup EXCEPT ![w] = dest] /\ Sets(Absent)
        /\ Go(w, "install") /\ UNCHANGED file_faults
     \/ dest = Absent /\ Go(w, "discard") /\ UNCHANGED <<dest, backup, past, file_faults>>
     \/ FileFault /\ Go(w, "discard") /\ UNCHANGED <<dest, backup, past>>
  /\ UNCHANGED <<kind, temp, stale, ops>>

(* ... rename(temporary, path), undone by rename(backup, path) when it fails ...            *)
Install(w) ==
  /\ At(w, "install")
  /\ \/ /\ Sets(Surviving(temp[w]))
        /\ temp' = [temp EXCEPT ![w] = NoTemp]
        /\ job' = [job EXCEPT ![w] = [@ EXCEPT !.pc = "unbackup", !.installed = TRUE]]
        /\ UNCHANGED <<backup, file_faults>>
     \/ /\ FileFault /\ Go(w, "discard")
        /\ IF backup[w] # Absent
           THEN \/ Sets(backup[w]) /\ backup' = [backup EXCEPT ![w] = Absent]
                \/ file_faults + 1 < MaxFileFaults /\ UNCHANGED <<dest, past, backup>>
           ELSE UNCHANGED <<dest, past, backup>>
        /\ UNCHANGED temp
  /\ UNCHANGED <<kind, stale, ops>>

(* ... and the removal of the backup, whose failure is the result of the call.              *)
RemoveBackup(w) ==
  /\ At(w, "unbackup")
  /\ \/ backup' = [backup EXCEPT ![w] = Absent] /\ Ends(w, "ok") /\ UNCHANGED file_faults
     \/ backup[w] # Absent /\ FileFault /\ Ends(w, "error") /\ UNCHANGED backup
  /\ UNCHANGED <<kind, dest, temp, stale, past, ops>>

(* remove_file(temporary) on every error path; its own result is ignored.                   *)
Discard(w) ==
  /\ At(w, "discard")
  /\ \/ temp' = [temp EXCEPT ![w] = NoTemp] /\ UNCHANGED <<file_faults, stale>>
     \/ FileFault /\ stale' = [stale EXCEPT ![w] = @ + 1] /\ temp' = [temp EXCEPT ![w] = NoTemp]
  /\ Ends(w, "error")
  /\ SameFiles /\ UNCHANGED <<kind, ops>>

(* The process stops; what it staged stays in the directory under its name.                 *)
Stop(w) ==
  /\ ~At(w, "idle") /\ FileFault
  /\ stale' = [stale EXCEPT ![w] = IF temp[w] = NoTemp THEN @ ELSE @ + 1]
  /\ temp' = [temp EXCEPT ![w] = NoTemp]
  /\ job' = [job EXCEPT ![w] = NoJob]
  /\ SameFiles /\ UNCHANGED <<kind, ops>>

StepOf(w) ==
  \/ CreateTemp(w) \/ Fill(w) \/ SyncTemp(w) \/ Replace(w) \/ Exchange(w) \/ SetAside(w)
  \/ Install(w) \/ RemoveBackup(w) \/ Discard(w)

FileNext ==
  \E w \in Writer : StepOf(w) \/ Stop(w) \/ \E op \in Operation \ {"none"} : Begin(w, op)

FileSpec == FileInit /\ [][FileNext]_file_vars

-----------------------------------------------------------------------------

(* "A same-directory transaction ... only then atomically replaces the destination"         *)
(* (docs/language/RESOURCE_LIMITS.md): whoever opens the destination finds a content that   *)
(* one operation produced in whole, within the size limit, also after a power loss and      *)
(* whatever the other writer does; and the interpreter's writer never takes it away.        *)
WholeContents ==
  /\ dest # Torn /\ Len(dest) <= SizeLimit
  /\ kind = "runtime" /\ Absent \notin past => dest # Absent

(* "Every preparation or commit failure removes the staging file and leaves the prior       *)
(* destination bytes unchanged": an operation of the interpreter that fails has not         *)
(* touched the destination, at whichever of its calls it failed.  The exchanging writers    *)
(* report an error after the new file is in place only for a backup they could not remove.  *)
ErrorChangesNothing ==
  \A w \in Writer : At(w, "idle") /\ job[w].result = "error" /\ job[w].installed
                       => kind # "runtime" /\ backup[w] # Absent

(* No staging file outlives the operation that made it, unless its removal failed.          *)
StagingRemoved == \A w \in Writer : At(w, "idle") => temp[w] = NoTemp

(* A writer that stops between the two renames of an exchange leaves no destination, but    *)
(* the content it replaced is then in a backup: some whole content can always be found.     *)
ContentKept ==
  past # {Absent} => dest # Absent \/ \E w \in Writer : backup[w] # Absent

(* Both halves of what a reader of the destination is promised, and of what a failed        *)
(* operation leaves behind.                                                                 *)
ContentsWhole == WholeContents /\ ContentKept
FailureClean == ErrorChangesNothing /\ StagingRemoved

=============================================================================
