--------------------------- MODULE ServicesProofs ---------------------------
(***************************************************************************)
(* What the runtime does with the world outside the program: the files it  *)
(* writes, and the HTTP requests it makes.                                 *)
(***************************************************************************)
EXTENDS FileTransaction, HttpClient, FiniteSetTheorems, SequenceTheorems, TLAPS

-----------------------------------------------------------------------------
(* FileTransaction                                                          *)

\* What a destination or a backup may hold: Absent, or a whole content.
Files == {c \in Seq({"old", "absent"} \union Writer) : Len(c) <= SizeLimit /\ c # Torn}

JobRecord == [op : Operation, pc : Place, base : Files, installed : BOOLEAN, result : {"none", "ok", "error"}]
TempRecord == [data : Files, synced : BOOLEAN]

\* What a writer's place says about its staging file, its backup and its result.
JobSound(j, t, b) ==
  /\ j.pc \in {"idle", "create", "unbackup"} => t = NoTemp
  /\ j.pc \in {"sync", "rename", "exchange", "setaside", "install"} => t.data # Absent
  /\ j.pc \in {"rename", "exchange", "setaside", "install"} => t.synced
  /\ j.pc \in {"exchange", "setaside", "install", "unbackup"} => kind # "runtime"
  /\ j.installed => j.pc \in {"idle", "unbackup"}
  /\ j.pc = "idle" /\ j.result = "error" /\ j.installed => kind # "runtime" /\ b # Absent

\* A destination that is missing is in the backup of a writer that will not remove it.
Kept == dest = Absent /\ past # {Absent} => \E w \in Writer : backup[w] # Absent /\ job[w].pc # "unbackup"

FileInv ==
  /\ dest \in Files /\ dest \in past
  /\ job \in [Writer -> JobRecord] /\ temp \in [Writer -> TempRecord] /\ backup \in [Writer -> Files]
  /\ \A w \in Writer : JobSound(job[w], temp[w], backup[w])
  /\ Kept

\* The words for a file's state are told apart, and an empty file is a content.
LEMMA FileWords == Absent \in Files /\ Old \in Files /\ <<>> \in Files /\ Old # Absent /\ <<>> # Absent /\ Torn \notin Files
  BY FileAssumption DEF Files, Absent, Old, Torn

\* What a writer stages is a whole content when it is within the limit.
LEMMA StagedWhole ==
  ASSUME NEW w \in Writer, dest \in Files, Len(Staged(w)) <= SizeLimit
  PROVE  Staged(w) \in Files /\ Staged(w) # Absent
<1> DEFINE Words == {"old", "absent"} \union Writer
<1>1. w # "absent" /\ w # "torn"
  BY FileAssumption
<1>2. CASE job[w].op = "copy"
  BY <1>2, FileWords DEF Staged, Base, Fragment, Old, Files
<1>3. CASE job[w].op # "copy"
  <2> DEFINE c == Base(w)
  <2>1. c \in Seq(Words) /\ Staged(w) = c \o <<w>>
    <3>1. dest \in Seq(Words) /\ <<>> \in Seq(Words)
      BY DEF Files
    <3>2. CASE job[w].op = "append" /\ dest # Absent
      BY <1>3, <3>1, <3>2 DEF Staged, Base, Fragment, Block
    <3>3. CASE ~(job[w].op = "append" /\ dest # Absent)
      BY <1>3, <3>1, <3>3 DEF Staged, Base, Fragment, Block
    <3>4. QED BY <3>2, <3>3
  <2> HIDE DEF c
  <2>2. Staged(w) \in Seq(Words) /\ Len(Staged(w)) = Len(c) + 1 /\ Staged(w)[Len(c) + 1] = w
    BY <2>1
  <2>3. Staged(w) # Absent /\ Staged(w) # Torn
    BY <1>1, <2>2 DEF Absent, Torn
  <2>4. QED BY <2>2, <2>3 DEF Files
<1>4. QED BY <1>2, <1>3

\* A step of one writer keeps the invariant if it keeps the writer's own part of it, and
\* leaves the destination where a reader finds it.
LEMMA WriterStep ==
  ASSUME FileInv, NEW w \in Writer, kind' = kind,
         job' \in [Writer -> JobRecord], temp' \in [Writer -> TempRecord], backup' \in [Writer -> Files],
         \A v \in Writer \ {w} : job'[v] = job[v] /\ temp'[v] = temp[v] /\ backup'[v] = backup[v],
         JobSound(job[w], temp[w], backup[w])',
         dest' \in Files, dest' \in past',
         \/ dest' # Absent
         \/ backup'[w] # Absent /\ job'[w].pc # "unbackup"
         \/ dest' = dest /\ past' = past /\ (backup[w] = Absent \/ job[w].pc = "unbackup")
  PROVE  FileInv'
<1>1. ASSUME NEW v \in Writer PROVE JobSound(job[v], temp[v], backup[v])'
  <2>1. CASE v = w
    BY <2>1
  <2>2. CASE v # w
    BY <2>2 DEF FileInv, JobSound
  <2>3. QED BY <2>1, <2>2
<1>2. Kept'
  <2>1. CASE dest' # Absent
    BY <2>1 DEF Kept
  <2>2. CASE backup'[w] # Absent /\ job'[w].pc # "unbackup"
    BY <2>2 DEF Kept
  <2>3. CASE dest' = dest /\ past' = past /\ (backup[w] = Absent \/ job[w].pc = "unbackup")
    <3> SUFFICES ASSUME dest = Absent, past # {Absent}
                 PROVE  \E v \in Writer : backup'[v] # Absent /\ job'[v].pc # "unbackup"
      BY <2>3 DEF Kept
    <3>1. PICK v \in Writer : backup[v] # Absent /\ job[v].pc # "unbackup"
      BY DEF FileInv, Kept
    <3>2. v # w
      BY <2>3, <3>1
    <3>3. QED BY <3>1, <3>2
  <2>4. QED BY <2>1, <2>2, <2>3
<1>3. QED BY <1>1, <1>2 DEF FileInv

\* The invariant holds at the start.
LEMMA FileStarts == FileInit => FileInv
<1> SUFFICES ASSUME FileInit PROVE FileInv
  OBVIOUS
<1>1. dest \in Files /\ past = {dest} /\ NoJob \in JobRecord /\ NoTemp \in TempRecord
  BY FileWords DEF FileInit, NoJob, NoTemp, JobRecord, TempRecord, Operation, Place
<1>2. \A w \in Writer : job[w] = NoJob /\ temp[w] = NoTemp /\ backup[w] = Absent
  BY Zenon DEF FileInit
<1>3. \A w \in Writer : JobSound(job[w], temp[w], backup[w])
  <2>1. NoJob.pc = "idle" /\ NoJob.installed = FALSE
    BY Zenon DEF NoJob
  <2>2. \A b : JobSound(NoJob, NoTemp, b)
    BY <2>1 DEF JobSound
  <2>3. QED BY <1>2, <2>2, Zenon
<1>4. job \in [Writer -> JobRecord] /\ temp \in [Writer -> TempRecord] /\ backup \in [Writer -> Files]
  BY <1>1, FileWords DEF FileInit
<1>5. QED BY <1>1, <1>3, <1>4 DEF FileInv, Kept

\* Every step of every writer keeps the invariant.
LEMMA FileSteps == FileInv /\ [FileNext]_file_vars => FileInv'
<1> SUFFICES ASSUME FileInv, [FileNext]_file_vars PROVE FileInv'
  OBVIOUS
<1> USE FileWords
<1>1. CASE UNCHANGED file_vars
  BY <1>1 DEF FileInv, JobSound, Kept, file_vars
<1>2. ASSUME NEW w \in Writer, StepOf(w) \/ Stop(w) \/ \E op \in Operation \ {"none"} : Begin(w, op) PROVE FileInv'
  <2>1. /\ job[w] \in JobRecord /\ temp[w] \in TempRecord /\ backup[w] \in Files /\ dest \in Files /\ dest \in past
        /\ JobSound(job[w], temp[w], backup[w])
        /\ NoJob \in JobRecord /\ NoTemp \in TempRecord
    BY DEF FileInv, NoJob, NoTemp, JobRecord, TempRecord, Operation, Place
  <2>0. \A p \in Place, c \in Files, r \in {"none", "ok", "error"} :
          /\ [job[w] EXCEPT !.pc = p] \in JobRecord
          /\ [job[w] EXCEPT !.pc = p, !.base = c] \in JobRecord
          /\ [job[w] EXCEPT !.pc = p, !.result = r] \in JobRecord
          /\ [job[w] EXCEPT !.pc = p, !.installed = TRUE] \in JobRecord
          /\ [job[w] EXCEPT !.pc = p, !.installed = TRUE, !.result = r] \in JobRecord
          /\ [temp[w] EXCEPT !.data = c] \in TempRecord
          /\ [temp[w] EXCEPT !.synced = TRUE] \in TempRecord
          /\ [data |-> c, synced |-> FALSE] \in TempRecord
    BY ZenonT(30), <2>1 DEF JobRecord, TempRecord
  <2> DEFINE OthersSame == \A v \in Writer \ {w} : job'[v] = job[v] /\ temp'[v] = temp[v] /\ backup'[v] = backup[v]
             Typed == job' \in [Writer -> JobRecord] /\ temp' \in [Writer -> TempRecord] /\ backup' \in [Writer -> Files]
             Found == \/ dest' # Absent
                      \/ backup'[w] # Absent /\ job'[w].pc # "unbackup"
                      \/ dest' = dest /\ past' = past /\ (backup[w] = Absent \/ job[w].pc = "unbackup")
             Mine == /\ kind' = kind /\ OthersSame /\ Typed
                     /\ JobSound(job[w], temp[w], backup[w])'
                     /\ dest' \in Files /\ dest' \in past' /\ Found
  <2>2. ASSUME Mine PROVE FileInv'
    BY <2>2, WriterStep
  <2>3. CASE CreateTemp(w)
    <3>1. kind' = kind /\ OthersSame /\ Typed
      <4>1. kind' = kind /\ job' \in [Writer -> JobRecord] /\ \A v \in Writer \ {w} : job'[v] = job[v]
        BY Zenon, <2>0, <2>1, <2>3 DEF CreateTemp, FileInv, Place, At, Go, Ends, SameFiles
      <4>2. temp' \in [Writer -> TempRecord] /\ \A v \in Writer \ {w} : temp'[v] = temp[v]
        BY Zenon, <2>0, <2>1, <2>3 DEF CreateTemp, FileInv, Place, At, Go, Ends, SameFiles
      <4>3. backup' \in [Writer -> Files] /\ \A v \in Writer \ {w} : backup'[v] = backup[v]
        BY Zenon, <2>0, <2>1, <2>3 DEF CreateTemp, FileInv, Place, At, Go, Ends, SameFiles
      <4>4. QED BY <4>1, <4>2, <4>3
    <3>2. dest' \in Files /\ dest' \in past' /\ Found
      <4>1. UNCHANGED <<dest, past, backup>>
        BY <2>3 DEF CreateTemp, SameFiles
      <4>2. backup[w] = Absent \/ job'[w].pc # "unbackup"
        BY ZenonT(30), <2>1, <2>3 DEF CreateTemp, FileInv, JobRecord, Go, Ends
      <4>3. QED BY <2>1, <4>1, <4>2
    <3>3. JobSound(job[w], temp[w], backup[w])'
      <4>1. \/ job'[w] = [job[w] EXCEPT !.pc = "fill"]
            \/ job'[w] = [job[w] EXCEPT !.pc = "idle", !.result = "error"] /\ temp'[w] = temp[w]
        BY <2>3 DEF CreateTemp, FileInv, Go, Ends
      <4>2. kind' = kind /\ job[w].pc = "create"
        BY <2>3 DEF CreateTemp, At
      <4>3. QED BY ZenonT(30), <2>1, <4>1, <4>2 DEF JobSound, JobRecord, TempRecord
    <3>4. QED BY <2>2, <3>1, <3>2, <3>3
  <2>4. CASE Fill(w)
    <3>1. kind' = kind /\ OthersSame /\ Typed
      <4>1. kind' = kind /\ job' \in [Writer -> JobRecord] /\ \A v \in Writer \ {w} : job'[v] = job[v]
        BY ZenonT(30), <2>0, <2>1, <2>4, StagedWhole DEF Fill, FileInv, Place, At, Go, Ends, SameFiles
      <4>2. temp' \in [Writer -> TempRecord] /\ \A v \in Writer \ {w} : temp'[v] = temp[v]
        <5>1. CASE Len(Staged(w)) <= SizeLimit /\ temp' = [temp EXCEPT ![w].data = Staged(w)]
          BY <2>1, <5>1, StagedWhole DEF FileInv, TempRecord
        <5>2. CASE temp' = temp
          BY <5>2 DEF FileInv
        <5>3. QED BY <2>4, <5>1, <5>2 DEF Fill
      <4>3. backup' \in [Writer -> Files] /\ \A v \in Writer \ {w} : backup'[v] = backup[v]
        BY Zenon, <2>0, <2>1, <2>4, StagedWhole DEF Fill, FileInv, Place, At, Go, Ends, SameFiles
      <4>4. QED BY <4>1, <4>2, <4>3
    <3>2. dest' \in Files /\ dest' \in past' /\ Found
      <4>1. UNCHANGED <<dest, past, backup>>
        BY <2>4 DEF Fill, SameFiles
      <4>2. backup[w] = Absent \/ job'[w].pc # "unbackup"
        BY ZenonT(30), <2>1, <2>4 DEF Fill, FileInv, JobRecord, Go, Ends
      <4>3. QED BY <2>1, <4>1, <4>2
    <3>3. JobSound(job[w], temp[w], backup[w])'
      <4>1. \/ job'[w] = [job[w] EXCEPT !.pc = "sync", !.base = dest] /\ temp'[w] = [temp[w] EXCEPT !.data = Staged(w)] /\ Len(Staged(w)) <= SizeLimit
            \/ job'[w] = [job[w] EXCEPT !.pc = "discard"] /\ temp'[w] = temp[w]
        BY <2>4 DEF Fill, FileInv, Go, Ends
      <4>2. kind' = kind /\ job[w].pc = "fill"
        BY <2>4 DEF Fill, At
      <4>3. QED BY ZenonT(30), <2>1, <4>1, <4>2, StagedWhole DEF JobSound, JobRecord, TempRecord
    <3>4. QED BY <2>2, <3>1, <3>2, <3>3
  <2>5. CASE SyncTemp(w)
    <3>1. kind' = kind /\ OthersSame /\ Typed
      <4>1. kind' = kind /\ job' \in [Writer -> JobRecord] /\ \A v \in Writer \ {w} : job'[v] = job[v]
        BY ZenonT(30), <2>0, <2>1, <2>5 DEF SyncTemp, FileInv, Place, At, Go, Ends, SameFiles
      <4>2. temp' \in [Writer -> TempRecord] /\ \A v \in Writer \ {w} : temp'[v] = temp[v]
        <5>1. CASE temp' = [temp EXCEPT ![w].synced = TRUE]
          BY Zenon, <2>1, <5>1 DEF FileInv, TempRecord
        <5>2. CASE temp' = temp
          BY <5>2 DEF FileInv
        <5>3. QED BY <2>5, <5>1, <5>2, Zenon DEF SyncTemp
      <4>3. backup' \in [Writer -> Files] /\ \A v \in Writer \ {w} : backup'[v] = backup[v]
        BY Zenon, <2>0, <2>1, <2>5 DEF SyncTemp, FileInv, Place, At, Go, Ends, SameFiles
      <4>4. QED BY <4>1, <4>2, <4>3
    <3>2. dest' \in Files /\ dest' \in past' /\ Found
      BY <2>1, <2>5 DEF SyncTemp, FileInv, JobSound, JobRecord, TempRecord, At, Go, Ends, SameFiles, Sets
    <3>3. JobSound(job[w], temp[w], backup[w])'
      <4>1. \/ job'[w] = [job[w] EXCEPT !.pc = IF kind = "runtime" THEN "rename" ELSE "exchange"] /\ temp'[w] = [temp[w] EXCEPT !.synced = TRUE]
            \/ job'[w] = [job[w] EXCEPT !.pc = "discard"] /\ temp'[w] = temp[w]
        <5> DEFINE place == IF kind = "runtime" THEN "rename" ELSE "exchange"
        <5>1. CASE temp' = [temp EXCEPT ![w].synced = TRUE] /\ Go(w, place)
          <6> HIDE DEF place
          <6>1. temp'[w] = [temp[w] EXCEPT !.synced = TRUE] /\ job'[w] = [job[w] EXCEPT !.pc = place]
            BY <5>1 DEF FileInv, Go
          <6>2. QED BY <6>1, Zenon DEF place
        <5>2. CASE Go(w, "discard") /\ temp' = temp
          BY <5>2 DEF FileInv, Go
        <5>3. QED BY <2>5, <5>1, <5>2, Zenon DEF SyncTemp
      <4>2. kind' = kind /\ job[w].pc = "sync"
        BY <2>5 DEF SyncTemp, At
      <4>3. QED BY <2>1, <4>1, <4>2 DEF JobSound, JobRecord, TempRecord
    <3>4. QED BY <2>2, <3>1, <3>2, <3>3
  <2>6. CASE Replace(w)
    <3>1. kind' = kind /\ OthersSame /\ Typed
      <4>1. kind' = kind /\ job' \in [Writer -> JobRecord] /\ \A v \in Writer \ {w} : job'[v] = job[v]
        BY Zenon, <2>0, <2>1, <2>6 DEF Replace, FileInv, Place, At, Go, Ends, SameFiles, Surviving
      <4>2. temp' \in [Writer -> TempRecord] /\ \A v \in Writer \ {w} : temp'[v] = temp[v]
        BY Zenon, <2>0, <2>1, <2>6 DEF Replace, FileInv, Place, At, Go, Ends, SameFiles, Surviving
      <4>3. backup' \in [Writer -> Files] /\ \A v \in Writer \ {w} : backup'[v] = backup[v]
        BY Zenon, <2>0, <2>1, <2>6 DEF Replace, FileInv, Place, At, Go, Ends, SameFiles, Surviving
      <4>4. QED BY <4>1, <4>2, <4>3
    <3>2. dest' \in Files /\ dest' \in past' /\ Found
      BY <2>1, <2>6 DEF Replace, FileInv, JobSound, JobRecord, TempRecord, At, Go, Ends, SameFiles, Sets, Surviving
    <3>3. JobSound(job[w], temp[w], backup[w])'
      <4>1. \/ job'[w] = [job[w] EXCEPT !.pc = "idle", !.installed = TRUE, !.result = "ok"] /\ temp'[w] = NoTemp
            \/ job'[w] = [job[w] EXCEPT !.pc = "discard"] /\ temp'[w] = temp[w]
        BY <2>6 DEF Replace, FileInv, Go, Ends
      <4>2. kind' = kind /\ job[w].pc = "rename"
        BY <2>6 DEF Replace, At
      <4>3. QED BY ZenonT(30), <2>1, <4>1, <4>2 DEF JobSound, JobRecord, TempRecord
    <3>4. QED BY <2>2, <3>1, <3>2, <3>3
  <2>7. CASE Exchange(w)
    <3>1. kind' = kind /\ OthersSame /\ Typed
      <4>1. kind' = kind /\ job' \in [Writer -> JobRecord] /\ \A v \in Writer \ {w} : job'[v] = job[v]
        BY Zenon, <2>0, <2>1, <2>7 DEF Exchange, FileInv, Place, At, Go, Ends, SameFiles
      <4>2. temp' \in [Writer -> TempRecord] /\ \A v \in Writer \ {w} : temp'[v] = temp[v]
        BY Zenon, <2>0, <2>1, <2>7 DEF Exchange, FileInv, Place, At, Go, Ends, SameFiles
      <4>3. backup' \in [Writer -> Files] /\ \A v \in Writer \ {w} : backup'[v] = backup[v]
        BY Zenon, <2>0, <2>1, <2>7 DEF Exchange, FileInv, Place, At, Go, Ends, SameFiles
      <4>4. QED BY <4>1, <4>2, <4>3
    <3>2. dest' \in Files /\ dest' \in past' /\ Found
      BY <2>1, <2>7 DEF Exchange, FileInv, JobSound, JobRecord, TempRecord, At, Go, Ends, SameFiles, Sets
    <3>3. JobSound(job[w], temp[w], backup[w])'
      BY <2>1, <2>7 DEF Exchange, FileInv, JobSound, JobRecord, TempRecord, At, Go, Ends, SameFiles, NoTemp
    <3>4. QED BY <2>2, <3>1, <3>2, <3>3
  <2>8. CASE SetAside(w)
    <3>1. kind' = kind /\ OthersSame /\ Typed
      <4>1. kind' = kind /\ job' \in [Writer -> JobRecord] /\ \A v \in Writer \ {w} : job'[v] = job[v]
        BY Zenon, <2>0, <2>1, <2>8 DEF SetAside, FileInv, Place, At, Go, Ends, SameFiles
      <4>2. temp' \in [Writer -> TempRecord] /\ \A v \in Writer \ {w} : temp'[v] = temp[v]
        BY Zenon, <2>0, <2>1, <2>8 DEF SetAside, FileInv, Place, At, Go, Ends, SameFiles
      <4>3. backup' \in [Writer -> Files] /\ \A v \in Writer \ {w} : backup'[v] = backup[v]
        BY Zenon, <2>0, <2>1, <2>8 DEF SetAside, FileInv, Place, At, Go, Ends, SameFiles
      <4>4. QED BY <4>1, <4>2, <4>3
    <3>2. dest' \in Files /\ dest' \in past' /\ Found
      BY <2>1, <2>8 DEF SetAside, FileInv, JobSound, JobRecord, TempRecord, At, Go, Ends, SameFiles, Sets
    <3>3. JobSound(job[w], temp[w], backup[w])'
      BY <2>1, <2>8 DEF SetAside, FileInv, JobSound, JobRecord, TempRecord, At, Go, Ends, SameFiles, NoTemp
    <3>4. QED BY <2>2, <3>1, <3>2, <3>3
  <2>9. CASE Install(w)
    <3>1. kind' = kind /\ OthersSame /\ Typed
      <4>1. kind' = kind /\ job' \in [Writer -> JobRecord] /\ \A v \in Writer \ {w} : job'[v] = job[v]
        BY Zenon, <2>0, <2>1, <2>9 DEF Install, FileInv, Place, At, Go, Ends, SameFiles, Surviving
      <4>2. temp' \in [Writer -> TempRecord] /\ \A v \in Writer \ {w} : temp'[v] = temp[v]
        BY Zenon, <2>0, <2>1, <2>9 DEF Install, FileInv, Place, At, Go, Ends, SameFiles, Surviving
      <4>3. backup' \in [Writer -> Files] /\ \A v \in Writer \ {w} : backup'[v] = backup[v]
        BY Zenon, <2>0, <2>1, <2>9 DEF Install, FileInv, Place, At, Go, Ends, SameFiles, Surviving
      <4>4. QED BY <4>1, <4>2, <4>3
    <3>2. dest' \in Files /\ dest' \in past' /\ Found
      BY <2>1, <2>9 DEF Install, FileInv, JobSound, JobRecord, TempRecord, At, Go, Ends, SameFiles, Sets, Surviving
    <3>3. JobSound(job[w], temp[w], backup[w])'
      <4>1. \/ job'[w] = [job[w] EXCEPT !.pc = "unbackup", !.installed = TRUE] /\ temp'[w] = NoTemp
            \/ job'[w] = [job[w] EXCEPT !.pc = "discard"] /\ temp'[w] = temp[w]
        BY <2>9 DEF Install, FileInv, Go, Ends
      <4>2. kind' = kind /\ job[w].pc = "install"
        BY <2>9 DEF Install, At
      <4>3. QED BY ZenonT(30), <2>1, <4>1, <4>2 DEF JobSound, JobRecord, TempRecord
    <3>4. QED BY <2>2, <3>1, <3>2, <3>3
  <2>10. CASE RemoveBackup(w)
    <3>1. kind' = kind /\ OthersSame /\ Typed
      <4>1. kind' = kind /\ job' \in [Writer -> JobRecord] /\ \A v \in Writer \ {w} : job'[v] = job[v]
        BY Zenon, <2>0, <2>1, <2>10 DEF RemoveBackup, FileInv, Place, At, Go, Ends, SameFiles
      <4>2. temp' \in [Writer -> TempRecord] /\ \A v \in Writer \ {w} : temp'[v] = temp[v]
        BY Zenon, <2>0, <2>1, <2>10 DEF RemoveBackup, FileInv, Place, At, Go, Ends, SameFiles
      <4>3. backup' \in [Writer -> Files] /\ \A v \in Writer \ {w} : backup'[v] = backup[v]
        BY Zenon, <2>0, <2>1, <2>10 DEF RemoveBackup, FileInv, Place, At, Go, Ends, SameFiles
      <4>4. QED BY <4>1, <4>2, <4>3
    <3>2. dest' \in Files /\ dest' \in past' /\ Found
      BY <2>1, <2>10 DEF RemoveBackup, FileInv, JobSound, JobRecord, TempRecord, At, Go, Ends, SameFiles, Sets
    <3>3. JobSound(job[w], temp[w], backup[w])'
      <4>1. \/ job'[w] = [job[w] EXCEPT !.pc = "idle", !.result = "ok"] /\ temp'[w] = temp[w]
            \/ job'[w] = [job[w] EXCEPT !.pc = "idle", !.result = "error"] /\ temp'[w] = temp[w] /\ backup'[w] = backup[w] /\ backup[w] # Absent
        BY <2>10 DEF RemoveBackup, FileInv, Go, Ends
      <4>2. kind' = kind /\ job[w].pc = "unbackup"
        BY <2>10 DEF RemoveBackup, At
      <4>3. QED BY ZenonT(30), <2>1, <4>1, <4>2 DEF JobSound, JobRecord, TempRecord
    <3>4. QED BY <2>2, <3>1, <3>2, <3>3
  <2>11. CASE Discard(w)
    <3>1. kind' = kind /\ OthersSame /\ Typed
      <4>1. kind' = kind /\ job' \in [Writer -> JobRecord] /\ \A v \in Writer \ {w} : job'[v] = job[v]
        BY Zenon, <2>0, <2>1, <2>11 DEF Discard, FileInv, Place, At, Go, Ends, SameFiles
      <4>2. temp' \in [Writer -> TempRecord] /\ \A v \in Writer \ {w} : temp'[v] = temp[v]
        BY Zenon, <2>0, <2>1, <2>11 DEF Discard, FileInv, Place, At, Go, Ends, SameFiles
      <4>3. backup' \in [Writer -> Files] /\ \A v \in Writer \ {w} : backup'[v] = backup[v]
        BY Zenon, <2>0, <2>1, <2>11 DEF Discard, FileInv, Place, At, Go, Ends, SameFiles
      <4>4. QED BY <4>1, <4>2, <4>3
    <3>2. dest' \in Files /\ dest' \in past' /\ Found
      BY <2>1, <2>11 DEF Discard, FileInv, JobSound, JobRecord, TempRecord, At, Go, Ends, SameFiles, Sets
    <3>3. JobSound(job[w], temp[w], backup[w])'
      BY ZenonT(30), <2>1, <2>11 DEF Discard, FileInv, JobSound, JobRecord, TempRecord, At, Go, Ends, SameFiles, NoTemp
    <3>4. QED BY <2>2, <3>1, <3>2, <3>3
  <2>12. CASE Stop(w)
    <3>1. kind' = kind /\ OthersSame /\ Typed
      <4>1. kind' = kind /\ job' \in [Writer -> JobRecord] /\ \A v \in Writer \ {w} : job'[v] = job[v]
        BY Zenon, <2>0, <2>1, <2>12 DEF Stop, FileInv, Place, At, Go, Ends, SameFiles, NoJob
      <4>2. temp' \in [Writer -> TempRecord] /\ \A v \in Writer \ {w} : temp'[v] = temp[v]
        BY Zenon, <2>0, <2>1, <2>12 DEF Stop, FileInv, Place, At, Go, Ends, SameFiles, NoJob
      <4>3. backup' \in [Writer -> Files] /\ \A v \in Writer \ {w} : backup'[v] = backup[v]
        BY Zenon, <2>0, <2>1, <2>12 DEF Stop, FileInv, Place, At, Go, Ends, SameFiles, NoJob
      <4>4. QED BY <4>1, <4>2, <4>3
    <3>2. dest' \in Files /\ dest' \in past' /\ Found
      BY <2>1, <2>12 DEF Stop, FileInv, JobSound, JobRecord, TempRecord, At, Go, Ends, SameFiles, Sets, NoJob
    <3>3. JobSound(job[w], temp[w], backup[w])'
      BY <2>1, <2>12 DEF Stop, FileInv, JobSound, JobRecord, TempRecord, At, Go, Ends, SameFiles, NoTemp, NoJob
    <3>4. QED BY <2>2, <3>1, <3>2, <3>3
  <2>13. ASSUME NEW op \in Operation \ {"none"}, Begin(w, op) PROVE FileInv'
    <3>1. kind' = kind /\ OthersSame /\ Typed
      <4>1. kind' = kind /\ job' \in [Writer -> JobRecord] /\ \A v \in Writer \ {w} : job'[v] = job[v]
        BY Zenon, <2>1, <2>13 DEF Begin, FileInv, JobRecord, Place, Operation, NoJob
      <4>2. temp' \in [Writer -> TempRecord] /\ \A v \in Writer \ {w} : temp'[v] = temp[v]
        BY <2>1, <2>13 DEF Begin, FileInv, JobRecord, Place, Operation, NoJob
      <4>3. backup' \in [Writer -> Files] /\ \A v \in Writer \ {w} : backup'[v] = backup[v]
        BY <2>1, <2>13 DEF Begin, FileInv, JobRecord, Place, Operation, NoJob
      <4>4. QED BY <4>1, <4>2, <4>3
    <3>2. dest' \in Files /\ dest' \in past' /\ Found
      BY <2>1, <2>13 DEF Begin, FileInv, JobRecord, NoJob
    <3>3. JobSound(job[w], temp[w], backup[w])'
      BY <2>1, <2>13 DEF Begin, FileInv, JobSound, JobRecord, At, NoTemp, NoJob
    <3>4. QED BY <2>2, <3>1, <3>2, <3>3
  <2>14. QED BY <1>2, <2>3, <2>4, <2>5, <2>6, <2>7, <2>8, <2>9, <2>10, <2>11, <2>12, <2>13 DEF StepOf
<1>3. QED BY <1>1, <1>2 DEF FileNext

(* Whoever opens the destination finds a whole content within the limit, whatever the       *)
(* writers, the faults and the power do; and while it is missing a backup holds it.         *)
THEOREM FileWhole == FileSpec => []ContentsWhole
<1>1. FileInv => ContentsWhole
  BY FileWords DEF FileInv, Kept, ContentsWhole, WholeContents, ContentKept, Files
<1>2. QED BY <1>1, FileStarts, FileSteps, PTL DEF FileSpec

(* A failed operation leaves the destination alone, or only its backup behind, and no       *)
(* staging file, at whichever call it failed.                                               *)
THEOREM FileClean == FileSpec => []FailureClean
<1>1. FileInv => FailureClean
  BY DEF FileInv, JobSound, FailureClean, ErrorChangesNothing, StagingRemoved, At
<1>2. QED BY <1>1, FileStarts, FileSteps, PTL DEF FileSpec

-----------------------------------------------------------------------------
(* HttpClient                                                               *)

Heads(id) == [token : {"head"}, id : {id}, framing : Framing, len : 0 .. (BodyLimit + 1),
              keep : BOOLEAN, target : Origin \union {NoTarget}]

\* The bytes of a response with head h after k interim heads, by position, and how many.
Byte(k, h, i) ==
  IF i <= k THEN Part("interim", h.id)
  ELSE IF i = k + 1 THEN h
  ELSE IF i <= k + 1 + h.len THEN Part("unit", h.id)
  ELSE Part("last", h.id)
ResponseSize(k, h) == k + 1 + (IF h.framing = "none" THEN 0 ELSE h.len) + (IF h.framing = "chunked" THEN 1 ELSE 0)

\* What was read and what is still on the wire are one response, perhaps cut.
Carries(k, h, read, wired) ==
  /\ Len(read) + Len(wired) <= ResponseSize(k, h)
  /\ \A i \in 1 .. Len(read) : read[i] = Byte(k, h, i)
  /\ \A i \in 1 .. Len(wired) : wired[i] = Byte(k, h, Len(read) + i)

\* Two sequences after one another, by position.
LEMMA Joined ==
  ASSUME NEW S, NEW s \in Seq(S), NEW t \in Seq(S)
  PROVE  /\ s \o t \in Seq(S) /\ Len(s \o t) = Len(s) + Len(t)
         /\ \A i \in 1 .. Len(s) : (s \o t)[i] = s[i]
         /\ \A i \in 1 .. Len(t) : (s \o t)[Len(s) + i] = t[i]
  OBVIOUS

\* What is left of a sequence, by position.
LEMMA Remaining ==
  ASSUME NEW S, NEW s \in Seq(S), NEW m \in Nat, m <= Len(s)
  PROVE  /\ SubSeq(s, m + 1, Len(s)) \in Seq(S) /\ Len(SubSeq(s, m + 1, Len(s))) = Len(s) - m
         /\ \A i \in 1 .. (Len(s) - m) : SubSeq(s, m + 1, Len(s))[i] = s[m + i]
  OBVIOUS

\* A response is as long as it should be, and every byte is where it should be.
LEMMA WholeBytes ==
  ASSUME NEW id \in 1 .. MaxRequests, NEW h \in Heads(id), NEW k \in 0 .. 1
  PROVE  LET whole == Repeat(Part("interim", id), k) \o Response(h)
         IN  whole \in Seq(Tokens) /\ Len(whole) = ResponseSize(k, h) /\ \A i \in 1 .. Len(whole) : whole[i] = Byte(k, h, i)
<1> DEFINE first == Repeat(Part("interim", id), k)
           body == IF h.framing = "none" THEN <<>> ELSE Repeat(Part("unit", h.id), h.len)
           end == IF h.framing = "chunked" THEN <<Part("last", h.id)>> ELSE <<>>
<1>1. h \in Tokens /\ h.id = id /\ h.len \in Nat /\ h.framing \in Framing /\ k \in Nat
  BY HttpAssumption DEF Heads, Tokens
<1>2. \A word \in {"interim", "unit", "last"} : Part(word, id) \in Tokens
  BY DEF Part, Tokens
<1>3. first \in Seq(Tokens) /\ Len(first) = k /\ \A i \in 1 .. k : first[i] = Part("interim", id)
  BY <1>1, <1>2 DEF Repeat
<1>4. body \in Seq(Tokens) /\ Len(body) = (IF h.framing = "none" THEN 0 ELSE h.len)
      /\ \A i \in 1 .. Len(body) : body[i] = Part("unit", id)
  BY <1>1, <1>2 DEF Repeat
<1>5. end \in Seq(Tokens) /\ Len(end) = (IF h.framing = "chunked" THEN 1 ELSE 0)
      /\ \A i \in 1 .. Len(end) : end[i] = Part("last", id)
  BY <1>1, <1>2
<1> DEFINE front == <<h>> \o body
           rest == front \o end
           whole == first \o rest
<1>6. whole = Repeat(Part("interim", id), k) \o Response(h)
  BY DEF Response
<1> HIDE DEF first, body, end
<1>7. front \in Seq(Tokens) /\ Len(front) = 1 + Len(body) /\ front[1] = h /\ \A i \in 1 .. Len(body) : front[1 + i] = Part("unit", id)
  BY <1>1, <1>4
<1> HIDE DEF front
<1>8. /\ rest \in Seq(Tokens) /\ Len(rest) = 1 + Len(body) + Len(end) /\ rest[1] = h
      /\ \A i \in 1 .. Len(body) : rest[1 + i] = Part("unit", id)
      /\ \A i \in 1 .. Len(end) : rest[1 + Len(body) + i] = Part("last", id)
  <2>1. Len(body) \in Nat /\ Len(end) \in Nat
    BY <1>4, <1>5
  <2>2. /\ rest \in Seq(Tokens) /\ Len(rest) = Len(front) + Len(end)
        /\ \A i \in 1 .. Len(front) : rest[i] = front[i]
        /\ \A i \in 1 .. Len(end) : rest[Len(front) + i] = end[i]
    BY <1>5, <1>7, Joined
  <2> HIDE DEF rest
  <2>3. QED BY <1>5, <1>7, <2>1, <2>2
<1> HIDE DEF rest
<1>9. /\ whole \in Seq(Tokens) /\ Len(whole) = k + Len(rest)
      /\ \A i \in 1 .. k : whole[i] = Part("interim", id)
      /\ \A i \in 1 .. Len(rest) : whole[k + i] = rest[i]
  <2>1. /\ whole \in Seq(Tokens) /\ Len(whole) = Len(first) + Len(rest)
        /\ \A i \in 1 .. Len(first) : whole[i] = first[i]
        /\ \A i \in 1 .. Len(rest) : whole[Len(first) + i] = rest[i]
    <3>1. first \in Seq(Tokens) /\ rest \in Seq(Tokens)
      BY <1>3, <1>8
    <3>2. QED BY <3>1, Joined
  <2> HIDE DEF whole
  <2>2. QED BY <1>3, <2>1
<1> HIDE DEF whole
<1>10. /\ Len(body) \in Nat /\ Len(end) \in Nat
       /\ Len(rest) = 1 + Len(body) + Len(end) /\ Len(whole) = k + Len(rest)
  BY <1>4, <1>5, <1>8, <1>9
<1>11. Len(whole) = ResponseSize(k, h)
  <2>1. Len(body) = (IF h.framing = "none" THEN 0 ELSE h.len) /\ Len(end) = (IF h.framing = "chunked" THEN 1 ELSE 0)
    BY <1>4, <1>5
  <2>2. QED BY <1>1, <1>10, <2>1 DEF ResponseSize
<1>12. ASSUME NEW i \in 1 .. Len(whole) PROVE whole[i] = Byte(k, h, i)
  <2>1. CASE i <= k
    BY <1>1, <1>9, <2>1 DEF Byte
  <2>2. CASE i = k + 1
    <3>1. whole[k + 1] = rest[1]
      BY <1>8, <1>9, <1>10
    <3>2. QED BY <1>1, <1>8, <2>2, <3>1 DEF Byte
  <2>3. CASE i > k + 1 /\ i <= k + 1 + Len(body)
    <3> DEFINE j == i - (k + 1)
    <3>1. j \in 1 .. Len(body) /\ 1 + j \in 1 .. Len(rest) /\ i = k + (1 + j)
      BY <1>1, <1>10, <2>3
    <3> HIDE DEF j
    <3>2. whole[i] = rest[1 + j]
      BY <1>9, <3>1
    <3>3. i <= k + 1 + h.len
      BY <1>1, <1>4, <1>10, <2>3
    <3>4. QED BY <1>1, <1>8, <2>3, <3>1, <3>2, <3>3 DEF Byte
  <2>4. CASE i > k + 1 + Len(body)
    <3> DEFINE j == i - (k + 1 + Len(body))
    <3>1. j \in 1 .. Len(end) /\ 1 + Len(body) + j \in 1 .. Len(rest) /\ i = k + (1 + Len(body) + j)
      BY <1>1, <1>10, <2>4
    <3> HIDE DEF j
    <3>2. whole[i] = rest[1 + Len(body) + j]
      BY <1>9, <3>1
    <3>3. h.framing = "chunked" /\ Len(body) = h.len
      BY <1>1, <1>4, <1>5, <3>1
    <3>4. whole[i] = Part("last", id)
      BY <1>8, <3>1, <3>2
    <3>5. i > k + 1 + h.len
      BY <2>4, <3>3
    <3>6. QED BY <1>1, <3>4, <3>5 DEF Byte
  <2>5. QED BY <1>1, <1>10, <2>1, <2>2, <2>3, <2>4
<1>13. QED BY <1>6, <1>9, <1>11, <1>12

\* What read_http_response takes for the head and for the body are that, once a head is there.
LEMMA HeadFound ==
  ASSUME NEW id \in 1 .. MaxRequests, NEW k \in 0 .. 1, NEW h \in Heads(id),
         got \in Seq(Tokens), Carries(k, h, got, conn.wire), HaveHead
  PROVE  /\ TheHead = h
         /\ BodyRead \in Seq(Tokens) /\ Len(got) >= k + 1 /\ Len(BodyRead) = Len(got) - (k + 1)
         /\ \A i \in 1 .. Len(BodyRead) : BodyRead[i] = Byte(k, h, k + 1 + i)
<1>1. k \in Nat /\ Len(got) \in Nat /\ h.token = "head"
  BY DEF Heads
<1>2. Len(got) >= 1
  <2>1. CASE got = <<>>
    BY <2>1 DEF HaveHead, Answer, Interims
  <2>2. QED BY <2>1
<1>3. got[1] = Byte(k, h, 1)
  BY <1>1, <1>2 DEF Carries
<1>4. Interims = k
  <2>1. CASE k = 0
    BY <1>1, <1>2, <1>3, <2>1 DEF Interims, Byte
  <2>2. CASE k = 1
    BY <1>2, <1>3, <2>2 DEF Interims, Byte, Part
  <2>3. QED BY <2>1, <2>2
<1>5. Answer = SubSeq(got, k + 1, Len(got))
  BY <1>4 DEF Answer
<1>6. Len(got) >= k + 1
  BY <1>1, <1>2, <1>5 DEF HaveHead
<1>7. /\ Answer \in Seq(Tokens) /\ Len(Answer) = Len(got) - k
      /\ \A i \in 1 .. Len(Answer) : Answer[i] = got[k + i]
  <2>1. k <= Len(got)
    BY <1>1, <1>6
  <2>2. QED BY <1>1, <1>5, <2>1, Remaining
<1>8. TheHead = h
  <2>1. Answer[1] = got[k + 1]
    BY <1>1, <1>6, <1>7
  <2>2. got[k + 1] = Byte(k, h, k + 1)
    BY <1>1, <1>6 DEF Carries
  <2>3. QED BY <1>1, <2>1, <2>2 DEF TheHead, Byte
<1>9. /\ BodyRead \in Seq(Tokens) /\ Len(BodyRead) = Len(Answer) - 1
      /\ \A i \in 1 .. Len(BodyRead) : BodyRead[i] = Answer[1 + i]
  BY <1>1, <1>6, <1>7 DEF BodyRead
<1>10. Len(BodyRead) = Len(got) - (k + 1)
  BY <1>1, <1>7, <1>9
<1>11. ASSUME NEW i \in 1 .. Len(BodyRead) PROVE BodyRead[i] = Byte(k, h, k + 1 + i)
  <2>1. 1 + i \in 1 .. Len(Answer) /\ k + (1 + i) = k + 1 + i /\ k + 1 + i \in 1 .. Len(got)
    BY <1>1, <1>7, <1>9
  <2>2. BodyRead[i] = got[k + 1 + i]
    BY SMTT(30), <1>7, <1>9, <2>1
  <2>3. QED BY <2>1, <2>2 DEF Carries
<1>12. QED BY <1>6, <1>8, <1>9, <1>10, <1>11

\* A complete response within the limit has its whole body, and a connection that goes back
\* to the pool has nothing left on the wire.
LEMMA Finished ==
  ASSUME NEW id \in 1 .. MaxRequests, NEW k \in 0 .. 1, NEW h \in Heads(id),
         got \in Seq(Tokens), conn.wire \in Seq(Tokens), Carries(k, h, got, conn.wire), Complete, ~TooLong
  PROVE  /\ TheHead = h
         /\ h.framing \in {"length", "chunked"} => Len(Body) = h.len
         /\ Len(Body) <= BodyLimit
         /\ reusable => conn.wire = <<>>
<1>1. HaveHead
  BY DEF Complete
<1>2. /\ TheHead = h
      /\ BodyRead \in Seq(Tokens) /\ Len(got) >= k + 1 /\ Len(BodyRead) = Len(got) - (k + 1)
      /\ \A i \in 1 .. Len(BodyRead) : BodyRead[i] = Byte(k, h, k + 1 + i)
  BY <1>1, HeadFound
<1>3. /\ k \in Nat /\ h.len \in Nat /\ h.framing \in Framing /\ BodyLimit \in Nat /\ Len(got) \in Nat /\ Len(conn.wire) \in Nat
      /\ Len(BodyRead) \in Nat /\ Len(got) + Len(conn.wire) <= ResponseSize(k, h)
  BY SMTT(30), <1>2, HttpAssumption DEF Heads, Carries
<1>4. Len(conn.wire) = 0 => conn.wire = <<>>
  OBVIOUS
<1>5. CASE h.framing = "none"
  <2>1. Body = <<>> /\ Len(Body) = 0
    BY <1>2, <1>5 DEF Body
  <2>2. Len(conn.wire) = 0
    BY <1>2, <1>3, <1>5 DEF ResponseSize
  <2>3. QED BY <1>2, <1>3, <1>4, <1>5, <2>1, <2>2
<1>6. CASE h.framing = "length"
  <2>1. Len(BodyRead) >= h.len /\ h.len <= BodyLimit
    BY <1>1, <1>2, <1>3, <1>6 DEF Complete, TooLong
  <2>2. 1 .. h.len \cap DOMAIN BodyRead = 1 .. h.len
    BY <1>2, <1>3, <2>1
  <2>3. Body = [i \in 1 .. h.len |-> BodyRead[i]]
    BY <1>2, <1>6, <2>2 DEF Body
  <2>4. Len(Body) = h.len
    BY <1>3, <2>3
  <2>5. reusable => Len(BodyRead) = h.len
    BY <1>2, <1>3, <1>6, <2>4 DEF reusable, Exact
  <2>6. reusable => Len(conn.wire) = 0
    BY <1>2, <1>3, <1>6, <2>5 DEF ResponseSize
  <2>7. QED BY <1>2, <1>4, <2>1, <2>4, <2>6
<1>7. CASE h.framing = "chunked"
  <2>1. Len(BodyRead) <= h.len + 1
    BY SMTT(30), <1>2, <1>3, <1>7 DEF ResponseSize
  <2>2. ASSUME NEW i \in LastAt PROVE i = h.len + 1 /\ i = Len(BodyRead)
    <3>1. i \in 1 .. Len(BodyRead) /\ BodyRead[i].token = "last"
      BY <1>2 DEF LastAt
    <3>2. CASE i <= h.len
      <4>1. k + 1 + i \in Int /\ k + 1 + i > k + 1 /\ k + 1 + i <= k + 1 + h.len
        BY <1>3, <3>1, <3>2
      <4>2. Byte(k, h, k + 1 + i) = Part("unit", h.id)
        BY <1>3, <4>1 DEF Byte
      <4>3. QED BY <1>2, <3>1, <4>2 DEF Part
    <3>3. QED BY <1>3, <2>1, <3>1, <3>2
  <2>3. LastAt # {}
    BY <1>2, <1>7 DEF Complete
  <2>4. LastAt = {h.len + 1} /\ Len(BodyRead) = h.len + 1
    BY <2>2, <2>3
  <2>5. Chunks = SubSeq(BodyRead, 1, h.len)
    <3>1. (CHOOSE i \in LastAt : TRUE) = h.len + 1
      BY <2>4
    <3>2. (h.len + 1) - 1 = h.len
      BY <1>3
    <3>3. QED BY Zenon, <3>1, <3>2 DEF Chunks
  <2>6. Len(Chunks) = h.len /\ Body = Chunks
    BY SMTT(30), <1>2, <1>3, <1>7, <2>4, <2>5 DEF Body
  <2>7. h.len <= BodyLimit
    BY <1>1, <1>2, <1>3, <1>7, <2>3, <2>6 DEF TooLong
  <2>8. Len(conn.wire) = 0
    BY SMTT(30), <1>2, <1>3, <1>7, <2>4 DEF ResponseSize
  <2>9. QED BY <1>2, <1>4, <2>6, <2>7, <2>8
<1>8. CASE h.framing = "eof"
  <2>1. Body = BodyRead /\ Len(BodyRead) <= BodyLimit /\ conn.wire = <<>>
    BY <1>1, <1>2, <1>3, <1>8 DEF Body, TooLong, Complete
  <2>2. QED BY <1>2, <1>8, <2>1
<1>9. QED BY <1>3, <1>5, <1>6, <1>7, <1>8 DEF Framing

CallState == [id : 0 .. MaxRequests, origin : Origin, bare : BOOLEAN, hops : Nat,
              pc : {"idle", "open", "send", "server", "read", "done"}, result : {"none", "ok", "error"}]
Connections == [wire : Seq(Tokens), closed : BOOLEAN]
Idlers == [wire : {<<>>}, closed : BOOLEAN]

\* What is read for a request is one response to it; a connection is used only when it is clean.
ResponseInv ==
  /\ call \in CallState /\ got \in Seq(Tokens) /\ conn \in Connections
  /\ call.pc # "idle" => call.id \in 1 .. MaxRequests
  /\ call.pc \in {"send", "server"} => got = <<>> /\ conn.wire = <<>>
  /\ call.pc = "read" \/ (call.pc = "done" /\ call.result = "ok") =>
       \E k \in 0 .. 1, h \in Heads(call.id) : Carries(k, h, got, conn.wire)
  /\ call.pc = "done" /\ call.result = "ok" => Complete /\ ~TooLong

PoolInv ==
  /\ pool \in [DOMAIN pool -> Seq(Idlers)] /\ DOMAIN pool \subseteq Origin
  /\ \A o \in DOMAIN pool : Len(pool[o]) <= MaxPerOrigin
  /\ IsFiniteSet(DOMAIN pool) /\ Cardinality(DOMAIN pool) <= MaxOrigins

\* A request that is about to be sent has been sent once for each hop behind it; only a bare
\* one has any; and once a hop was secure, so is the origin in hand.
SendInv ==
  /\ sends \in [1 .. MaxRequests -> Nat] /\ route \in Seq(Origin)
  /\ \A i \in 1 .. MaxRequests : i > call.id => sends[i] = 0
  /\ call.id > 0 => sends[call.id] <= call.hops + 1
  /\ call.pc \in {"open", "send"} => sends[call.id] <= call.hops
  /\ ~call.bare => call.hops = 0
  /\ (\E i \in DOMAIN route : route[i] \in Secure) => call.origin \in Secure
  /\ StaysSecure

\* The invariant promises what the two properties say.
LEMMA ResponseSound == ResponseInv /\ PoolInv => AnswersOwn
<1> SUFFICES ASSUME ResponseInv, PoolInv PROVE AnswersOwn
  OBVIOUS
<1>1. PoolClean
  <2>1. ASSUME NEW o \in DOMAIN pool, NEW i \in DOMAIN pool[o] PROVE pool[o][i].wire = <<>>
    <3>1. pool[o] \in Seq(Idlers)
      BY DEF PoolInv
    <3>2. pool[o][i] \in Idlers
      BY <3>1
    <3>3. QED BY <3>2 DEF Idlers
  <2>2. QED BY <2>1 DEF PoolInv, PoolClean
<1>2. ASSUME call.pc = "done", call.result = "ok"
      PROVE  /\ \A i \in DOMAIN got : got[i].id = call.id
             /\ TheHead.framing \in {"length", "chunked"} => Len(Body) = TheHead.len
             /\ Len(Body) <= BodyLimit
  <2>1. PICK k \in 0 .. 1, h \in Heads(call.id) : Carries(k, h, got, conn.wire)
    BY <1>2 DEF ResponseInv
  <2>2. call.id \in 1 .. MaxRequests /\ got \in Seq(Tokens) /\ conn.wire \in Seq(Tokens) /\ Complete /\ ~TooLong
    BY <1>2 DEF ResponseInv, Connections
  <2>3. TheHead = h /\ (h.framing \in {"length", "chunked"} => Len(Body) = h.len) /\ Len(Body) <= BodyLimit
    BY <2>1, <2>2, Finished
  <2>4. ASSUME NEW i \in DOMAIN got PROVE got[i].id = call.id
    <3>1. got[i] = Byte(k, h, i)
      BY <2>1, <2>2 DEF Carries
    <3>2. QED BY <3>1 DEF Byte, Part, Heads
  <2>5. QED BY <2>3, <2>4
<1>3. QED BY <1>1, <1>2 DEF AnswersOwn, OwnWholeAnswer

\* A step that leaves the bytes alone, and neither reads nor succeeds after it.
LEMMA ResponseStill ==
  ASSUME ResponseInv, call' \in CallState, call'.pc # "idle" => call'.id \in 1 .. MaxRequests,
         \/ call'.pc = "open" \/ (call'.pc = "done" /\ call'.result # "ok")
         \/ call'.pc = "idle",
         UNCHANGED <<conn, got>>
  PROVE  ResponseInv'
  BY DEF ResponseInv

\* A failed request.
LEMMA Failing ==
  ASSUME ResponseInv, Fail, call.pc # "idle"
  PROVE  /\ call' \in CallState /\ call'.pc = "done" /\ call'.result = "error"
         /\ call'.id = call.id /\ call'.hops = call.hops /\ call'.origin = call.origin /\ call'.bare = call.bare
         /\ call'.id \in 1 .. MaxRequests
<1>1. call \in CallState /\ call.id \in 1 .. MaxRequests
  BY DEF ResponseInv
<1>2. call' = [call EXCEPT !.pc = "done", !.result = "error"]
  BY DEF Fail
<1>3. QED BY Zenon, <1>1, <1>2 DEF CallState

\* The clean connections that the pool may hold.
LEMMA Clean ==
  /\ Idlers \subseteq Connections /\ Fresh \in Idlers
  /\ \A c \in Connections : c.wire = <<>> => c \in Idlers
<1>1. ASSUME NEW c \in Idlers PROVE c \in Connections
  <2>1. c = [wire |-> <<>>, closed |-> c.closed] /\ c.closed \in BOOLEAN
    BY DEF Idlers
  <2>2. ASSUME NEW w \in Seq(Tokens), NEW b \in BOOLEAN PROVE [wire |-> w, closed |-> b] \in Connections
    BY DEF Connections
  <2>3. <<>> \in Seq(Tokens)
    OBVIOUS
  <2>4. QED BY <2>1, <2>2, <2>3, Zenon
<1>2. \A c \in Connections : c.wire = <<>> => c \in Idlers
  BY DEF Idlers, Connections
<1>3. QED BY <1>1, <1>2 DEF Idlers, Fresh

\* No response yet, on a connection that will bring none.
LEMMA NoBytes ==
  ASSUME NEW id \in 1 .. MaxRequests
  PROVE  \E k \in 0 .. 1, h \in Heads(id) : Carries(k, h, <<>>, <<>>)
<1> DEFINE h == ResponseHead(id, "none", 0, TRUE, NoTarget)
<1>1. h \in Heads(id) /\ h.framing = "none"
  BY HttpAssumption DEF ResponseHead, Heads, Framing
<1> HIDE DEF h
<1>2. Carries(0, h, <<>>, <<>>)
  BY <1>1 DEF Carries, ResponseSize
<1>3. QED BY <1>1, <1>2

\* A read moves bytes from the wire to what was read.
LEMMA ReadMoves ==
  ASSUME NEW id \in 1 .. MaxRequests, NEW k \in 0 .. 1, NEW h \in Heads(id),
         NEW s \in Seq(Tokens), NEW t \in Seq(Tokens), Carries(k, h, s, t), NEW n \in 1 .. Len(t)
  PROVE  LET a == s \o SubSeq(t, 1, n)
             b == SubSeq(t, n + 1, Len(t))
         IN  a \in Seq(Tokens) /\ b \in Seq(Tokens) /\ Carries(k, h, a, b)
<1> DEFINE m == SubSeq(t, 1, n)
           a == s \o m
           b == SubSeq(t, n + 1, Len(t))
<1>1. Len(s) \in Nat /\ Len(t) \in Nat /\ n \in Nat /\ n <= Len(t)
  OBVIOUS
<1>2. m \in Seq(Tokens) /\ Len(m) = n /\ \A i \in 1 .. n : m[i] = t[i]
  BY <1>1
<1>3. b \in Seq(Tokens) /\ Len(b) = Len(t) - n /\ \A i \in 1 .. (Len(t) - n) : b[i] = t[n + i]
  BY <1>1, Remaining
<1> HIDE DEF m, b
<1>4. /\ a \in Seq(Tokens) /\ Len(a) = Len(s) + n
      /\ \A i \in 1 .. Len(s) : a[i] = s[i]
      /\ \A i \in 1 .. n : a[Len(s) + i] = m[i]
  <2>1. m \in Seq(Tokens) /\ Len(m) = n
    BY <1>2
  <2>2. ASSUME NEW u \in Seq(Tokens), NEW v \in Seq(Tokens)
        PROVE  /\ u \o v \in Seq(Tokens) /\ Len(u \o v) = Len(u) + Len(v)
               /\ \A i \in 1 .. Len(u) : (u \o v)[i] = u[i]
               /\ \A i \in 1 .. Len(v) : (u \o v)[Len(u) + i] = v[i]
    BY Joined
  <2>3. /\ a \in Seq(Tokens) /\ Len(a) = Len(s) + Len(m)
        /\ \A i \in 1 .. Len(s) : a[i] = s[i]
        /\ \A i \in 1 .. Len(m) : a[Len(s) + i] = m[i]
    BY <2>1, <2>2, Zenon
  <2>4. QED BY <2>1, <2>3, Zenon
<1> HIDE DEF a
<1>5. /\ Len(s) + Len(t) <= ResponseSize(k, h)
      /\ \A i \in 1 .. Len(s) : s[i] = Byte(k, h, i)
      /\ \A i \in 1 .. Len(t) : t[i] = Byte(k, h, Len(s) + i)
  BY DEF Carries
<1>6. Len(a) + Len(b) <= ResponseSize(k, h)
  BY <1>1, <1>3, <1>4, <1>5
<1>7. ASSUME NEW i \in 1 .. Len(a) PROVE a[i] = Byte(k, h, i)
  <2>1. CASE i <= Len(s)
    BY SMTT(30), <1>1, <1>4, <1>5, <2>1
  <2>2. CASE i > Len(s)
    <3> DEFINE j == i - Len(s)
    <3>1. j \in 1 .. n /\ j \in 1 .. Len(t) /\ i = Len(s) + j
      BY <1>1, <1>4, <2>2
    <3> HIDE DEF j
    <3>2. QED BY SMTT(30), <1>2, <1>4, <1>5, <3>1
  <2>3. QED BY <1>1, <2>1, <2>2
<1>8. ASSUME NEW i \in 1 .. Len(b) PROVE b[i] = Byte(k, h, Len(a) + i)
  <2>1. n + i \in 1 .. Len(t) /\ Len(s) + (n + i) = Len(a) + i /\ i \in 1 .. (Len(t) - n)
    BY <1>1, <1>3, <1>4
  <2>2. b[i] = t[n + i]
    BY <1>3, <2>1
  <2>3. t[n + i] = Byte(k, h, Len(s) + (n + i))
    BY <1>5, <2>1
  <2>4. QED BY <2>1, <2>2, <2>3
<1>9. Carries(k, h, a, b)
  BY <1>6, <1>7, <1>8 DEF Carries
<1>10. QED BY <1>3, <1>4, <1>9 DEF a, b, m

\* What the server sends is a response to the request, perhaps cut.
LEMMA ServerSends ==
  ASSUME NEW id \in 1 .. MaxRequests, NEW k \in 0 .. 1, NEW h \in Heads(id)
  PROVE  LET whole == Repeat(Part("interim", id), k) \o Response(h)
         IN  \A cut \in {Len(whole), Len(whole) - 1} :
               SubSeq(whole, 1, cut) \in Seq(Tokens) /\ Carries(k, h, <<>>, SubSeq(whole, 1, cut))
<1> DEFINE whole == Repeat(Part("interim", id), k) \o Response(h)
<1>1. whole \in Seq(Tokens) /\ Len(whole) = ResponseSize(k, h) /\ \A i \in 1 .. Len(whole) : whole[i] = Byte(k, h, i)
  BY Zenon, WholeBytes
<1> HIDE DEF whole
<1>2. Len(whole) >= 1 /\ Len(whole) \in Nat
  BY <1>1, HttpAssumption DEF ResponseSize, Heads
<1>3. ASSUME NEW cut \in {Len(whole), Len(whole) - 1}
      PROVE  SubSeq(whole, 1, cut) \in Seq(Tokens) /\ Carries(k, h, <<>>, SubSeq(whole, 1, cut))
  <2>1. cut \in 0 .. Len(whole)
    BY <1>2
  <2> DEFINE sent == SubSeq(whole, 1, cut)
  <2>2. sent \in Seq(Tokens) /\ Len(sent) = cut /\ \A i \in 1 .. cut : sent[i] = whole[i]
    BY <1>1, <2>1
  <2> HIDE DEF sent
  <2>3. \A i \in 1 .. Len(sent) : sent[i] = Byte(k, h, 0 + i)
    BY <1>1, <2>1, <2>2
  <2>4. 0 + Len(sent) <= ResponseSize(k, h)
    BY <1>1, <1>2, <2>1, <2>2
  <2>5. Carries(k, h, <<>>, sent)
    BY <2>3, <2>4 DEF Carries
  <2>6. QED BY <2>2, <2>5 DEF sent
<1>4. QED BY <1>3 DEF whole

\* Whether a response is complete depends only on the bytes.
LEMMA SameBytes ==
  ASSUME UNCHANGED <<conn, got>>
  PROVE  (Complete' <=> Complete) /\ (TooLong' <=> TooLong)
<1>1. Answer' = Answer
  BY DEF Answer, Interims
<1>2. BodyRead' = BodyRead /\ TheHead' = TheHead /\ (HaveHead' <=> HaveHead)
  BY <1>1 DEF BodyRead, TheHead, HaveHead
<1>3. LastAt' = LastAt
  BY <1>2 DEF LastAt
<1>4. Chunks' = Chunks
  BY <1>2, <1>3 DEF Chunks
<1>5. Complete' <=> Complete
  BY <1>2, <1>3 DEF Complete
<1>6. TooLong' <=> TooLong
  BY <1>2, <1>3, <1>4 DEF TooLong
<1>7. QED BY <1>5, <1>6

\* A complete response to the request in hand is one that was sent for it.
LEMMA InHand ==
  ASSUME ResponseInv, call.pc = "read", Complete, ~TooLong
  PROVE  TheHead \in Heads(call.id) /\ (reusable => conn \in Idlers)
<1>1. call.id \in 1 .. MaxRequests /\ got \in Seq(Tokens) /\ conn \in Connections /\ conn.wire \in Seq(Tokens)
  BY DEF ResponseInv, Connections
<1>2. PICK k \in 0 .. 1, h \in Heads(call.id) : Carries(k, h, got, conn.wire)
  BY DEF ResponseInv
<1>3. TheHead = h /\ (reusable => conn.wire = <<>>)
  BY <1>1, <1>2, Finished
<1>4. QED BY <1>1, <1>3, Clean

\* Every step keeps what was read for a request a response to it.
LEMMA ResponseSteps == ResponseInv /\ PoolInv /\ [HttpNext]_http_vars => ResponseInv'
<1> SUFFICES ASSUME ResponseInv, PoolInv, [HttpNext]_http_vars PROVE ResponseInv'
  OBVIOUS
<1>0. call \in CallState /\ got \in Seq(Tokens) /\ conn \in Connections /\ MaxRequests \in Nat
  BY HttpAssumption DEF ResponseInv
<1>1. ASSUME NEW o \in Origin, NEW bare \in BOOLEAN, Request(o, bare) PROVE ResponseInv'
  <2>1. call'.pc = "open" /\ call' \in CallState /\ call'.id \in 1 .. MaxRequests
    BY <1>0, <1>1 DEF Request, CallState
  <2>2. QED BY <1>1, <2>1, ResponseStill DEF Request
<1>2. CASE OpenConnection
  <2>1. call.pc = "open" /\ call.id \in 1 .. MaxRequests
    BY <1>2 DEF OpenConnection, ResponseInv
  <2>2. conn' \in Idlers
    <3> DEFINE idle == IF call.origin \in DOMAIN pool THEN pool[call.origin] ELSE <<>>
    <3>1. idle \in Seq(Idlers)
      BY DEF PoolInv
    <3>2. conn' = IF idle # <<>> THEN idle[Len(idle)] ELSE Fresh
      BY <1>2 DEF OpenConnection
    <3> HIDE DEF idle
    <3>3. idle # <<>> => idle[Len(idle)] \in Idlers
      BY <3>1
    <3>4. QED BY <3>2, <3>3, Clean
  <2>3. conn' \in Connections /\ conn'.wire = <<>> /\ got' = <<>> /\ got' \in Seq(Tokens)
    BY <1>2, <2>2, Clean DEF OpenConnection, Idlers
  <2>4. CASE call' = [call EXCEPT !.pc = "send"]
    <3>1. call' \in CallState /\ call'.pc = "send" /\ call'.id \in 1 .. MaxRequests
      BY <1>0, <2>1, <2>4 DEF CallState
    <3>2. QED BY <2>3, <3>1 DEF ResponseInv
  <2>5. CASE Fail
    <3>1. call' \in CallState /\ call'.pc = "done" /\ call'.result = "error" /\ call'.id \in 1 .. MaxRequests
      BY <2>1, <2>5, Failing
    <3>2. QED BY <2>3, <3>1 DEF ResponseInv
  <2>6. QED BY <1>2, <2>4, <2>5 DEF OpenConnection
<1>3. CASE SendRequest
  <2>1. /\ call.pc = "send" /\ call.id \in 1 .. MaxRequests /\ got = <<>> /\ conn.wire = <<>>
        /\ got' = got /\ conn' = conn
    BY <1>3 DEF SendRequest, ResponseInv
  <2>2. CASE conn.closed /\ call' = [call EXCEPT !.pc = "read"]
    <3>1. call' \in CallState /\ call'.pc = "read" /\ call'.id = call.id
      BY <1>0, <2>1, <2>2 DEF CallState
    <3>2. \E k \in 0 .. 1, h \in Heads(call'.id) : Carries(k, h, got', conn'.wire)
      BY <2>1, <3>1, NoBytes
    <3>3. QED BY <1>0, <2>1, <3>1, <3>2 DEF ResponseInv
  <2>3. CASE call' = [call EXCEPT !.pc = "server"]
    <3>1. call' \in CallState /\ call'.pc = "server" /\ call'.id = call.id
      BY <1>0, <2>1, <2>3 DEF CallState
    <3>2. QED BY <1>0, <2>1, <3>1 DEF ResponseInv
  <2>4. CASE Fail
    <3>1. call' \in CallState /\ call'.pc = "done" /\ call'.result = "error" /\ call'.id \in 1 .. MaxRequests
      BY SMTT(30), <2>1, <2>4, Failing
    <3>2. QED BY <2>1, <3>1, ResponseStill
  <2>5. QED BY <1>3, <2>2, <2>3, <2>4 DEF SendRequest
<1>4. CASE ServerAnswers
  <2>1. call.pc = "server" /\ call.id \in 1 .. MaxRequests /\ got = <<>> /\ got' = got
    BY <1>4 DEF ServerAnswers, ResponseInv
  <2>2. call' \in CallState /\ call'.pc = "read" /\ call'.id = call.id
    BY Zenon, <1>0, <1>4, <2>1 DEF ServerAnswers, CallState
  <2>3. PICK framing \in Framing, len \in 0 .. (BodyLimit + 1), keep \in BOOLEAN,
             target \in Origin \union {NoTarget}, k \in 0 .. 1 :
          LET whole == Repeat(Part("interim", call.id), k)
                         \o Response(ResponseHead(call.id, framing, len, keep, target)) IN
          \E cut \in {Len(whole), Len(whole) - 1} :
            conn' = [wire |-> SubSeq(whole, 1, cut), closed |-> cut < Len(whole) \/ framing = "eof"]
    BY Zenon, <1>4 DEF ServerAnswers
  <2> DEFINE h == ResponseHead(call.id, framing, len, keep, target)
             whole == Repeat(Part("interim", call.id), k) \o Response(h)
  <2>4. PICK cut \in {Len(whole), Len(whole) - 1} :
          conn' = [wire |-> SubSeq(whole, 1, cut), closed |-> cut < Len(whole) \/ framing = "eof"]
    BY Zenon, <2>3
  <2>5. h \in Heads(call.id)
    BY DEF ResponseHead, Heads
  <2> HIDE DEF h
  <2>6. SubSeq(whole, 1, cut) \in Seq(Tokens) /\ Carries(k, h, <<>>, SubSeq(whole, 1, cut))
    BY Zenon, <2>1, <2>5, ServerSends
  <2> HIDE DEF whole
  <2> DEFINE shut == cut < Len(whole) \/ framing = "eof"
  <2>7. shut \in BOOLEAN
    BY Zenon
  <2> HIDE DEF shut
  <2>8. conn' = [wire |-> SubSeq(whole, 1, cut), closed |-> shut]
    BY <2>4 DEF shut
  <2>9. conn' \in Connections /\ conn'.wire = SubSeq(whole, 1, cut)
    BY <2>6, <2>7, <2>8 DEF Connections
  <2>10. \E q \in 0 .. 1, g \in Heads(call'.id) : Carries(q, g, got', conn'.wire)
    BY <2>1, <2>2, <2>5, <2>6, <2>9
  <2>11. QED BY <1>0, <2>1, <2>2, <2>9, <2>10 DEF ResponseInv
<1>5. CASE ServerClosesIdle
  BY <1>5, SameBytes DEF ServerClosesIdle, ResponseInv
<1>6. CASE Read
  <2>1. call.pc = "read" /\ call.id \in 1 .. MaxRequests /\ conn.wire \in Seq(Tokens)
    BY <1>0, <1>6 DEF Read, ResponseInv, Connections
  <2>2. CASE Fail /\ UNCHANGED <<got, conn>>
    <3>1. call' \in CallState /\ call'.pc = "done" /\ call'.result = "error" /\ call'.id \in 1 .. MaxRequests
      BY <2>1, <2>2, Failing
    <3>2. QED BY <2>2, <3>1, ResponseStill
  <2>3. ASSUME NEW n \in 1 .. Len(conn.wire), UNCHANGED call,
               got' = got \o SubSeq(conn.wire, 1, n),
               conn' = [conn EXCEPT !.wire = SubSeq(@, n + 1, Len(@))]
        PROVE  ResponseInv'
    <3>1. PICK k \in 0 .. 1, h \in Heads(call.id) : Carries(k, h, got, conn.wire)
      BY <2>1 DEF ResponseInv
    <3>2. conn' = [conn EXCEPT !.wire = SubSeq(conn.wire, n + 1, Len(conn.wire))]
      BY <1>0, <2>3 DEF Connections
    <3>3. /\ got' \in Seq(Tokens) /\ SubSeq(conn.wire, n + 1, Len(conn.wire)) \in Seq(Tokens)
          /\ Carries(k, h, got', SubSeq(conn.wire, n + 1, Len(conn.wire)))
      BY Zenon, <1>0, <2>1, <2>3, <3>1, ReadMoves
    <3>4. conn' \in Connections /\ conn'.wire = SubSeq(conn.wire, n + 1, Len(conn.wire))
      BY Zenon, <1>0, <3>2, <3>3 DEF Connections
    <3>5. \E q \in 0 .. 1, g \in Heads(call'.id) : Carries(q, g, got', conn'.wire)
      BY <2>3, <3>3, <3>4
    <3>6. QED BY Zenon, <1>0, <2>1, <2>3, <3>3, <3>4, <3>5 DEF ResponseInv
  <2>4. QED BY Zenon, <1>6, <2>2, <2>3 DEF Read
<1>7. CASE RefuseLong
  <2>1. call' \in CallState /\ call'.pc = "done" /\ call'.result = "error" /\ call'.id \in 1 .. MaxRequests
    BY <1>7, Failing DEF RefuseLong
  <2>2. QED BY <1>7, <2>1, ResponseStill DEF RefuseLong
<1>8. CASE Follow
  <2>1. call.pc = "read" /\ call.id \in 1 .. MaxRequests /\ UNCHANGED <<conn, got>> /\ TheHead.target # NoTarget
    BY <1>8 DEF Follow, ResponseInv, Redirects
  <2>2. CASE Fail
    <3>1. call' \in CallState /\ call'.pc = "done" /\ call'.result = "error" /\ call'.id \in 1 .. MaxRequests
      BY <2>1, <2>2, Failing
    <3>2. QED BY <2>1, <3>1, ResponseStill
  <2>3. CASE call' = [call EXCEPT !.pc = "open", !.hops = @ + 1, !.origin = TheHead.target]
    <3>1. TheHead \in Heads(call.id)
      BY <1>8, InHand DEF Follow
    <3>2. TheHead.target \in Origin
      BY <2>1, <3>1 DEF Heads
    <3>3. call.hops + 1 \in Nat
      BY <1>0 DEF CallState
    <3>4. ASSUME NEW n \in Nat, NEW o \in Origin, call' = [call EXCEPT !.pc = "open", !.hops = n, !.origin = o]
          PROVE  call' \in CallState /\ call'.pc = "open" /\ call'.id = call.id
      BY ZenonT(30), <1>0, <3>4 DEF CallState
    <3>5. call' \in CallState /\ call'.pc = "open" /\ call'.id = call.id
      BY Zenon, <2>3, <3>2, <3>3, <3>4
    <3>6. QED BY <2>1, <3>5, ResponseStill
  <2>4. QED BY <1>8, <2>2, <2>3 DEF Follow
<1>9. CASE ReturnResponse
  <2>1. call.pc = "read" /\ call.id \in 1 .. MaxRequests /\ UNCHANGED <<conn, got>> /\ Complete /\ ~TooLong
    BY <1>9 DEF ReturnResponse, ResponseInv
  <2>2. call' \in CallState /\ call'.pc = "done" /\ call'.result = "ok" /\ call'.id = call.id
    BY ZenonT(30), <1>0, <1>9, <2>1 DEF ReturnResponse, CallState
  <2>3. Complete' /\ ~TooLong'
    BY <2>1, SameBytes
  <2>4. \E k \in 0 .. 1, h \in Heads(call'.id) : Carries(k, h, got', conn'.wire)
    BY <2>1, <2>2 DEF ResponseInv
  <2>5. QED BY <1>0, <2>1, <2>2, <2>3, <2>4 DEF ResponseInv
<1>10. CASE UNCHANGED http_vars
  BY <1>10, SameBytes DEF http_vars, ResponseInv
<1>11. QED BY SMTT(30), <1>1, <1>2, <1>3, <1>4, <1>5, <1>6, <1>7, <1>8, <1>9, <1>10 DEF HttpNext

\* The pool after a connection went back to it.
LEMMA Returned ==
  ASSUME PoolInv, reusable => conn \in Idlers, NEW o \in Origin, pool' = http_pool_return(o)
  PROVE  PoolInv'
<1> DEFINE streams == IF o \in DOMAIN pool THEN pool[o] ELSE <<>>
           longer == IF Len(streams) < MaxPerOrigin THEN Append(streams, conn) ELSE streams
<1>1. CASE ~(reusable /\ (Cardinality(DOMAIN pool) < MaxOrigins \/ o \in DOMAIN pool))
  BY <1>1 DEF http_pool_return, PoolInv
<1>2. CASE reusable /\ (Cardinality(DOMAIN pool) < MaxOrigins \/ o \in DOMAIN pool)
  <2>1. pool' = [x \in DOMAIN pool \union {o} |-> IF x # o THEN pool[x] ELSE longer]
    BY <1>2 DEF http_pool_return
  <2>2. streams \in Seq(Idlers) /\ Len(streams) <= MaxPerOrigin /\ MaxPerOrigin \in Nat /\ MaxOrigins \in Nat
    BY HttpAssumption DEF PoolInv
  <2> HIDE DEF streams
  <2>3. longer \in Seq(Idlers) /\ Len(longer) <= MaxPerOrigin
    BY <1>2, <2>2
  <2> HIDE DEF longer
  <2>4. DOMAIN pool' = DOMAIN pool \union {o}
    BY <2>1
  <2>5. \A x \in DOMAIN pool' : pool'[x] \in Seq(Idlers) /\ Len(pool'[x]) <= MaxPerOrigin
    BY <2>1, <2>3, <2>4 DEF PoolInv
  <2>6. pool' \in [DOMAIN pool' -> Seq(Idlers)]
    BY Zenon, <2>1, <2>4, <2>5
  <2>7. IsFiniteSet(DOMAIN pool) /\ Cardinality(DOMAIN pool) \in Nat /\ Cardinality(DOMAIN pool) <= MaxOrigins
    BY FS_CardinalityType DEF PoolInv
  <2>8. IsFiniteSet(DOMAIN pool') /\ Cardinality(DOMAIN pool') <= MaxOrigins
    <3>1. CASE o \in DOMAIN pool
      <4>1. DOMAIN pool' = DOMAIN pool
        BY <2>4, <3>1
      <4>2. QED BY <2>7, <4>1
    <3>2. CASE o \notin DOMAIN pool
      <4>1. Cardinality(DOMAIN pool) < MaxOrigins
        BY SMTT(30), <1>2, <3>2
      <4>2. IsFiniteSet(DOMAIN pool \union {o}) /\ Cardinality(DOMAIN pool \union {o}) = Cardinality(DOMAIN pool) + 1
        BY <2>7, <3>2, FS_AddElement
      <4>3. QED BY <2>2, <2>4, <2>7, <4>1, <4>2
    <3>3. QED BY <3>1, <3>2
  <2>9. DOMAIN pool' \subseteq Origin
    BY <2>4 DEF PoolInv
  <2>10. QED BY <2>5, <2>6, <2>8, <2>9 DEF PoolInv
<1>3. QED BY <1>1, <1>2

\* One origin's connections are replaced by as many or fewer.
LEMMA OriginSet ==
  ASSUME PoolInv, NEW o \in DOMAIN pool, NEW s \in Seq(Idlers), Len(s) <= Len(pool[o]),
         pool' = [pool EXCEPT ![o] = s]
  PROVE  PoolInv'
<1>1. pool \in [DOMAIN pool -> Seq(Idlers)] /\ Len(pool[o]) \in Nat /\ Len(s) \in Nat
  BY DEF PoolInv
<1>2. DOMAIN pool' = DOMAIN pool /\ pool' \in [DOMAIN pool -> Seq(Idlers)]
  BY <1>1
<1>3. \A x \in DOMAIN pool : pool'[x] = IF x = o THEN s ELSE pool[x]
  BY <1>1
<1>4. Len(s) <= MaxPerOrigin
  BY <1>1, HttpAssumption DEF PoolInv
<1>5. \A x \in DOMAIN pool' : Len(pool'[x]) <= MaxPerOrigin
  BY SMTT(30), <1>2, <1>3, <1>4 DEF PoolInv
<1>6. QED BY <1>2, <1>5 DEF PoolInv

\* Every step keeps the pool clean and within its bounds.
LEMMA PoolSteps == ResponseInv /\ PoolInv /\ [HttpNext]_http_vars => PoolInv'
<1> SUFFICES ASSUME ResponseInv, PoolInv, [HttpNext]_http_vars PROVE PoolInv'
  OBVIOUS
<1>0. call.origin \in Origin
  BY DEF ResponseInv, CallState
<1>1. CASE UNCHANGED pool
  BY <1>1 DEF PoolInv
<1>2. CASE OpenConnection
  <2> DEFINE o == call.origin
             idle == IF o \in DOMAIN pool THEN pool[o] ELSE <<>>
  <2>1. CASE idle # <<>>
    <3>1. o \in DOMAIN pool /\ pool[o] \in Seq(Idlers) /\ pool[o] # <<>>
      BY <2>1 DEF PoolInv
    <3>2. pool' = [pool EXCEPT ![o] = SubSeq(pool[o], 1, Len(pool[o]) - 1)]
      BY <1>2, <2>1 DEF OpenConnection
    <3>3. SubSeq(pool[o], 1, Len(pool[o]) - 1) \in Seq(Idlers) /\ Len(SubSeq(pool[o], 1, Len(pool[o]) - 1)) <= Len(pool[o])
      BY <3>1
    <3>4. QED BY Zenon, <3>1, <3>2, <3>3, OriginSet
  <2>2. CASE idle = <<>>
    BY <1>1, <1>2, <2>2 DEF OpenConnection
  <2>3. QED BY <2>1, <2>2
<1>3. CASE ServerClosesIdle
  <2>0. PICK o \in DOMAIN pool : \E i \in DOMAIN pool[o] : pool' = [pool EXCEPT ![o][i].closed = TRUE]
    BY Zenon, <1>3 DEF ServerClosesIdle
  <2>1. PICK i \in DOMAIN pool[o] : pool' = [pool EXCEPT ![o][i].closed = TRUE]
    BY Zenon, <2>0
  <2> DEFINE c == [pool[o][i] EXCEPT !.closed = TRUE]
             s == [pool[o] EXCEPT ![i] = c]
  <2>2. pool[o] \in Seq(Idlers)
    BY DEF PoolInv
  <2>3. pool[o][i] \in Idlers
    BY <2>2
  <2>4. c \in Idlers
    BY Zenon, <2>3 DEF Idlers
  <2>5. pool' = [pool EXCEPT ![o] = s]
    BY <2>1
  <2> HIDE DEF c
  <2>6. s \in Seq(Idlers) /\ Len(s) = Len(pool[o])
    BY <2>2, <2>4, ExceptSeq
  <2> HIDE DEF s
  <2>7. Len(s) <= Len(pool[o])
    BY <2>2, <2>6
  <2>8. QED BY Zenon, <2>5, <2>6, <2>7, OriginSet
<1>4. CASE Follow
  BY <1>0, <1>4, InHand, Returned DEF Follow
<1>5. CASE ReturnResponse
  BY SMTT(30), <1>0, <1>5, InHand, Returned DEF ReturnResponse
<1>6. QED BY SMTT(30), <1>1, <1>2, <1>3, <1>4, <1>5
        DEF HttpNext, http_vars, Request, SendRequest, ServerAnswers, Read, RefuseLong

\* A step that sends nothing, to a request that is no further than before.
LEMMA SendStill ==
  ASSUME SendInv, UNCHANGED <<sends, route>>, call'.id = call.id, call'.hops = call.hops, call'.origin = call.origin,
         call'.bare = call.bare, call'.pc \in {"open", "send"} => call.pc \in {"open", "send"}
  PROVE  SendInv'
  BY DEF SendInv, StaysSecure

\* Every step keeps the count of what was sent and the secure origins of the route.
LEMMA SendSteps == ResponseInv /\ SendInv /\ [HttpNext]_http_vars => SendInv'
<1> SUFFICES ASSUME ResponseInv, SendInv, [HttpNext]_http_vars PROVE SendInv'
  OBVIOUS
<1>0. call \in CallState /\ MaxRequests \in Nat /\ call.id \in 0 .. MaxRequests /\ call.hops \in Nat
      /\ sends \in [1 .. MaxRequests -> Nat] /\ route \in Seq(Origin)
  BY HttpAssumption DEF ResponseInv, SendInv, CallState
<1>1. ASSUME NEW o \in Origin, NEW bare \in BOOLEAN, Request(o, bare) PROVE SendInv'
  <2>1. /\ call'.id = call.id + 1 /\ call'.hops = 0 /\ call'.id \in 1 .. MaxRequests
        /\ sends' = sends /\ route' = <<>>
    BY SMTT(30), <1>0, <1>1 DEF Request
  <2>2. \A i \in 1 .. MaxRequests : i >= call'.id => sends[i] = 0
    BY <1>0, <2>1 DEF SendInv
  <2>3. route' \in Seq(Origin) /\ DOMAIN route' = {}
    BY <2>1
  <2>4. sends'[call'.id] = 0
    BY <1>0, <2>1, <2>2
  <2>5. \A i \in 1 .. MaxRequests : i > call'.id => sends'[i] = 0
    BY <1>0, <2>1, <2>2
  <2>6. QED BY SMTT(30), <1>0, <2>1, <2>3, <2>4, <2>5 DEF SendInv, StaysSecure
<1>2. CASE OpenConnection
  <2>1. call.pc = "open" /\ UNCHANGED <<sends, route>>
    BY <1>2 DEF OpenConnection
  <2>2. CASE call' = [call EXCEPT !.pc = "send"]
    BY SMTT(30), <1>0, <2>1, <2>2, SendStill DEF CallState
  <2>3. CASE Fail
    BY SMTT(30), <2>1, <2>3, Failing, SendStill
  <2>4. QED BY <1>2, <2>2, <2>3 DEF OpenConnection
<1>3. CASE SendRequest
  <2>1. call.pc = "send" /\ call.id \in 1 .. MaxRequests /\ call.origin \in Origin
    BY <1>3 DEF SendRequest, ResponseInv, CallState
  <2>2. /\ call'.id = call.id /\ call'.hops = call.hops /\ call'.origin = call.origin /\ call'.bare = call.bare
        /\ call'.pc \notin {"open", "send"}
    <3>1. CASE Fail
      BY <2>1, <3>1, Failing
    <3>2. ASSUME NEW p \in {"read", "server"}, call' = [call EXCEPT !.pc = p]
          PROVE  /\ call'.id = call.id /\ call'.hops = call.hops /\ call'.origin = call.origin /\ call'.bare = call.bare
                 /\ call'.pc \notin {"open", "send"}
      BY <1>0, <3>2 DEF CallState
    <3>3. QED BY <1>3, <3>1, <3>2 DEF SendRequest
  <2>3. sends' = [sends EXCEPT ![call.id] = sends[call.id] + 1] /\ sends[call.id] <= call.hops /\ sends[call.id] \in Nat
    BY <1>0, <1>3, <2>1 DEF SendRequest, SendInv
  <2>4. sends' \in [1 .. MaxRequests -> Nat] /\ sends'[call.id] <= call.hops + 1
    BY SMTT(30), <1>0, <2>1, <2>3
  <2>5. \A i \in 1 .. MaxRequests : i > call.id => sends'[i] = 0
    BY <1>0, <2>1, <2>3 DEF SendInv
  <2>6. /\ route' \in Seq(Origin) /\ Len(route') = Len(route) + 1 /\ route'[Len(route) + 1] = call.origin
        /\ \A i \in 1 .. Len(route) : route'[i] = route[i]
        /\ DOMAIN route' = 1 .. (Len(route) + 1) /\ DOMAIN route = 1 .. Len(route) /\ Len(route) \in Nat
    BY SMTT(30), <1>0, <1>3, <2>1 DEF SendRequest
  <2>7. \A i \in 1 .. Len(route) : route[i] \in Secure => call.origin \in Secure
    BY <2>6 DEF SendInv
  <2>8. (\E i \in DOMAIN route' : route'[i] \in Secure) => call.origin \in Secure
    <3>1. ASSUME NEW i \in DOMAIN route', route'[i] \in Secure PROVE call.origin \in Secure
      <4>1. i \in 1 .. Len(route) \/ i = Len(route) + 1
        BY <2>6
      <4>2. QED BY SMTT(30), <2>6, <2>7, <3>1, <4>1
    <3>2. QED BY SMTT(30), <3>1
  <2>9. ASSUME NEW i \in DOMAIN route', NEW j \in DOMAIN route', i < j, route'[i] \in Secure
        PROVE  route'[j] \in Secure
    <3>1. i \in 1 .. Len(route)
      BY <2>6, <2>9
    <3>2. CASE j = Len(route) + 1
      BY SMTT(30), <2>6, <2>7, <2>9, <3>1, <3>2
    <3>3. CASE j \in 1 .. Len(route)
      BY <2>6, <2>9, <3>1, <3>3 DEF SendInv, StaysSecure
    <3>4. QED BY <2>6, <3>2, <3>3
  <2>10. StaysSecure'
    BY <2>9 DEF StaysSecure
  <2>11. call.bare \/ call.hops = 0
    BY DEF SendInv
  <2>12. QED BY SMTT(30), <2>2, <2>4, <2>5, <2>6, <2>8, <2>10, <2>11 DEF SendInv
<1>4. CASE ServerAnswers
  <2>1. call' = [call EXCEPT !.pc = "read"] /\ UNCHANGED <<sends, route>>
    BY <1>4 DEF ServerAnswers
  <2>2. QED BY <1>0, <2>1, SendStill DEF CallState
<1>5. CASE ServerClosesIdle
  BY <1>5, SendStill DEF ServerClosesIdle
<1>6. CASE Read
  BY <1>6, Failing, SendStill DEF Read
<1>7. CASE RefuseLong
  BY <1>7, Failing, SendStill DEF RefuseLong
<1>8. CASE Follow
  <2>1. call.pc = "read" /\ call.id \in 1 .. MaxRequests /\ UNCHANGED <<sends, route>> /\ call.bare
    BY <1>8 DEF Follow, ResponseInv, Redirects
  <2>2. CASE Fail
    BY SMTT(30), <2>1, <2>2, Failing, SendStill
  <2>3. CASE ~Downgrades /\ call' = [call EXCEPT !.pc = "open", !.hops = @ + 1, !.origin = TheHead.target]
    <3>1. call'.id = call.id /\ call'.hops = call.hops + 1 /\ call'.origin = TheHead.target /\ call'.bare = call.bare
      BY <1>0, <2>3 DEF CallState
    <3>2. sends'[call'.id] <= call'.hops
      BY <1>0, <2>1, <3>1 DEF SendInv
    <3>3. (\E i \in DOMAIN route : route[i] \in Secure) => TheHead.target \in Secure
      BY <2>3 DEF SendInv, Downgrades
    <3>4. sends[call.id] <= (call.hops + 1) + 1
      BY <1>0, <2>1 DEF SendInv
    <3>5. QED BY <1>0, <2>1, <3>1, <3>2, <3>3, <3>4 DEF SendInv, StaysSecure
  <2>4. QED BY <1>8, <2>2, <2>3 DEF Follow
<1>9. CASE ReturnResponse
  <2>1. call' = [call EXCEPT !.pc = "done", !.result = "ok"] /\ UNCHANGED <<sends, route>>
    BY <1>9 DEF ReturnResponse
  <2>2. QED BY <1>0, <2>1, SendStill DEF CallState
<1>10. CASE UNCHANGED http_vars
  BY <1>10, SendStill DEF http_vars
<1>11. QED BY SMTT(30), <1>1, <1>2, <1>3, <1>4, <1>5, <1>6, <1>7, <1>8, <1>9, <1>10 DEF HttpNext

HttpInv == ResponseInv /\ PoolInv /\ SendInv

\* No request has been made when the program starts.
LEMMA HttpStarts == HttpInit => HttpInv
<1> SUFFICES ASSUME HttpInit PROVE HttpInv
  OBVIOUS
<1>1. call.pc = "idle" /\ call.id = 0 /\ call.hops = 0 /\ call \in CallState
  <2>1. call \in [id : {0}, origin : Origin, bare : {TRUE}, hops : {0}, pc : {"idle"}, result : {"none"}]
    BY Zenon DEF HttpInit
  <2>2. 0 \in 0 .. MaxRequests /\ 0 \in Nat
    BY HttpAssumption
  <2>3. QED BY Zenon, <2>1, <2>2 DEF CallState
<1>2. ResponseInv
  BY <1>1, Clean DEF HttpInit, ResponseInv
<1>3. PoolInv
  <2>1. DOMAIN pool = {} /\ pool \in [DOMAIN pool -> Seq(Idlers)]
    BY DEF HttpInit
  <2>2. QED BY <2>1, FS_EmptySet, HttpAssumption DEF PoolInv
<1>4. SendInv
  <2>1. DOMAIN route = {} /\ route \in Seq(Origin)
    BY DEF HttpInit
  <2>2. sends \in [1 .. MaxRequests -> Nat] /\ \A i \in 1 .. MaxRequests : sends[i] = 0
    BY DEF HttpInit
  <2>3. QED BY <1>1, <2>1, <2>2 DEF SendInv, StaysSecure
<1>5. QED BY <1>2, <1>3, <1>4 DEF HttpInv

\* Every step keeps the invariant.
LEMMA HttpSteps == HttpInv /\ [HttpNext]_http_vars => HttpInv'
  BY ResponseSteps, PoolSteps, SendSteps DEF HttpInv

(* A response handed to the program is its own, whole and within the limit, and the pool    *)
(* holds only clean connections, within its bounds: for every server and every way its      *)
(* bytes arrive.                                                                            *)
THEOREM HttpAnswers == HttpSpec => []AnswersOwn
<1>1. HttpInv => AnswersOwn
  BY ResponseSound DEF HttpInv
<1>2. QED BY <1>1, HttpStarts, HttpSteps, PTL DEF HttpSpec

(* Redirects repeat nothing that has a body, and never leave the secure origins.            *)
THEOREM HttpRedirects == HttpSpec => []RedirectsSound
<1>1. HttpInv => RedirectsSound
  <2> SUFFICES ASSUME HttpInv PROVE RedirectsSound
    OBVIOUS
  <2>1. StaysSecure /\ (call.id > 0 => sends[call.id] <= call.hops + 1) /\ (~call.bare => call.hops = 0)
    BY DEF HttpInv, SendInv
  <2>2. call.id > 0 /\ ~call.bare => sends[call.id] <= 1
    BY <2>1
  <2>3. QED BY <2>1, <2>2 DEF RedirectsSound, SentOncePerHop
<1>2. QED BY <1>1, HttpStarts, HttpSteps, PTL DEF HttpSpec
=============================================================================
