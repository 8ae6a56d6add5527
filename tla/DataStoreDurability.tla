------------------------ MODULE DataStoreDurability ------------------------
(***************************************************************************)
(* The durable store survives crashes and power losses, for every set of   *)
(* handles and every number of pages and generations.  The argument: every *)
(* directory state that a power loss may leave either holds a log that,    *)
(* laid over any mixture of old and new pages, gives the one image it was  *)
(* written for, or holds no log and a page file that is whole and synced.  *)
(***************************************************************************)
EXTENDS DataStoreProofs

\* the image a log was written for
TargetImage(w) == Encode(w.recs[0].value, w.gen)

\* the log is whole: its records are pages of that image, the header included
GoodWal(w) ==
  /\ w.synced
  /\ w.recs[0] \in Header
  /\ w.recs[0].gen = w.gen
  /\ w.count = Len(w.recs[0].value) + 1
  /\ \A i \in PageIds : w.recs[i] \in {NoPage, TargetImage(w)[i]}

\* the pages the log leaves out are already in the file
Rest(w, img) ==
  \A i \in PageIds : i < w.count /\ w.recs[i] = NoPage => img[i] = TargetImage(w)[i]

\* a directory state from which opening the store succeeds, when the page file
\* is m and was dm when last synced
Sound(d, m, dm) ==
  /\ d.wal # NoWal =>
       /\ GoodWal(d.wal)
       /\ d.file => Rest(d.wal, m) /\ Rest(d.wal, dm)
       /\ ~d.file => Rest(d.wal, NoImage)
  /\ d.wal = NoWal /\ d.file => Decodes(m) /\ m = dm

DirInv ==
  /\ dir \in dirs
  /\ \A d \in dirs : Sound(d, main, dmain)
  /\ ~dir.file => main = NoImage /\ dmain = NoImage /\ \A d \in dirs : ~d.file

\* the log of a handle and the log on disk
SameLog(w, x) == w.gen = x.gen /\ w.count = x.count /\ w.recs = x.recs

\* a checkpoint that has begun to write
Writing(s) == pc[s] \in {"writing", "sync", "unlink"} \/ (pc[s] = "write" /\ next[s] # 0)

StepAt(s) ==
  /\ pc[s] \in {"syncdir"} \cup InApply => dir.wal # NoWal /\ SameLog(log[s], dir.wal)
  /\ pc[s] \in {"synctmp", "rename"} => log[s] = EncodeWal(main, mem[s], Generation(main) + 1)
  /\ pc[s] \in {"write", "writing", "sync", "unlink", "unbackup"} => dir.file
  /\ Writing(s) => dirs = {dir}
  /\ pc[s] \in {"write", "writing"} =>
       \A i \in PageIds : i < next[s] /\ log[s].recs[i] # NoPage => main[i] = log[s].recs[i]
  /\ pc[s] \in {"sync", "unlink"} => main = TargetImage(log[s])
  /\ pc[s] = "unlink" => dmain = main

DiskInv == DirInv /\ \A s \in Store : StepAt(s)

-----------------------------------------------------------------------------
(* What recovery computes *)

\* An encoded snapshot decodes to itself, with its generation.
LEMMA EncodeDecodes ==
  ASSUME NEW v \in Value, NEW g \in 0..MaxGen
  PROVE  /\ Decodes(Encode(v, g))
         /\ Encode(v, g)[0] = [gen |-> g, value |-> v]
         /\ Generation(Encode(v, g)) = g
<1>1. 0 \in PageIds
  BY ConstantsAssumption DEF PageIds
<1>2. Encode(v, g)[0] = [gen |-> g, value |-> v]
  BY <1>1 DEF Encode
<1>3. Encode(v, g)[0] \in Header
  BY <1>2 DEF Header
<1> QED
  BY <1>1, <1>2, <1>3 DEF Decodes, Encode, Generation

\* The pages of an encoded snapshot are the header, one page per payload page,
\* and nothing behind them.
LEMMA EncodePages ==
  ASSUME NEW v \in Value, NEW g \in 0..MaxGen, NEW i \in PageIds
  PROVE  /\ i < Len(v) + 1 => Encode(v, g)[i] # NoPage
         /\ i >= Len(v) + 1 => Encode(v, g)[i] = NoPage
<1>1. Len(v) \in 1..MaxData /\ DOMAIN v = 1..Len(v) /\ \A j \in 1..Len(v) : v[j] \in Cell
  BY ValueFacts
<1>2. CASE i = 0
  <2>1. Encode(v, g)[i] \in Header
    BY <1>2 DEF Encode, Header
  <2> QED
    BY <1>1, <1>2, <2>1, ConstantsAssumption
<1>3. CASE i # 0 /\ i < Len(v) + 1
  <2>1. i \in 1..Len(v)
    BY <1>1, <1>3, ConstantsAssumption DEF PageIds
  <2>2. Encode(v, g)[i] \in Body
    BY <1>1, <1>3, <2>1 DEF Encode, DataPage, Body
  <2> QED
    BY <1>1, <1>3, <2>2, ConstantsAssumption DEF PageIds
<1>4. CASE i >= Len(v) + 1
  <2>1. i # 0 /\ i \notin 1..Len(v)
    BY <1>1, <1>4, ConstantsAssumption DEF PageIds
  <2>2. Encode(v, g)[i] = NoPage
    BY <1>1, <2>1 DEF Encode, DataPage
  <2> QED
    BY <1>1, <1>4, <2>2, ConstantsAssumption DEF PageIds
<1> QED
  BY <1>1, <1>2, <1>3, <1>4, ConstantsAssumption DEF PageIds

\* Laid over a file that holds the pages it leaves out, a whole log gives the
\* image it was written for: apply_wal accepts it.
LEMMA WalGivesTarget ==
  ASSUME NEW w \in Wal, GoodWal(w), NEW img, Rest(w, img)
  PROVE  /\ Committed(w, img) = TargetImage(w)
         /\ WalApplies(w, img)
         /\ Committed(w, img)[0] = w.recs[0]
<1>1. w.recs[0].value \in Value /\ w.gen \in 0..MaxGen /\ w.recs[0] = [gen |-> w.gen, value |-> w.recs[0].value]
  BY ConstantsAssumption DEF GoodWal, Wal, Header
<1>2. ASSUME NEW i \in PageIds PROVE Committed(w, img)[i] = TargetImage(w)[i]
  BY <1>1, <1>2, EncodePages DEF Committed, TargetImage, GoodWal, Rest, PageIds
<1>3. Committed(w, img) = TargetImage(w)
  BY <1>2 DEF Committed, TargetImage, Encode
<1>4. w.recs[0] # NoPage
  BY ConstantsAssumption DEF GoodWal
<1> QED
  BY <1>1, <1>3, <1>4, EncodeDecodes DEF WalApplies, TargetImage

\* The snapshot a whole log commits is in its header record, whatever the file.
LEMMA HeaderRecord ==
  ASSUME NEW w \in Wal, GoodWal(w), NEW img
  PROVE  w.recs[0] # NoPage /\ Committed(w, img)[0] = w.recs[0]
<1>1. 0 \in PageIds
  BY ConstantsAssumption DEF PageIds
<1>2. w.count \in 2..(MaxData + 1)
  BY DEF Wal
<1>3. ~(0 >= w.count)
  BY <1>2, ConstantsAssumption
<1>4. w.recs[0] # NoPage
  BY ConstantsAssumption DEF GoodWal
<1> QED
  BY <1>1, <1>3, <1>4 DEF Committed

\* Whatever mixture of synced and unsynced pages a power loss leaves, opening
\* from a sound directory state succeeds and reads what it would have read
\* without the loss.
LEMMA SoundSurvives ==
  ASSUME TypeOK, NEW d \in dirs, Sound(d, main, dmain), NEW img \in Survivors(d)
  PROVE  /\ Settled(d) = d
         /\ Opens(d, img)
         /\ Recovered(d, img) = Recovered(d, main)
         /\ Sound(d, img, img)
         /\ ~d.file => img = NoImage
<1>1. d \in Dir
  BY DEF TypeOK
<1>2. ~d.file => img = NoImage
  BY DEF Survivors
<1>3. d.file => \A i \in PageIds : main[i] = dmain[i] => img[i] = main[i]
  BY DEF Survivors
<1>4. CASE d.wal # NoWal
  <2>1. d.wal \in Wal /\ GoodWal(d.wal)
    BY <1>1, <1>4 DEF Dir, Sound
  <2>2. Settled(d) = d
    BY <1>1, <2>1, <1>4 DEF Settled, Dir, Wal, GoodWal
  <2>3. Rest(d.wal, img)
    <3>1. CASE d.file
      BY <1>3, <1>4, <3>1 DEF Sound, Rest
    <3>2. CASE ~d.file
      BY <1>2, <1>4, <3>2 DEF Sound
    <3> QED
      BY <3>1, <3>2
  <2>4. WalApplies(d.wal, img) /\ Committed(d.wal, img)[0] = d.wal.recs[0]
    BY <2>1, <2>3, WalGivesTarget
  <2>5. Committed(d.wal, main)[0] = d.wal.recs[0]
    BY <2>1, HeaderRecord
  <2>6. Sound(d, img, img)
    BY <1>2, <1>4, <2>1, <2>3 DEF Sound
  <2> QED
    BY <1>2, <1>4, <2>2, <2>4, <2>5, <2>6 DEF Opens, Recovered
<1>5. CASE d.wal = NoWal
  <2>1. Settled(d) = d
    BY <1>5 DEF Settled
  <2>2. CASE d.file
    <3>1. main \in [PageIds -> Page] /\ main = dmain /\ Decodes(main)
      BY <1>5, <2>2 DEF TypeOK, Image, Sound
    <3>2. DOMAIN img = PageIds /\ img = [i \in PageIds |-> img[i]]
      BY <2>2 DEF Survivors
    <3>3. img = main
      BY <1>3, <2>2, <3>1, <3>2
    <3> QED
      BY <1>5, <2>1, <2>2, <3>1, <3>3 DEF Opens, Recovered, Sound
  <2>3. CASE ~d.file
    BY <1>2, <1>5, <2>1, <2>3 DEF Opens, Recovered, Sound
  <2> QED
    BY <2>2, <2>3
<1> QED
  BY <1>4, <1>5

\* Every state in which the directory is sound is one the store survives.
LEMMA DirInvSuffices == TypeOK /\ DirInv => NeverTorn
  BY SoundSurvives DEF DirInv, NeverTorn

-----------------------------------------------------------------------------
(* Every step keeps the directory states sound *)

\* The initial file and directory are sound.
LEMMA DiskInit == Init => DiskInv
<1> SUFFICES ASSUME Init PROVE DiskInv
  OBVIOUS
<1>1. \A s \in Store : StepAt(s)
  BY Zenon DEF Init, StepAt, Writing, InApply
<1>2. CASE main = NoImage /\ dir \in [file : {FALSE}, wal : {NoWal}, backup : Value \cup {NoValue}]
  <2>1. dir.file = FALSE /\ dir.wal = NoWal
    BY Zenon, <1>2
  <2> QED
    BY <1>1, <1>2, <2>1 DEF Init, DiskInv, DirInv, Sound
<1>3. CASE /\ main \in {Encode(v, 0) : v \in Value}
           /\ dir = [file |-> TRUE, wal |-> NoWal, backup |-> NoValue]
  <2>1. PICK v \in Value : main = Encode(v, 0)
    BY <1>3
  <2>2. Decodes(main)
    <3>1. 0 \in 0..MaxGen
      BY ConstantsAssumption
    <3> QED
      BY Zenon, <2>1, <3>1, EncodeDecodes
  <2> QED
    BY <1>1, <1>3, <2>2 DEF Init, DiskInv, DirInv, Sound
<1> QED
  BY Zenon, <1>2, <1>3 DEF Init

\* Only one handle is inside an operation, so only its step matters.
LEMMA OneHandle ==
  ASSUME TypeInv, NEW s \in Store, NEW x, pc' = [pc EXCEPT ![s] = x],
         pc[s] # "none" \/ lock = NoStore, StepAt(s)'
  PROVE  \A t \in Store : StepAt(t)'
<1> SUFFICES ASSUME NEW t \in Store, t # s PROVE StepAt(t)'
  OBVIOUS
<1>1. pc[t] = "none"
  BY ConstantsAssumption DEF TypeInv, OnlyHolderActive
<1>2. pc'[t] = "none"
  BY <1>1 DEF TypeInv, TypeOK
<1> QED
  BY <1>2 DEF StepAt, Writing, InApply

\* At the ends of the operations and before their first write nothing is asked
\* of the locals.
LEMMA AtRest ==
  ASSUME NEW s \in Store, pc'[s] \in {"none", "open", "closed", "recover", "snapshot", "prepare"}
  PROVE  StepAt(s)'
  BY DEF StepAt, Writing, InApply

\* The log that commit prepares is whole once synced, and leaves out only pages
\* that the file has.
LEMMA EncodeWalGood ==
  ASSUME NEW old \in Image, NEW v \in Value, NEW g \in 1..MaxGen, Generation(old) # g,
         NEW w \in Wal, SameLog(w, EncodeWal(old, v, g)), w.synced
  PROVE  GoodWal(w) /\ Rest(w, old) /\ w.recs[0].value = v /\ TargetImage(w) = Encode(v, g)
<1>1. w.gen = g /\ w.count = Len(v) + 1 /\ w.recs = WalRecords(old, Encode(v, g))
  BY DEF SameLog, EncodeWal
<1>2. g \in 0..MaxGen /\ 0 \in PageIds
  BY ConstantsAssumption DEF PageIds
<1>3. Encode(v, g)[0] = [gen |-> g, value |-> v]
  BY <1>2, EncodeDecodes
<1>4. old[0] # [gen |-> g, value |-> v]
  BY <1>2 DEF Generation, Header
<1>5. w.recs[0] = [gen |-> g, value |-> v]
  BY <1>1, <1>2, <1>3, <1>4 DEF WalRecords
<1>6. w.recs[0] \in Header /\ w.recs[0].gen = w.gen /\ w.recs[0].value = v
  BY <1>1, <1>2, <1>5 DEF Header
<1>7. TargetImage(w) = Encode(v, g)
  BY <1>1, <1>6 DEF TargetImage
<1>8. \A i \in PageIds : w.recs[i] \in {NoPage, TargetImage(w)[i]}
  BY <1>1, <1>7 DEF WalRecords
<1>9. Rest(w, old)
  <2> SUFFICES ASSUME NEW i \in PageIds, i < w.count, w.recs[i] = NoPage
               PROVE  old[i] = TargetImage(w)[i]
    BY DEF Rest
  <2>1. Encode(v, g)[i] # NoPage
    BY <1>1, <1>2, EncodePages
  <2> QED
    BY <1>1, <1>7, <2>1 DEF WalRecords
<1> QED
  BY <1>1, <1>6, <1>7, <1>8, <1>9 DEF GoodWal

\* The rename of the log: the new directory state is sound because the log was
\* made from the file as it is, and the file is synced when there is no log.
LEMMA RenameDisk ==
  ASSUME TypeInv, DiskInv, NEW s \in Store, Rename(s), TypeInv'
  PROVE  DiskInv'
<1>1. /\ pc[s] = "rename" /\ pc' = [pc EXCEPT ![s] = "syncdir"]
      /\ dir' = [dir EXCEPT !.wal = [log[s] EXCEPT !.synced = tmp[s] = "synced"]]
      /\ dirs' = dirs \cup {dir'} /\ log' = log /\ main' = main /\ dmain' = dmain
  BY DEF Rename, Goto, SetPc, SetDir
<1>2. log[s] \in Wal /\ tmp[s] = "synced" /\ dir.wal = NoWal /\ mem[s] \in Value
  BY <1>1 DEF TypeInv, TypeOK, LocalInv, InApply
<1>3. dir \in Dir /\ main \in Image /\ pc'[s] = "syncdir"
  BY <1>1 DEF TypeInv, TypeOK
<1> DEFINE w == dir'.wal
<1>4. w \in Wal /\ w # NoWal /\ w.synced /\ SameLog(log[s], w) /\ dir'.file = dir.file
  <2>1. w = [log[s] EXCEPT !.synced = TRUE] /\ dir'.file = dir.file
    BY Zenon, <1>1, <1>2, <1>3 DEF Dir
  <2>2. w \in Wal /\ w.synced /\ SameLog(log[s], w)
    BY Zenon, <1>2, <2>1 DEF Wal, SameLog
  <2> QED
    BY Zenon, <2>1, <2>2, ConstantsAssumption
<1>5. log[s] = EncodeWal(main, mem[s], Generation(main) + 1)
  BY <1>1 DEF DiskInv, StepAt
<1>6. Generation(main) + 1 \in 1..MaxGen /\ Generation(main) # Generation(main) + 1
  <2>1. Generation(main) \in 0..MaxGen
    BY ConstantsAssumption DEF Generation, Header
  <2>2. log[s].gen = Generation(main) + 1 /\ log[s].gen \in 1..MaxGen
    BY <1>2, <1>5 DEF EncodeWal, Wal
  <2> QED
    BY <2>1, <2>2, ConstantsAssumption
<1>7. GoodWal(w) /\ Rest(w, main)
  BY <1>2, <1>3, <1>4, <1>5, <1>6, EncodeWalGood DEF SameLog
<1>8. Sound(dir, main, dmain) /\ dir \in dirs
  BY DEF DiskInv, DirInv
<1>9. main = dmain /\ (~dir.file => main = NoImage)
  BY <1>2, <1>8 DEF DiskInv, DirInv, Sound
<1>10. Sound(dir', main, dmain)
  BY <1>4, <1>7, <1>9 DEF Sound
<1>11. DirInv'
  BY Zenon, <1>1, <1>4, <1>10 DEF DiskInv, DirInv
<1>12. StepAt(s)'
  BY <1>1, <1>3, <1>4 DEF StepAt, Writing, InApply
<1> QED
  BY Zenon, <1>1, <1>11, <1>12, OneHandle DEF DiskInv

\* The directory sync, done or not, leaves some of the directory states.
LEMMA SyncDirDisk ==
  ASSUME TypeInv, DiskInv, NEW s \in Store, SyncDir(s)
  PROVE  DiskInv'
<1>1. /\ pc[s] = "syncdir" /\ pc' = [pc EXCEPT ![s] = "apply"]
      /\ dirs' \in {{dir}, dirs} /\ dir' = dir /\ log' = log /\ main' = main /\ dmain' = dmain
  BY DEF SyncDir, Goto, SetPc
<1>2. DirInv'
  BY <1>1 DEF DiskInv, DirInv
<1>3. pc'[s] = "apply"
  BY <1>1, PerHandle
<1>4. StepAt(s)'
  BY <1>1, <1>3 DEF DiskInv, StepAt, Writing, InApply
<1> QED
  BY Zenon, <1>1, <1>2, <1>4, OneHandle DEF DiskInv

\* apply_wal creates the page file when there is none.
LEMMA ApplyDisk ==
  ASSUME TypeInv, DiskInv, NEW s \in Store, Apply(s)
  PROVE  DiskInv'
<1>1. /\ pc[s] = "apply" /\ pc' = [pc EXCEPT ![s] = "write"] /\ next' = [next EXCEPT ![s] = 0]
      /\ dir' = [dir EXCEPT !.file = TRUE] /\ dirs' = dirs \cup {dir'}
      /\ log' = log /\ main' = main /\ dmain' = dmain
  BY DEF Apply, Goto, SetPc, SetDir
<1>2. dir.wal # NoWal /\ SameLog(log[s], dir.wal)
  BY <1>1 DEF DiskInv, StepAt, InApply
<1>3. dir \in Dir /\ dir'.file /\ dir'.wal = dir.wal /\ pc'[s] = "write" /\ next'[s] = 0
  BY <1>1 DEF TypeInv, TypeOK, Dir
<1>4. Sound(dir, main, dmain) /\ (~dir.file => main = NoImage /\ dmain = NoImage)
  BY DEF DiskInv, DirInv
<1>5. Sound(dir', main, dmain)
  BY <1>2, <1>3, <1>4 DEF Sound
<1>6. DirInv'
  BY Zenon, <1>1, <1>3, <1>5 DEF DiskInv, DirInv
<1>7. StepAt(s)'
  BY <1>1, <1>2, <1>3 DEF StepAt, Writing, InApply, PageIds
<1> QED
  BY Zenon, <1>1, <1>6, <1>7, OneHandle DEF DiskInv

\* The pages a checkpoint writes are pages of its log, so the pages the log
\* leaves out stay in the file: Rest survives a write, torn or complete.
LEMMA RestSurvivesWrite ==
  ASSUME NEW w, NEW img, NEW new, Rest(w, img),
         \A i \in PageIds : w.recs[i] = NoPage => new[i] = img[i]
  PROVE  Rest(w, new)
  BY DEF Rest

\* A write to the page file: with ordered metadata the log it belongs to is by
\* now the only one a power loss can find.
LEMMA BeginWriteDisk ==
  ASSUME Ordered, TypeInv, DiskInv, NEW s \in Store, BeginWrite(s)
  PROVE  DiskInv'
<1>1. /\ pc[s] = "write" /\ pc' = [pc EXCEPT ![s] = "writing"]
      /\ dirs' = {dir} /\ dir' = dir /\ log' = log /\ dmain' = dmain
  BY DEF BeginWrite, Goto, SetPc
<1>2. PICK i \in PageIds : /\ IsNext(s, i)
                           /\ next' = [next EXCEPT ![s] = i]
                           /\ main' = [main EXCEPT ![i] = BadPage]
  BY Zenon DEF BeginWrite
<1>3. pc'[s] = "writing" /\ next'[s] = i /\ next[s] \in Nat /\ main \in Image /\ dir \in Dir
  BY <1>1, <1>2 DEF TypeInv, TypeOK
<1>4. log[s].recs[i] # NoPage
  BY <1>2 DEF IsNext, Left
<1>5. dir.wal # NoWal /\ SameLog(log[s], dir.wal) /\ dir.file
  BY <1>1 DEF DiskInv, StepAt, InApply
<1>6. Sound(dir, main, dmain) /\ dir \in dirs
  BY DEF DiskInv, DirInv
<1>7. Rest(dir.wal, main')
  <2>1. \A j \in PageIds : dir.wal.recs[j] = NoPage => main'[j] = main[j]
    BY <1>2, <1>3, <1>4, <1>5 DEF SameLog, Image
  <2> QED
    BY <1>5, <1>6, <2>1, RestSurvivesWrite DEF Sound
<1>8. Sound(dir, main', dmain)
  BY <1>5, <1>6, <1>7 DEF Sound
<1>9. DirInv'
  BY <1>1, <1>5, <1>8 DEF DirInv
<1>10. \A j \in PageIds : j < i /\ log[s].recs[j] # NoPage => main'[j] = log[s].recs[j]
  <2> SUFFICES ASSUME NEW j \in PageIds, j < i, log[s].recs[j] # NoPage
               PROVE  main'[j] = log[s].recs[j]
    OBVIOUS
  <2>1. j < next[s]
    BY <1>2, <1>3, ConstantsAssumption DEF IsNext, Left, PageIds
  <2>2. main[j] = log[s].recs[j]
    BY <1>1, <2>1 DEF DiskInv, StepAt
  <2>3. j # i
    BY ConstantsAssumption DEF PageIds
  <2> QED
    BY <1>2, <1>3, <2>2, <2>3 DEF Image
<1>11. StepAt(s)'
  BY <1>1, <1>3, <1>5, <1>10 DEF StepAt, Writing, InApply
<1> QED
  BY Zenon, <1>1, <1>9, <1>11, OneHandle DEF DiskInv

\* The end of a page write.
LEMMA EndWriteDisk ==
  ASSUME TypeInv, DiskInv, NEW s \in Store, EndWrite(s)
  PROVE  DiskInv'
<1>1. /\ pc[s] = "writing" /\ pc' = [pc EXCEPT ![s] = "write"]
      /\ main' = [main EXCEPT ![next[s]] = log[s].recs[next[s]]]
      /\ next' = [next EXCEPT ![s] = next[s] + 1]
      /\ dirs' = dirs /\ dir' = dir /\ log' = log /\ dmain' = dmain
  BY DEF EndWrite, Goto, SetPc
<1>2. pc'[s] = "write" /\ next'[s] = next[s] + 1 /\ next[s] \in Nat /\ main \in Image
  BY <1>1 DEF TypeInv, TypeOK
<1>3. next[s] \in PageIds /\ log[s].recs[next[s]] # NoPage
  BY <1>1 DEF TypeInv, LocalInv
<1>4. dir.wal # NoWal /\ SameLog(log[s], dir.wal) /\ dir.file /\ dirs = {dir}
  BY <1>1 DEF DiskInv, StepAt, Writing, InApply
<1>5. Sound(dir, main, dmain)
  BY DEF DiskInv, DirInv
<1>6. Rest(dir.wal, main')
  <2>1. \A j \in PageIds : dir.wal.recs[j] = NoPage => main'[j] = main[j]
    BY <1>1, <1>2, <1>3, <1>4 DEF SameLog, Image
  <2> QED
    BY <1>4, <1>5, <2>1, RestSurvivesWrite DEF Sound
<1>7. Sound(dir, main', dmain)
  BY <1>4, <1>5, <1>6 DEF Sound
<1>8. DirInv'
  BY <1>1, <1>4, <1>7 DEF DirInv
<1>9. \A j \in PageIds : j < next[s] + 1 /\ log[s].recs[j] # NoPage => main'[j] = log[s].recs[j]
  <2> SUFFICES ASSUME NEW j \in PageIds, j < next[s] + 1, log[s].recs[j] # NoPage
               PROVE  main'[j] = log[s].recs[j]
    OBVIOUS
  <2>1. CASE j = next[s]
    BY <1>1, <1>2, <2>1 DEF Image
  <2>2. CASE j # next[s]
    <3>1. j < next[s]
      BY <1>2, <2>2, ConstantsAssumption DEF PageIds
    <3>2. main[j] = log[s].recs[j]
      BY <1>1, <3>1 DEF DiskInv, StepAt
    <3> QED
      BY <1>1, <1>2, <2>2, <3>2 DEF Image
  <2> QED
    BY <2>1, <2>2
<1>10. StepAt(s)'
  BY <1>1, <1>2, <1>4, <1>9 DEF StepAt, Writing, InApply
<1> QED
  BY Zenon, <1>1, <1>8, <1>10, OneHandle DEF DiskInv

\* A handle with no record left to write has begun to write.
LEMMA Begun ==
  ASSUME NEW s \in Store, Left(s) = {}, 0 \in PageIds, next[s] \in Nat, log[s].recs[0] # NoPage
  PROVE  next[s] # 0
<1> SUFFICES ASSUME next[s] = 0 PROVE FALSE
  OBVIOUS
<1>1. 0 >= next[s]
  OBVIOUS
<1>2. 0 \in Left(s)
  BY <1>1 DEF Left
<1> QED
  BY <1>2

\* set_len: all records are in place, so the file is now the image of the log.
LEMMA SetLenDisk ==
  ASSUME TypeInv, DiskInv, NEW s \in Store, SetLen(s)
  PROVE  DiskInv'
<1> DEFINE w == log[s]
<1>1. /\ pc[s] = "write" /\ pc' = [pc EXCEPT ![s] = "sync"] /\ Left(s) = {}
      /\ main' = [i \in PageIds |-> IF i >= w.count THEN NoPage
                                    ELSE IF main[i] = NoPage THEN BadPage ELSE main[i]]
      /\ next' = next /\ dirs' = dirs /\ dir' = dir /\ log' = log /\ dmain' = dmain
  BY DEF SetLen, Goto, SetPc
<1>2. pc'[s] = "sync" /\ next[s] \in Nat /\ dir \in Dir
  BY SMTT(30), <1>1 DEF TypeInv, TypeOK
<1>3. w \in Wal /\ dir.wal \in Wal
  <2>1. dir.wal # NoWal
    BY <1>1 DEF DiskInv, StepAt, InApply
  <2> QED
    BY <1>1, <1>2, <2>1 DEF TypeInv, LocalInv, InApply, Dir
<1>4. dir.wal # NoWal /\ SameLog(w, dir.wal) /\ dir.file
  BY <1>1 DEF DiskInv, StepAt, InApply
<1>5. Sound(dir, main, dmain) /\ GoodWal(dir.wal) /\ Rest(dir.wal, main)
  BY <1>4 DEF DiskInv, DirInv, Sound
<1>6. TargetImage(w) = TargetImage(dir.wal)
  BY <1>4 DEF SameLog, TargetImage
<1>7. next[s] # 0 /\ dirs = {dir}
  <2>1. w.recs[0] # NoPage /\ 0 \in PageIds
    BY <1>3, <1>4, <1>5, HeaderRecord, ConstantsAssumption DEF SameLog, PageIds
  <2>2. next[s] # 0
    BY <1>1, <1>2, <2>1, Begun
  <2> QED
    BY <1>1, <2>2 DEF DiskInv, StepAt, Writing
<1>8. w.recs[0].value \in Value /\ w.gen \in 0..MaxGen /\ w.count = Len(w.recs[0].value) + 1
  BY <1>3, <1>4, <1>5, ConstantsAssumption DEF GoodWal, SameLog, Header, Wal
<1>9. \A i \in PageIds : i < w.count => main[i] = TargetImage(w)[i]
  <2> SUFFICES ASSUME NEW i \in PageIds, i < w.count PROVE main[i] = TargetImage(w)[i]
    OBVIOUS
  <2>1. CASE w.recs[i] = NoPage
    BY <1>4, <1>5, <1>6, <2>1 DEF Rest, SameLog
  <2>2. CASE w.recs[i] # NoPage
    <3>1. i < next[s]
      BY <1>1, <1>2, <2>2, ConstantsAssumption DEF Left, PageIds
    <3>2. main[i] = w.recs[i]
      BY <1>1, <2>2, <3>1 DEF DiskInv, StepAt
    <3> QED
      BY <1>4, <1>5, <1>6, <2>2, <3>2 DEF GoodWal, SameLog
  <2> QED
    BY <2>1, <2>2
<1>10. main' = TargetImage(w)
  <2>1. ASSUME NEW i \in PageIds PROVE main'[i] = TargetImage(w)[i]
    <3>1. CASE i >= w.count
      BY <1>1, <1>8, <3>1, EncodePages DEF TargetImage
    <3>2. CASE i < w.count
      <4>1. TargetImage(w)[i] # NoPage
        BY <1>8, <3>2, EncodePages DEF TargetImage
      <4>2. ~(i >= w.count)
        BY <1>3, <3>2, ConstantsAssumption DEF Wal, PageIds
      <4> QED
        BY <1>1, <1>9, <3>2, <4>1, <4>2
    <3> QED
      BY <1>3, <3>1, <3>2, ConstantsAssumption DEF Wal, PageIds
  <2> QED
    BY <1>1, <2>1 DEF TargetImage, Encode
<1>11. Sound(dir, main', dmain)
  BY <1>4, <1>5, <1>6, <1>10 DEF Sound, Rest
<1>12. DirInv'
  BY SMTT(30), <1>1, <1>4, <1>7, <1>11 DEF DirInv
<1>13. StepAt(s)'
  BY <1>1, <1>2, <1>4, <1>7, <1>10 DEF StepAt, Writing, InApply
<1> QED
  BY Zenon, <1>1, <1>12, <1>13, OneHandle DEF DiskInv

\* sync_all of the page file.
LEMMA SyncDisk ==
  ASSUME TypeInv, DiskInv, NEW s \in Store, Sync(s)
  PROVE  DiskInv'
<1>1. /\ pc[s] = "sync" /\ pc' = [pc EXCEPT ![s] = "unlink"]
      /\ dmain' = main /\ main' = main
      /\ dirs' = dirs /\ dir' = dir /\ log' = log
  BY DEF Sync, Goto, SetPc
<1>2. pc'[s] = "unlink"
  BY <1>1, PerHandle
<1>3. dir.wal # NoWal /\ SameLog(log[s], dir.wal) /\ dir.file /\ dirs = {dir} /\ main = TargetImage(log[s])
  BY <1>1 DEF DiskInv, StepAt, Writing, InApply
<1>4. Sound(dir, main, dmain)
  BY DEF DiskInv, DirInv
<1>5. Sound(dir, main, main)
  BY <1>3, <1>4 DEF Sound
<1>6. DirInv'
  BY <1>1, <1>3, <1>5 DEF DirInv
<1>7. StepAt(s)'
  BY <1>1, <1>2, <1>3 DEF StepAt, Writing, InApply
<1> QED
  BY Zenon, <1>1, <1>6, <1>7, OneHandle DEF DiskInv

\* The log is removed when the file is its image and synced.
LEMMA UnlinkDisk ==
  ASSUME TypeInv, DiskInv, NEW s \in Store, Unlink(s), TypeInv'
  PROVE  DiskInv'
<1> DEFINE x == CASE mode[s] = "load" -> "snapshot"
                  [] mode[s] = "commit" -> "prepare"
                  [] mode[s] = "checkpoint" -> "unbackup"
<1>1. /\ pc[s] = "unlink" /\ pc' = [pc EXCEPT ![s] = x]
      /\ dir' = [dir EXCEPT !.wal = NoWal] /\ dirs' = dirs \cup {dir'}
      /\ main' = main /\ dmain' = dmain /\ log' = log
  BY DEF Unlink, SetPc, SetDir
<1>2. dir \in Dir /\ dir'.wal = NoWal /\ dir'.file = dir.file
  BY <1>1 DEF TypeInv, TypeOK, Dir
<1>3. mode[s] \in {"load", "commit", "checkpoint"}
  BY <1>1 DEF TypeInv, TypeOK, LocalInv
<1>4. pc'[s] \in {"snapshot", "prepare", "unbackup"}
  BY <1>1, <1>3 DEF TypeInv, TypeOK
<1>5. /\ dir.wal # NoWal /\ SameLog(log[s], dir.wal) /\ dir.file
      /\ main = TargetImage(log[s]) /\ dmain = main
  BY <1>1 DEF DiskInv, StepAt, Writing, InApply
<1>6. GoodWal(dir.wal) /\ dir.wal \in Wal
  BY <1>2, <1>5 DEF DiskInv, DirInv, Sound, Dir
<1>7. Decodes(main)
  <2>1. dir.wal.recs[0].value \in Value /\ dir.wal.gen \in 0..MaxGen
    BY <1>6, ConstantsAssumption DEF GoodWal, Header, Wal
  <2> QED
    BY Zenon, <1>5, <2>1, EncodeDecodes DEF TargetImage, SameLog
<1>8. Sound(dir', main, dmain)
  BY <1>2, <1>5, <1>7 DEF Sound
<1>9. DirInv'
  BY SMTT(30), <1>1, <1>2, <1>5, <1>8 DEF DiskInv, DirInv
<1>10. StepAt(s)'
  BY <1>2, <1>4, <1>5 DEF StepAt, Writing, InApply
<1> QED
  BY Zenon, <1>1, <1>9, <1>10, OneHandle DEF DiskInv

\* load, once nothing is left to recover: the backup, renamed to the page file,
\* is a whole file of an earlier format.
LEMMA ReadSnapshotDisk ==
  ASSUME TypeInv, DiskInv, NEW s \in Store, ReadSnapshot(s)
  PROVE  DiskInv'
<1>1. pc[s] = "snapshot" /\ pc' = [pc EXCEPT ![s] = "open"]
  BY DEF ReadSnapshot, Goto, SetPc
<1>2. pc'[s] = "open" /\ dir \in Dir /\ dir.wal = NoWal
  BY <1>1 DEF TypeInv, TypeOK, LocalInv
<1>3. DirInv'
  <2>1. CASE ~dir.file /\ dir.backup # NoValue
    <3>1. /\ dir' = [dir EXCEPT !.file = TRUE, !.backup = NoValue] /\ dirs' = dirs \cup {dir'}
          /\ main' = Encode(dir.backup, 0) /\ dmain' = main'
      BY <2>1 DEF ReadSnapshot, SetDir
    <3>2. dir.backup \in Value /\ 0 \in 0..MaxGen /\ dir'.file /\ dir'.wal = NoWal
      BY <1>2, <2>1, <3>1, ConstantsAssumption DEF Dir
    <3>3. Decodes(main')
      BY Zenon, <3>1, <3>2, EncodeDecodes
    <3>4. Sound(dir', main', dmain')
      BY <3>1, <3>2, <3>3 DEF Sound
    <3>5. \A d \in dirs : ~d.file /\ Sound(d, main', dmain')
      BY <2>1 DEF DiskInv, DirInv, Sound
    <3> QED
      BY <3>1, <3>2, <3>4, <3>5 DEF DirInv
  <2>2. CASE ~(~dir.file /\ dir.backup # NoValue)
    BY <2>2 DEF ReadSnapshot, disk, DiskInv, DirInv
  <2> QED
    BY <2>1, <2>2
<1> QED
  BY Zenon, <1>1, <1>2, <1>3, AtRest, OneHandle DEF DiskInv

\* The last step of commit removes the backup, which the page file has replaced.
LEMMA UnbackupDisk ==
  ASSUME TypeInv, DiskInv, NEW s \in Store, Unbackup(s)
  PROVE  DiskInv'
<1>1. /\ pc[s] = "unbackup" /\ pc' = [pc EXCEPT ![s] = "open"]
      /\ main' = main /\ dmain' = dmain
      /\ \/ dir' = [dir EXCEPT !.backup = NoValue] /\ dirs' = dirs \cup {dir'}
         \/ dir' = dir /\ dirs' = dirs
  BY DEF Unbackup, ReturnOk, Return, SetPc, SetDir
<1>2. pc'[s] = "open" /\ dir'.file = dir.file /\ dir'.wal = dir.wal
  BY <1>1 DEF TypeInv, TypeOK, Dir
<1>3. DirInv'
  BY <1>1, <1>2 DEF DiskInv, DirInv, Sound
<1> QED
  BY Zenon, <1>1, <1>2, <1>3, AtRest, OneHandle DEF DiskInv

\* A power loss leaves one directory state and one of its files.
LEMMA PowerLossDisk ==
  ASSUME TypeInv, DiskInv, PowerLoss
  PROVE  DiskInv'
<1>1. PICK d \in dirs : main' \in Survivors(d) /\ dir' = Settled(d)
  BY DEF PowerLoss
<1>2. Sound(d, main, dmain)
  BY DEF DiskInv, DirInv
<1>3. dir' = d /\ Sound(d, main', main') /\ (~d.file => main' = NoImage)
  BY <1>1, <1>2, SoundSurvives DEF TypeInv
<1>4. dmain' = main' /\ dirs' = {dir'}
  BY DEF PowerLoss
<1>5. DirInv'
  BY <1>3, <1>4 DEF DirInv
<1>6. \A s \in Store : pc'[s] = "none"
  BY DEF PowerLoss
<1> QED
  BY <1>5, <1>6, AtRest DEF DiskInv

\* Operations end, and are cut short, without touching the disk.
LEMMA EndDisk ==
  ASSUME TypeInv, DiskInv, NEW s \in Store, NEW x \in {"none", "open", "closed", "recover", "prepare"},
         pc' = [pc EXCEPT ![s] = x], pc[s] # "none" \/ lock = NoStore, UNCHANGED disk
  PROVE  DiskInv'
<1>1. pc'[s] = x
  BY DEF TypeInv, TypeOK
<1>2. StepAt(s)'
  BY <1>1, AtRest
<1>3. DirInv'
  BY DEF DiskInv, DirInv, disk
<1> QED
  BY Zenon, <1>2, <1>3, OneHandle DEF DiskInv

\* Every step keeps the directory states sound.
LEMMA DiskNext == Ordered /\ TypeInv /\ DiskInv /\ [Next]_vars => DiskInv'
<1> SUFFICES ASSUME Ordered, TypeInv, DiskInv, [Next]_vars PROVE DiskInv'
  OBVIOUS
<1>0. TypeInv'
  BY TypeNext
<1>1. ASSUME NEW s \in Store, Open(s) PROVE DiskInv'
  BY Zenon, <1>1, EndDisk DEF Open, Goto, SetPc
<1>2. ASSUME NEW s \in Store, NEW v \in Value, Mutate(s, v) PROVE DiskInv'
  BY Zenon, <1>2, EndDisk DEF Mutate, Goto, SetPc
<1>3. ASSUME NEW s \in Store, Recover(s) PROVE DiskInv'
  <2>1. pc[s] = "recover" /\ UNCHANGED disk
    BY <1>3 DEF Recover
  <2>2. CASE dir.wal # NoWal
    <3>1. pc' = [pc EXCEPT ![s] = "apply"] /\ pc'[s] = "apply" /\ log'[s] = dir.wal
      BY <1>3, <2>2 DEF Recover, SetPc, TypeInv, TypeOK
    <3>2. StepAt(s)'
      BY <2>1, <2>2, <3>1 DEF StepAt, Writing, InApply, SameLog, disk
    <3>3. DirInv'
      BY <2>1 DEF DiskInv, DirInv, disk
    <3> QED
      BY Zenon, <2>1, <3>1, <3>2, <3>3, OneHandle DEF DiskInv
  <2>3. CASE dir.wal = NoWal
    <3> DEFINE x == IF mode[s] = "load" THEN "snapshot" ELSE "prepare"
    <3>1. pc' = [pc EXCEPT ![s] = x] /\ pc'[s] \in {"snapshot", "prepare"}
      BY <1>3, <2>3 DEF Recover, SetPc, TypeInv, TypeOK
    <3>2. DirInv'
      BY <2>1 DEF DiskInv, DirInv, disk
    <3> QED
      BY Zenon, <2>1, <3>1, <3>2, AtRest, OneHandle DEF DiskInv
  <2> QED
    BY <2>2, <2>3
<1>4. ASSUME NEW s \in Store, Prepare(s) PROVE DiskInv'
  <2>1. /\ pc[s] = "prepare" /\ pc' = [pc EXCEPT ![s] = "synctmp"] /\ UNCHANGED disk /\ mem' = mem
        /\ log' = [log EXCEPT ![s] = EncodeWal(main, mem[s], Generation(main) + 1)]
    BY <1>4 DEF Prepare, Goto, SetPc
  <2>2. pc'[s] = "synctmp" /\ log'[s] = EncodeWal(main, mem[s], Generation(main) + 1)
    BY <2>1 DEF TypeInv, TypeOK
  <2>3. StepAt(s)'
    BY <2>1, <2>2 DEF StepAt, Writing, InApply, disk
  <2>4. DirInv'
    BY <2>1 DEF DiskInv, DirInv, disk
  <2> QED
    BY Zenon, <2>1, <2>3, <2>4, OneHandle DEF DiskInv
<1>5. ASSUME NEW s \in Store, SyncTmp(s) PROVE DiskInv'
  <2>1. /\ pc[s] = "synctmp" /\ pc' = [pc EXCEPT ![s] = "rename"] /\ UNCHANGED disk
        /\ mem' = mem /\ log' = log
    BY <1>5 DEF SyncTmp, Goto, SetPc
  <2>2. pc'[s] = "rename"
    BY <2>1, PerHandle
  <2>3. StepAt(s)'
    BY <2>1, <2>2 DEF DiskInv, StepAt, Writing, InApply, disk
  <2>4. DirInv'
    BY <2>1 DEF DiskInv, DirInv, disk
  <2> QED
    BY Zenon, <2>1, <2>3, <2>4, OneHandle DEF DiskInv
<1>6. ASSUME NEW s \in Store,
             Rename(s) \/ SyncDir(s) \/ Apply(s) \/ BeginWrite(s) \/ EndWrite(s) \/ SetLen(s)
               \/ Sync(s) \/ Unlink(s) \/ Unbackup(s) \/ ReadSnapshot(s)
      PROVE  DiskInv'
  BY <1>0, <1>6, RenameDisk, SyncDirDisk, ApplyDisk, BeginWriteDisk, EndWriteDisk, SetLenDisk,
     SyncDisk, UnlinkDisk, UnbackupDisk, ReadSnapshotDisk
<1>7. ASSUME NEW s \in Store, FailOpen(s) \/ Drop(s) \/ Crash(s) PROVE DiskInv'
  <2>1. pc[s] # "none" /\ pc' = [pc EXCEPT ![s] = "none"] /\ UNCHANGED disk
    BY <1>7 DEF FailOpen, Drop, Crash, Leave, SetPc
  <2> QED
    BY Zenon, <2>1, EndDisk
<1>8. ASSUME NEW s \in Store, FailCommit(s) \/ FailCheckpoint(s) \/ FailUnlink(s) PROVE DiskInv'
  <2>1. pc[s] # "none" /\ pc' = [pc EXCEPT ![s] = "open"] /\ UNCHANGED disk
    BY <1>8 DEF FailCommit, FailCheckpoint, FailUnlink, ReturnErr, ReturnOk, Return, SetPc, disk
  <2> QED
    BY Zenon, <2>1, EndDisk
<1>9. ASSUME NEW s \in Store, Close(s) PROVE DiskInv'
  BY Zenon, <1>9, EndDisk DEF Close, Goto, SetPc
<1>10. CASE PowerLoss
  BY <1>10, PowerLossDisk
<1>11. CASE UNCHANGED vars
  BY Zenon, <1>11 DEF vars, disk, DiskInv, DirInv, StepAt, Writing
<1> QED
  BY <1>1, <1>2, <1>3, <1>4, <1>5, <1>6, <1>7, <1>8, <1>9, <1>10, <1>11 DEF Next

\* Where directory changes are durable before later file writes, the store can
\* be opened after a power loss at any moment of any sequence of opens, commits,
\* failures and crashes, whether or not the directory sync of commit works.
THEOREM StoreNeverTorn == Ordered => (Spec => []NeverTorn)
<1> SUFFICES ASSUME Ordered PROVE Spec => []NeverTorn
  OBVIOUS
<1>1. Init => TypeInv /\ DiskInv
  BY TypeInit, DiskInit
<1>2. (TypeInv /\ DiskInv) /\ [Next]_vars => (TypeInv /\ DiskInv)'
  BY TypeNext, DiskNext
<1>3. TypeInv /\ DiskInv => NeverTorn
  BY DirInvSuffices DEF TypeInv, DiskInv
<1> QED
  BY <1>1, <1>2, <1>3, PTL DEF Spec

-----------------------------------------------------------------------------
(* What is read back *)

\* what opening from directory state d reads
Target(d) == Recovered(d, main)

Allowed == {acked} \cup doubt \cup UNION {Committing(s) : s \in Store}

\* once the directory is synced there is one answer, that of the commit
HistoryAt(s) ==
  /\ mode[s] = "checkpoint" => Target(dir) = mem[s]
  /\ mode[s] = "checkpoint" /\ pc[s] # "syncdir" => \A d \in dirs : Target(d) = mem[s]
  /\ pc[s] = "open" => mem[s] = acked
  /\ mode[s] \in {"commit", "checkpoint"} => prev[s] = acked

HistoryInv ==
  /\ \A d \in dirs : Target(d) \in Allowed
  /\ dir.wal = NoWal => \A d \in dirs : Target(d) = Target(dir)
  /\ \A s \in Store : HistoryAt(s)

\* The answer of a state with a log does not depend on the file.
LEMMA TargetOfWal ==
  ASSUME NEW d \in Dir, d.wal # NoWal, GoodWal(d.wal), NEW img
  PROVE  Recovered(d, img) = d.wal.recs[0].value
<1>1. d.wal \in Wal
  BY DEF Dir
<1> QED
  BY <1>1, HeaderRecord DEF Recovered

\* The initial state has one answer, which history records as acknowledged.
LEMMA HistoryInit == Init => HistoryInv
  BY DEF Init, HistoryInv, HistoryAt, Target, Allowed

\* While one handle has the store, the others are idle.
LEMMA OthersIdle ==
  ASSUME TypeInv, NEW s \in Store, pc[s] # "none" \/ lock = NoStore, NEW t \in Store, t # s
  PROVE  pc[t] = "none" /\ mode[t] = "idle" /\ Committing(t) = {}
<1>1. pc[t] = "none"
  BY ConstantsAssumption DEF TypeInv, OnlyHolderActive
<1>2. mode[t] = "idle"
  BY <1>1 DEF TypeInv, TypeOK, LocalInv, InApply
<1> QED
  BY <1>1, <1>2 DEF Committing

\* ... and what is asked of them holds.
LEMMA HistoryOthers ==
  ASSUME TypeInv, NEW s \in Store, NEW x, NEW m, pc[s] # "none" \/ lock = NoStore,
         pc' = [pc EXCEPT ![s] = x], mode' = [mode EXCEPT ![s] = m], HistoryAt(s)'
  PROVE  \A t \in Store : HistoryAt(t)'
<1> SUFFICES ASSUME NEW t \in Store, t # s PROVE HistoryAt(t)'
  OBVIOUS
<1>1. pc'[t] = "none" /\ mode'[t] = "idle"
  BY OthersIdle DEF TypeInv, TypeOK
<1> QED
  BY <1>1 DEF HistoryAt

\* Allowed is what history records, and the commit of the one active handle.
LEMMA AllowedOf ==
  ASSUME TypeInv, NEW s \in Store, pc[s] # "none" \/ lock = NoStore
  PROVE  Allowed = {acked} \cup doubt \cup Committing(s)
  BY OthersIdle DEF Allowed

\* A step that leaves the disk alone and forgets no snapshot in doubt.
LEMMA HistoryQuiet ==
  ASSUME TypeInv, HistoryInv, NEW s \in Store, NEW x, NEW m, pc[s] # "none" \/ lock = NoStore,
         pc' = [pc EXCEPT ![s] = x], mode' = [mode EXCEPT ![s] = m], UNCHANGED disk,
         acked' = acked, doubt \cup Committing(s) \subseteq doubt' \cup Committing(s)', HistoryAt(s)'
  PROVE  HistoryInv'
<1>1. Allowed \subseteq Allowed'
  <2>1. Allowed = {acked} \cup doubt \cup Committing(s)
    BY AllowedOf
  <2>2. {acked'} \cup doubt' \cup Committing(s)' \subseteq Allowed'
    BY DEF Allowed
  <2> QED
    BY <2>1, <2>2
<1>2. \A t \in Store : HistoryAt(t)'
  BY Zenon, HistoryOthers
<1> QED
  BY <1>1, <1>2 DEF HistoryInv, Target, disk

\* An operation that ends, with its snapshot in doubt if it was past the commit
\* point: a handle that stays open has the acknowledged snapshot back in memory.
LEMMA LeaveHistory ==
  ASSUME TypeInv, HistoryInv, NEW s \in Store, pc[s] # "none", Leave(s)
  PROVE  HistoryInv'
<1>1. /\ pc' = [pc EXCEPT ![s] = "none"] /\ mode' = [mode EXCEPT ![s] = "idle"]
      /\ UNCHANGED disk /\ acked' = acked /\ doubt' = doubt \cup Committing(s)
  BY DEF Leave, SetPc
<1>2. pc'[s] = "none" /\ mode'[s] = "idle"
  BY <1>1, PerHandle
<1>3. HistoryAt(s)'
  BY <1>2 DEF HistoryAt
<1> QED
  BY Zenon, <1>1, <1>3, HistoryQuiet

\* A commit that reports an error leaves its snapshot in doubt.
LEMMA ReturnErrHistory ==
  ASSUME TypeInv, HistoryInv, NEW s \in Store, mode[s] \in {"commit", "checkpoint"}, ReturnErr(s)
  PROVE  HistoryInv'
<1>1. /\ pc' = [pc EXCEPT ![s] = "open"] /\ mode' = [mode EXCEPT ![s] = "idle"]
      /\ UNCHANGED disk /\ acked' = acked /\ doubt' = doubt \cup Committing(s)
      /\ mem' = [mem EXCEPT ![s] = prev[s]]
  BY DEF ReturnErr, Return, SetPc, disk
<1>2. pc'[s] = "open" /\ mode'[s] = "idle" /\ mem'[s] = prev[s]
  BY <1>1 DEF TypeInv, TypeOK
<1>3. prev[s] = acked /\ pc[s] # "none"
  BY Zenon DEF HistoryInv, HistoryAt, TypeInv, LocalInv, InApply
<1>4. HistoryAt(s)'
  BY Zenon, <1>1, <1>2, <1>3 DEF HistoryAt
<1> QED
  BY Zenon, <1>1, <1>3, <1>4, HistoryQuiet

\* commit returns Ok when a power loss can only leave its snapshot.
LEMMA ReturnOkHistory ==
  ASSUME TypeInv, NEW s \in Store, pc[s] # "none", ReturnOk(s), \A d \in dirs' : Target(d)' = mem[s],
         dir' \in dirs'
  PROVE  HistoryInv'
<1>1. /\ pc' = [pc EXCEPT ![s] = "open"] /\ mode' = [mode EXCEPT ![s] = "idle"]
      /\ acked' = mem[s] /\ mem' = mem
  BY DEF ReturnOk, Return, SetPc
<1>2. pc'[s] = "open" /\ mode'[s] = "idle"
  BY <1>1, PerHandle
<1>3. HistoryAt(s)'
  BY <1>1, <1>2 DEF HistoryAt
<1>4. \A t \in Store : HistoryAt(t)'
  BY Zenon, <1>1, <1>3, HistoryOthers
<1>5. \A d \in dirs' : Recovered(d, main') = mem[s]
  BY DEF Target
<1>6. \A d \in dirs' : Recovered(d, main') \in Allowed'
  BY <1>1, <1>5 DEF Allowed
<1>7. dir'.wal = NoWal => \A d \in dirs' : Recovered(d, main') = Recovered(dir', main')
  BY <1>5
<1> QED
  BY <1>4, <1>6, <1>7 DEF HistoryInv, Target

\* The commit point: from here the new snapshot is one of the answers.
LEMMA RenameHistory ==
  ASSUME TypeInv, TypeInv', DiskInv, DiskInv', HistoryInv, NEW s \in Store, Rename(s)
  PROVE  HistoryInv'
<1>1. /\ pc[s] = "rename" /\ pc' = [pc EXCEPT ![s] = "syncdir"]
      /\ mode' = [mode EXCEPT ![s] = "checkpoint"] /\ mem' = mem /\ prev' = prev
      /\ dir' = [dir EXCEPT !.wal = [log[s] EXCEPT !.synced = tmp[s] = "synced"]]
      /\ dirs' = dirs \cup {dir'} /\ main' = main /\ acked' = acked /\ doubt' = doubt
      /\ log' = log
  BY DEF Rename, Goto, SetPc, SetDir, history
<1>2. pc'[s] = "syncdir" /\ mode'[s] = "checkpoint" /\ dir' \in Dir /\ mode[s] = "commit"
  BY <1>1 DEF TypeInv, TypeOK, LocalInv, InApply
<1>3. dir'.wal # NoWal /\ SameLog(log[s], dir'.wal) /\ GoodWal(dir'.wal) /\ dir'.wal.synced
  <2>1. dir'.wal # NoWal /\ SameLog(log'[s], dir'.wal)
    BY SMTT(30), <1>2 DEF DiskInv, StepAt, InApply
  <2> QED
    BY ZenonT(30), <1>1, <2>1 DEF DiskInv, DirInv, Sound, GoodWal
<1>4. dir'.wal.recs[0].value = mem[s]
  <2>1. log[s] = EncodeWal(main, mem[s], Generation(main) + 1) /\ log[s] \in Wal /\ mem[s] \in Value
    BY <1>1, <1>2 DEF DiskInv, StepAt, TypeInv, LocalInv, InApply
  <2>2. Generation(main) \in 0..MaxGen /\ Generation(main) + 1 \in 1..MaxGen
    <3>1. Generation(main) \in 0..MaxGen
      BY ConstantsAssumption DEF Generation, Header
    <3>2. log[s].gen = Generation(main) + 1 /\ log[s].gen \in 1..MaxGen
      BY <2>1 DEF EncodeWal, Wal
    <3> QED
      BY SMTT(30), <3>1, <3>2
  <2>3. main \in Image /\ Generation(main) # Generation(main) + 1 /\ dir'.wal \in Wal
    BY SMTT(30), <1>2, <1>3, <2>2, ConstantsAssumption DEF TypeInv, TypeOK, Dir
  <2>4. SameLog(dir'.wal, EncodeWal(main, mem[s], Generation(main) + 1))
    BY <1>3, <2>1 DEF SameLog
  <2> QED
    BY <1>3, <2>1, <2>2, <2>3, <2>4, EncodeWalGood
<1>5. Recovered(dir', main) = mem[s]
  BY <1>2, <1>3, <1>4, TargetOfWal
<1>6. Committing(s)' = {mem[s]} /\ Committing(s) = {}
  BY <1>1, <1>2 DEF Committing
<1>7. \A d \in dirs' : Recovered(d, main) \in Allowed'
  <2>1. Allowed = {acked} \cup doubt
    BY <1>1, <1>6, AllowedOf
  <2>2. {acked} \cup doubt \cup {mem[s]} \subseteq Allowed'
    BY <1>1, <1>6 DEF Allowed
  <2> QED
    BY <1>1, <1>5, <2>1, <2>2 DEF HistoryInv, Target
<1>8. HistoryAt(s)'
  BY <1>1, <1>2, <1>5 DEF HistoryInv, HistoryAt, Target
<1>9. \A t \in Store : HistoryAt(t)'
  BY Zenon, <1>1, <1>8, HistoryOthers
<1> QED
  BY <1>1, <1>3, <1>7, <1>9 DEF HistoryInv, Target

\* A step of recovery or of a checkpoint changes no answer.
LEMMA SameAnswers ==
  ASSUME TypeInv, HistoryInv, NEW s \in Store, NEW x, pc[s] \notin {"none", "syncdir"}, x # "open",
         pc' = [pc EXCEPT ![s] = x], UNCHANGED <<mode, mem, prev, acked, doubt>>,
         \A d \in dirs' : \E e \in dirs : Recovered(d, main') = Recovered(e, main),
         Recovered(dir', main') = Recovered(dir, main),
         dir'.wal = NoWal => \A d \in dirs' : Recovered(d, main') = Recovered(dir, main)
  PROVE  HistoryInv'
<1>1. mode' = [mode EXCEPT ![s] = mode[s]] /\ pc'[s] = x
  BY PerHandle
<1>2. Allowed' = Allowed
  BY DEF Allowed, Committing
<1>3. HistoryAt(s)
  BY DEF HistoryInv
<1>4. HistoryAt(s)'
  BY <1>1, <1>3 DEF HistoryAt, Target
<1>5. \A t \in Store : HistoryAt(t)'
  BY Zenon, <1>1, <1>4, HistoryOthers
<1> QED
  BY <1>2, <1>5 DEF HistoryInv, Target

\* The directory sync settles the answer.
LEMMA SyncDirHistory ==
  ASSUME ~DirSyncFails, TypeInv, DiskInv, HistoryInv, NEW s \in Store, SyncDir(s)
  PROVE  HistoryInv'
<1>1. /\ pc[s] = "syncdir" /\ pc' = [pc EXCEPT ![s] = "apply"] /\ dirs' = {dir}
      /\ UNCHANGED <<mode, mem, prev, dir, main, acked, doubt>>
  BY DEF SyncDir, Goto, SetPc, history
<1>2. mode' = [mode EXCEPT ![s] = mode[s]] /\ pc'[s] = "apply"
  BY <1>1, PerHandle
<1>3. Allowed' = Allowed
  BY <1>1 DEF Allowed, Committing
<1>4. HistoryAt(s)'
  BY <1>1, <1>2 DEF HistoryInv, HistoryAt, Target
<1>5. \A t \in Store : HistoryAt(t)'
  BY ZenonT(30), <1>1, <1>2, <1>4, HistoryOthers
<1> QED
  BY <1>1, <1>3, <1>5 DEF HistoryInv, DiskInv, DirInv, Target

\* The steps of apply_wal and the removal of the log leave what a reopen reads,
\* and add no answer.
LEMMA ApplyAnswers ==
  ASSUME Ordered, TypeInv, DiskInv, NEW s \in Store,
         Apply(s) \/ BeginWrite(s) \/ EndWrite(s) \/ SetLen(s) \/ Sync(s) \/ Unlink(s)
  PROVE  /\ pc[s] \in InApply
         /\ UNCHANGED <<mode, mem, prev, acked, doubt>>
         /\ \E x : pc' = [pc EXCEPT ![s] = x] /\ x \notin {"none", "open", "closed"}
         /\ dir' \in dirs'
         /\ Recovered(dir', main') = Recovered(dir, main)
         /\ \A d \in dirs' : \E e \in dirs : Recovered(d, main') = Recovered(e, main)
         /\ dir'.wal = NoWal => \A d \in dirs' : Recovered(d, main') = Recovered(dir, main)
<1>1. /\ pc[s] \in InApply
      /\ UNCHANGED <<mode, mem, prev, acked, doubt>>
  BY DEF Apply, BeginWrite, EndWrite, SetLen, Sync, Unlink, Goto, history, InApply
<1>2. dir \in Dir /\ dir.wal # NoWal /\ GoodWal(dir.wal) /\ SameLog(log[s], dir.wal) /\ dir \in dirs
  BY Zenon, <1>1 DEF DiskInv, DirInv, Sound, StepAt, TypeInv, TypeOK
<1>3. \A img : Recovered(dir, img) = dir.wal.recs[0].value
  BY Zenon, <1>2, TargetOfWal
<1>4. \E x : pc' = [pc EXCEPT ![s] = x] /\ x \notin {"none", "open", "closed"}
  <2>1. CASE ~Unlink(s)
    BY <2>1 DEF Apply, BeginWrite, EndWrite, SetLen, Sync, Goto, SetPc
  <2>2. CASE Unlink(s)
    <3>1. mode[s] \in {"load", "commit", "checkpoint"}
      BY Zenon, <1>1 DEF TypeInv, TypeOK, LocalInv, InApply
    <3> QED
      BY ZenonT(30), <2>2, <3>1 DEF Unlink, SetPc
  <2> QED
    BY Zenon, <2>1, <2>2
<1>5. CASE Apply(s)
  <2>1. dir' = [dir EXCEPT !.file = TRUE] /\ dirs' = dirs \cup {dir'} /\ main' = main
    BY <1>5 DEF Apply, SetDir
  <2>2. dir' \in Dir /\ dir'.wal = dir.wal
    BY Zenon, <1>2, <2>1 DEF Dir
  <2>3. Recovered(dir', main') = Recovered(dir, main)
    BY Zenon, <1>2, <1>3, <2>2, TargetOfWal
  <2>4. \A d \in dirs' : \E e \in dirs : Recovered(d, main') = Recovered(e, main)
    BY Zenon, <1>2, <2>1, <2>3
  <2> QED
    BY Zenon, <1>1, <1>2, <1>4, <2>1, <2>2, <2>3, <2>4
<1>6. CASE BeginWrite(s) \/ EndWrite(s) \/ SetLen(s) \/ Sync(s)
  <2>1. dir' = dir /\ dirs' \subseteq dirs
    BY Zenon, <1>2, <1>6 DEF BeginWrite, EndWrite, SetLen, Sync
  <2>2. dirs' = {dir} \/ main' = main
    <3>1. CASE SetLen(s)
      <4>1. dir.wal \in Wal /\ 0 \in PageIds /\ next[s] \in Nat
        BY <1>2, ConstantsAssumption DEF Dir, PageIds, TypeInv, TypeOK
      <4>2. log[s].recs[0] # NoPage
        BY ZenonT(30), <1>2, <4>1, HeaderRecord DEF SameLog
      <4>3. pc[s] = "write" /\ dirs' = dirs /\ Left(s) = {}
        BY ZenonT(30), <3>1 DEF SetLen, Goto
      <4>4. next[s] # 0
        BY Zenon, <4>1, <4>2, <4>3, Begun
      <4> QED
        BY Zenon, <4>3, <4>4 DEF DiskInv, StepAt, Writing
    <3>2. CASE BeginWrite(s)
      BY <3>2 DEF BeginWrite
    <3>3. CASE EndWrite(s)
      BY Zenon, <3>3 DEF EndWrite, Goto, DiskInv, StepAt, Writing
    <3>4. CASE Sync(s)
      BY <3>4 DEF Sync
    <3> QED
      BY <1>6, <3>1, <3>2, <3>3, <3>4
  <2>3. Recovered(dir', main') = Recovered(dir, main)
    BY Zenon, <1>3, <2>1
  <2>4. \A d \in dirs' : \E e \in dirs : Recovered(d, main') = Recovered(e, main)
    BY SMTT(30), <1>2, <2>1, <2>2, <2>3
  <2>5. dir' \in dirs'
    BY Zenon, <1>2, <1>6, <2>1 DEF BeginWrite, EndWrite, SetLen, Sync
  <2> QED
    BY Zenon, <1>1, <1>2, <1>4, <2>1, <2>3, <2>4, <2>5
<1>7. CASE Unlink(s)
  <2>1. pc[s] = "unlink" /\ dir' = [dir EXCEPT !.wal = NoWal] /\ dirs' = dirs \cup {dir'} /\ main' = main
    BY <1>7 DEF Unlink, SetDir
  <2>2. dir'.wal = NoWal /\ dir'.file = dir.file
    BY <1>2, <2>1 DEF Dir
  <2>3. dir.file /\ dirs = {dir} /\ main = TargetImage(log[s])
    BY <2>1 DEF DiskInv, StepAt, Writing
  <2>4. main[0].value = dir.wal.recs[0].value
    <3>1. dir.wal.recs[0].value \in Value /\ dir.wal.gen \in 0..MaxGen
      BY Zenon, <1>2, ConstantsAssumption DEF GoodWal, Header, Dir, Wal
    <3>2. main = Encode(dir.wal.recs[0].value, dir.wal.gen)
      BY Zenon, <1>2, <2>3 DEF TargetImage, SameLog
    <3> DEFINE header == [gen |-> dir.wal.gen, value |-> dir.wal.recs[0].value]
    <3>3. main[0] = header
      BY Zenon, <3>1, <3>2, EncodeDecodes
    <3>4. header.value = dir.wal.recs[0].value
      OBVIOUS
    <3> HIDE DEF header
    <3> QED
      BY Zenon, <3>3, <3>4
  <2>5. Recovered(dir', main') = Recovered(dir, main)
    BY <1>3, <2>1, <2>2, <2>3, <2>4 DEF Recovered
  <2>6. \A d \in dirs' : Recovered(d, main') = Recovered(dir, main)
    BY <2>1, <2>3, <2>5
  <2> QED
    BY Zenon, <1>1, <1>2, <1>4, <2>1, <2>5, <2>6
<1> QED
  BY Zenon, <1>5, <1>6, <1>7

\* Applying the log does not change what a reopening may read.
LEMMA ApplyHistory ==
  ASSUME Ordered, TypeInv, DiskInv, HistoryInv, NEW s \in Store,
         Apply(s) \/ BeginWrite(s) \/ EndWrite(s) \/ SetLen(s) \/ Sync(s) \/ Unlink(s)
  PROVE  HistoryInv'
  BY Zenon, ApplyAnswers, SameAnswers DEF InApply

\* load reads the one answer there is, and a backup it restores is the same one.
LEMMA ReadSnapshotAnswers ==
  ASSUME TypeInv, DiskInv, HistoryInv, NEW s \in Store, ReadSnapshot(s)
  PROVE  /\ dir' \in dirs'
         /\ \A d \in dirs : Recovered(d, main) = Recovered(dir, main)
         /\ \A d \in dirs' : Recovered(d, main') = Recovered(dir, main)
<1> DEFINE r == Recovered(dir, main)
<1>1. pc[s] = "snapshot"
  BY DEF ReadSnapshot, Goto
<1>2. dir \in Dir /\ dir.wal = NoWal
  BY Zenon, <1>1 DEF TypeInv, TypeOK, LocalInv
<1>3. \A d \in dirs : Recovered(d, main) = r
  BY <1>2 DEF HistoryInv, Target
<1>4. CASE ~dir.file /\ dir.backup # NoValue
  <2>1. /\ dir' = [dir EXCEPT !.file = TRUE, !.backup = NoValue] /\ dirs' = dirs \cup {dir'}
        /\ main' = Encode(dir.backup, 0)
    BY <1>4 DEF ReadSnapshot, SetDir
  <2>2. dir.backup \in Value /\ 0 \in 0..MaxGen /\ dir'.file /\ dir'.wal = NoWal /\ r = dir.backup
    BY <1>2, <1>4, <2>1, ConstantsAssumption DEF Dir, Recovered
  <2>3. main'[0] = [gen |-> 0, value |-> dir.backup]
    BY SMTT(30), <2>1, <2>2, EncodeDecodes
  <2>4. Recovered(dir', main') = r
    BY <2>2, <2>3 DEF Recovered
  <2>5. ASSUME NEW d \in dirs PROVE Recovered(d, main') = r
    <3>1. d \in Dir /\ ~d.file /\ Sound(d, main, dmain)
      BY <1>4 DEF DiskInv, DirInv, TypeInv, TypeOK
    <3>2. CASE d.wal # NoWal
      BY ZenonT(30), <1>3, <3>1, <3>2, TargetOfWal DEF Sound
    <3>3. CASE d.wal = NoWal
      BY <1>3, <3>1, <3>3 DEF Recovered
    <3> QED
      BY <3>2, <3>3
  <2> QED
    BY <1>3, <2>1, <2>4, <2>5
<1>5. CASE ~(~dir.file /\ dir.backup # NoValue)
  BY <1>3, <1>5 DEF ReadSnapshot, disk, DiskInv, DirInv
<1> QED
  BY <1>4, <1>5

\* Opening acknowledges exactly what the disk says.
LEMMA ReadSnapshotHistory ==
  ASSUME TypeInv, DiskInv, HistoryInv, NEW s \in Store, ReadSnapshot(s)
  PROVE  HistoryInv'
<1> DEFINE r == Recovered(dir, main)
<1>1. /\ pc[s] = "snapshot" /\ pc' = [pc EXCEPT ![s] = "open"] /\ mode' = [mode EXCEPT ![s] = "idle"]
      /\ mem' = [mem EXCEPT ![s] = r] /\ acked' = r
  BY DEF ReadSnapshot, Goto, SetPc
<1>2. pc'[s] = "open" /\ mode'[s] = "idle" /\ mem'[s] = r
  BY Zenon, <1>1 DEF TypeInv, TypeOK
<1>3. HistoryAt(s)'
  BY Zenon, <1>1, <1>2 DEF HistoryAt
<1>4. \A t \in Store : HistoryAt(t)'
  BY Zenon, <1>1, <1>3, HistoryOthers
<1>5. dir' \in dirs' /\ \A d \in dirs' : Recovered(d, main') = r
  BY ReadSnapshotAnswers
<1>6. r \in Allowed'
  BY <1>1 DEF Allowed
<1> QED
  BY <1>4, <1>5, <1>6 DEF HistoryInv, Target

\* commit returns Ok, after the checkpoint or without it, when every answer is
\* its snapshot.
LEMMA OkAnswers ==
  ASSUME TypeInv, DiskInv, HistoryInv, NEW s \in Store, Unbackup(s) \/ FailCheckpoint(s)
  PROVE  /\ mode[s] = "checkpoint" /\ pc[s] \in {"unbackup"} \cup InApply /\ ReturnOk(s)
         /\ dir' \in dirs'
         /\ \A d \in dirs : Recovered(d, main) = mem[s]
         /\ \A d \in dirs' : Recovered(d, main') = mem[s]
<1>1. pc[s] \in {"unbackup"} \cup InApply /\ ReturnOk(s) /\ main' = main
  BY DEF Unbackup, FailCheckpoint, InApply, ReturnOk, Return
<1>2. mode[s] = "checkpoint"
  BY DEF Unbackup, FailCheckpoint, TypeInv, TypeOK, LocalInv, InApply
<1>3. \A d \in dirs : Recovered(d, main) = mem[s]
  BY <1>1, <1>2 DEF HistoryInv, HistoryAt, Target, InApply
<1>4. dir \in dirs /\ dir \in Dir
  BY SMTT(30) DEF DiskInv, DirInv, TypeInv, TypeOK
<1>5. CASE Unbackup(s) /\ dir' = [dir EXCEPT !.backup = NoValue] /\ dirs' = dirs \cup {dir'}
  <2>1. dir'.file = dir.file /\ dir'.wal = dir.wal
    BY <1>4, <1>5 DEF Dir
  <2>2. dir.file /\ dir.wal = NoWal
    BY <1>5 DEF Unbackup, DiskInv, StepAt, TypeInv, LocalInv
  <2>3. Recovered(dir', main) = Recovered(dir, main)
    BY <2>1, <2>2 DEF Recovered
  <2>4. dir' \in dirs' /\ \A d \in dirs' : Recovered(d, main') = mem[s]
    BY <1>1, <1>3, <1>4, <1>5, <2>3
  <2> QED
    BY <1>1, <1>2, <1>3, <2>4
<1>6. CASE dir' = dir /\ dirs' = dirs
  BY <1>1, <1>2, <1>3, <1>4, <1>6
<1> QED
  BY <1>5, <1>6 DEF Unbackup, FailCheckpoint, SetDir

\* A commit that reports success leaves one answer, its own snapshot.
LEMMA OkHistory ==
  ASSUME TypeInv, DiskInv, HistoryInv, NEW s \in Store, Unbackup(s) \/ FailCheckpoint(s)
  PROVE  HistoryInv'
<1>1. pc[s] # "none"
  BY OkAnswers DEF InApply
<1>2. \A d \in dirs' : Target(d)' = mem[s]
  BY Zenon, OkAnswers DEF Target
<1> QED
  BY Zenon, <1>1, <1>2, OkAnswers, ReturnOkHistory

\* A power loss picks one of the answers.
LEMMA PowerLossHistory ==
  ASSUME TypeInv, DiskInv, HistoryInv, PowerLoss
  PROVE  HistoryInv'
<1>1. PICK d \in dirs : main' \in Survivors(d) /\ dir' = Settled(d)
  BY DEF PowerLoss
<1>2. dir' = d /\ Recovered(d, main') = Recovered(d, main)
  BY <1>1, SoundSurvives DEF TypeInv, DiskInv, DirInv
<1>3. dirs' = {dir'} /\ acked' = acked /\ doubt' = doubt \cup UNION {Committing(s) : s \in Store}
  BY DEF PowerLoss
<1>4. Allowed \subseteq Allowed'
  BY <1>3 DEF Allowed
<1>5. \A s \in Store : HistoryAt(s)'
  BY DEF PowerLoss, HistoryAt
<1> QED
  BY <1>2, <1>3, <1>4, <1>5 DEF HistoryInv, Target

\* Every step keeps the answers among the acknowledged and the doubtful ones.
LEMMA HistoryNext ==
  ASSUME Ordered, ~DirSyncFails, TypeInv, TypeInv', DiskInv, DiskInv', HistoryInv, [Next]_vars
  PROVE  HistoryInv'
<1>1. ASSUME NEW s \in Store, Open(s) PROVE HistoryInv'
  <2>1. /\ lock = NoStore /\ pc' = [pc EXCEPT ![s] = "recover"] /\ mode' = [mode EXCEPT ![s] = "load"]
        /\ UNCHANGED <<disk, acked, doubt>>
    BY <1>1 DEF Open, Goto, SetPc, history
  <2>2. pc'[s] = "recover" /\ mode'[s] = "load" /\ mode[s] = "idle"
    <3>1. pc[s] = "none"
      BY <1>1 DEF Open, Goto
    <3> QED
      BY <2>1, <3>1, PerHandle, IdleMode
  <2>3. HistoryAt(s)' /\ Committing(s) = {}
    BY Zenon, <2>2 DEF HistoryAt, Committing
  <2> QED
    BY Zenon, <2>1, <2>3, HistoryQuiet
<1>2. ASSUME NEW s \in Store, NEW v \in Value, Mutate(s, v) PROVE HistoryInv'
  <2>1. /\ pc[s] = "open" /\ pc' = [pc EXCEPT ![s] = "recover"] /\ mode' = [mode EXCEPT ![s] = "commit"]
        /\ prev' = [prev EXCEPT ![s] = mem[s]] /\ UNCHANGED <<disk, acked, doubt>>
    BY <1>2 DEF Mutate, Goto, SetPc, history
  <2>2. pc'[s] = "recover" /\ mode'[s] = "commit" /\ prev'[s] = mem[s] /\ mode[s] = "idle"
    BY <2>1, PerHandle, IdleMode
  <2>3. mem[s] = acked
    BY <2>1 DEF HistoryInv, HistoryAt
  <2>4. HistoryAt(s)' /\ Committing(s) = {}
    BY <2>1, <2>2, <2>3 DEF HistoryAt, Committing
  <2> QED
    BY Zenon, <2>1, <2>4, HistoryQuiet
<1>3. ASSUME NEW s \in Store, Close(s) PROVE HistoryInv'
  <2>1. /\ pc[s] = "open" /\ pc' = [pc EXCEPT ![s] = "closed"] /\ mode' = mode
        /\ UNCHANGED <<disk, acked, doubt>>
    BY <1>3 DEF Close, Goto, SetPc, history
  <2>2. pc'[s] = "closed" /\ mode' = [mode EXCEPT ![s] = "idle"] /\ mode[s] = "idle" /\ mode'[s] = "idle"
    <3>1. mode[s] = "idle"
      BY <2>1, IdleMode
    <3> QED
      BY <2>1, <3>1, PerHandle
  <2>3. HistoryAt(s)' /\ Committing(s) = {}
    BY Zenon, <2>2 DEF HistoryAt, Committing
  <2> QED
    BY Zenon, <2>1, <2>2, <2>3, HistoryQuiet
<1>4. ASSUME NEW s \in Store, Recover(s) \/ Prepare(s) \/ SyncTmp(s) PROVE HistoryInv'
  <2>1. pc[s] \in {"recover", "prepare", "synctmp"} /\ UNCHANGED <<mode, mem, prev, disk, acked, doubt>>
    BY <1>4 DEF Recover, Prepare, SyncTmp, Goto, history
  <2>2. PICK x : pc' = [pc EXCEPT ![s] = x] /\ x # "open"
    BY Zenon, <1>4 DEF Recover, Prepare, SyncTmp, Goto, SetPc
  <2>3. dir.wal = NoWal => \A d \in dirs : Recovered(d, main) = Recovered(dir, main)
    BY DEF HistoryInv, Target
  <2> QED
    BY ZenonT(30), <2>1, <2>2, <2>3, SameAnswers DEF disk
<1>5. ASSUME NEW s \in Store, FailOpen(s) \/ Drop(s) \/ Crash(s) PROVE HistoryInv'
  BY <1>5, LeaveHistory DEF FailOpen, Drop, Crash
<1>6. ASSUME NEW s \in Store, FailCommit(s) \/ FailUnlink(s) PROVE HistoryInv'
  BY <1>6, ReturnErrHistory DEF FailCommit, FailUnlink
<1>7. ASSUME NEW s \in Store,
             \/ ReadSnapshot(s) \/ Rename(s) \/ SyncDir(s) \/ Unbackup(s) \/ FailCheckpoint(s)
             \/ Apply(s) \/ BeginWrite(s) \/ EndWrite(s) \/ SetLen(s) \/ Sync(s) \/ Unlink(s)
      PROVE  HistoryInv'
  BY <1>7, ReadSnapshotHistory, RenameHistory, SyncDirHistory, OkHistory, ApplyHistory
<1>8. CASE PowerLoss
  BY SMTT(30), <1>8, PowerLossHistory
<1>9. CASE UNCHANGED vars
  BY <1>9 DEF vars, disk, HistoryInv, HistoryAt, Target, Allowed, Committing
<1> QED
  BY <1>1, <1>2, <1>3, <1>4, <1>5, <1>6, <1>7, <1>8, <1>9 DEF Next

\* The three invariants together.
IInv == TypeInv /\ DiskInv /\ HistoryInv

\* They are inductive where directory changes reach the disk in order and the
\* directory sync works.
LEMMA StoreInductive == Ordered /\ ~DirSyncFails => (Spec => []IInv)
<1> SUFFICES ASSUME Ordered, ~DirSyncFails PROVE Spec => []IInv
  OBVIOUS
<1>1. Init => IInv
  BY TypeInit, DiskInit, HistoryInit DEF IInv
<1>2. IInv /\ [Next]_vars => IInv'
  BY TypeNext, DiskNext, HistoryNext DEF IInv
<1> QED
  BY <1>1, <1>2, PTL DEF Spec

\* Under the same two assumptions nothing acknowledged is lost: after a power
\* loss at any moment the store reads the last snapshot that commit returned Ok
\* for or load returned, or one whose commit was cut short after the rename.
THEOREM StoreDurable == Ordered /\ ~DirSyncFails => (Spec => []Durable)
<1> SUFFICES ASSUME Ordered, ~DirSyncFails PROVE Spec => []Durable
  OBVIOUS
<1>1. IInv => Durable
  <2> SUFFICES ASSUME IInv, NEW d \in dirs, NEW img \in Survivors(d)
               PROVE  Recovered(Settled(d), img) \in Allowed
    BY DEF Durable, Allowed
  <2>1. Settled(d) = d /\ Recovered(d, img) = Recovered(d, main)
    BY SoundSurvives DEF IInv, TypeInv, DiskInv, DirInv
  <2> QED
    BY <2>1 DEF IInv, HistoryInv, Target
<1> QED
  BY <1>1, StoreInductive, PTL

\* ... and while no commit is in doubt the in-memory store of an open handle is
\* what reopening would read: the rollback in mutate_native_data is exact.
THEOREM MemoryIsDisk == Ordered /\ ~DirSyncFails => (Spec => []MemoryMatchesDisk)
<1> SUFFICES ASSUME Ordered, ~DirSyncFails PROVE Spec => []MemoryMatchesDisk
  OBVIOUS
<1>1. IInv => MemoryMatchesDisk
  <2> SUFFICES ASSUME IInv, NEW s \in Store, pc[s] = "open", doubt = {}
               PROVE  mem[s] = Recovered(dir, main)
    BY ZenonT(30) DEF MemoryMatchesDisk
  <2>1. mode[s] = "idle" /\ Committing(s) = {}
    BY SMTT(30) DEF IInv, TypeInv, TypeOK, LocalInv, InApply, Committing
  <2>2. Allowed = {acked}
    BY SMTT(30), <2>1, AllowedOf DEF IInv
  <2>3. mem[s] = acked /\ Recovered(dir, main) \in Allowed
    BY DEF IInv, HistoryInv, HistoryAt, DiskInv, DirInv, Target
  <2> QED
    BY ZenonT(30), <2>2, <2>3
<1> QED
  BY <1>1, StoreInductive, PTL

=============================================================================
