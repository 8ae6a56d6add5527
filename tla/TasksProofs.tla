---------------------------- MODULE TasksProofs ----------------------------
(***************************************************************************)
(* Structured tasks live as promised for any number of tasks and any        *)
(* limits.  TaskLife is not inductive: which handles a frame may still use  *)
(* depends on where on the stack every running task is.  Frames says what a *)
(* frame knows of its task, Places what a task knows of its frames.         *)
(***************************************************************************)
EXTENDS Tasks, FiniteSetTheorems, SequenceTheorems, TLAPS

Depth == 1 .. Len(stack)

(* A task run by await has lost its handle; one run by a yield has it in a  *)
(* frame further down, which cannot drop it now.                            *)
Frames ==
    \A i \in Depth :
       /\ stack[i].kind = "await" =>
             /\ stack[i].task \in Task
             /\ work[stack[i].task] = "Consumed" /\ home[stack[i].task] = 0
             /\ ended[stack[i].task] # {}
       /\ stack[i].kind = "run" =>
             /\ stack[i].task \in Task
             /\ work[stack[i].task] = "Running" /\ home[stack[i].task] \in 1 .. i - 1

(* No task is on the stack twice.                                           *)
OneFrame ==
    \A i, j \in Depth :
       (/\ stack[i].kind \in {"await", "run"} /\ stack[j].kind \in {"await", "run"}
        /\ stack[i].task = stack[j].task) => i = j

OnStack(kind, t) == \E i \in Depth : stack[i].kind = kind /\ stack[i].task = t

(* A task that exists has its handle in a body frame or its body on the     *)
(* stack, and only an error leaves one consumed without either.             *)
Places ==
    \A t \in Task :
       /\ home[t] # 0 => (Alive(t) /\ ended[t] = {} /\ stack[home[t]].kind # "progress")
       /\ work[t] = "Running" => OnStack("run", t)
       /\ work[t] = "Consumed" => (failing \/ OnStack("await", t))
       /\ (Alive(t) /\ home[t] = 0) => OnStack("await", t)
       /\ work[t] \in {"unborn", "Future"} => runs[t] = 0
       /\ work[t] = "unborn" => ended[t] = {}

(* A task ends at most one way, and not without one.                        *)
Endings ==
    \A t \in Task :
       /\ runs[t] \in {0, 1}
       /\ ended[t] = {} \/ \E path : ended[t] = {path}
       /\ work[t] = "gone" => ended[t] # {}

Living(w) == {t \in Task : w[t] \notin {"unborn", "gone"}}
Counted == live_tasks = Cardinality(Living(work))

TasksInv == TasksTypeOK /\ Frames /\ OneFrame /\ Places /\ Endings /\ Counted

-----------------------------------------------------------------------------

(* The stack with a frame pushed.                                           *)
LEMMA Pushed ==
    ASSUME NEW s \in Seq(Frame), NEW f \in Frame
    PROVE  /\ Append(s, f) \in Seq(Frame) /\ Len(Append(s, f)) = Len(s) + 1 /\ Len(s) \in Nat
           /\ \A i \in 1 .. Len(s) : Append(s, f)[i] = s[i]
           /\ Append(s, f)[Len(s) + 1] = f
  BY AppendProperties

(* The stack with its top frame popped.                                     *)
LEMMA Popped ==
    ASSUME stack \in Seq(Frame), stack # <<>>
    PROVE  /\ Below \in Seq(Frame) /\ Len(Below) = Len(stack) - 1
           /\ Len(stack) \in Nat \ {0} /\ Len(stack) - 1 \in Nat
           /\ \A i \in 1 .. Len(stack) - 1 : Below[i] = stack[i]
           /\ Top \in Frame
<1>1. Len(stack) \in Nat \ {0}
  BY EmptySeq, LenProperties
<1>2. \A i \in 1 .. Len(stack) : stack[i] \in Frame
  BY ElementOfSeq
<1>3. Below \in Seq(Frame) /\ Len(Below) = Len(stack) - 1
      /\ \A i \in 1 .. Len(stack) - 1 : Below[i] = stack[i]
  <2> DEFINE n == Len(stack) - 1
  <2>1. n \in Nat /\ 1 \in 1 .. Len(stack) + 1 /\ n \in 0 .. Len(stack) /\ (n - 1) + 1 = n
    BY <1>1
  <2>2. Below = [i \in 1 .. n |-> stack[i]]
    BY <1>1, <2>1 DEF Below
  <2>3. \A i \in 1 .. n : stack[i] \in Frame
    BY <1>1, <1>2
  <2> HIDE DEF n
  <2>4. Below \in Seq(Frame) /\ Len(Below) = n
    BY <2>1, <2>2, <2>3
  <2> QED BY <2>2, <2>4 DEF n
<1> QED BY <1>1, <1>2, <1>3 DEF Top

(* The stack whose loop has met t: every frame keeps its kind and its task. *)
LEMMA Advances ==
    ASSUME stack \in Seq(Frame), Running({"progress"}), NEW t
    PROVE  /\ Advanced(t) \in Seq(Frame) /\ Len(Advanced(t)) = Len(stack)
           /\ \A i \in 1 .. Len(stack) : /\ Advanced(t)[i].kind = stack[i].kind
                                         /\ Advanced(t)[i].task = stack[i].task
           /\ Len(stack) \in Nat \ {0} /\ Top.kind = "progress"
<1>1. Len(stack) \in Nat \ {0} /\ Top \in Frame /\ Top.kind = "progress"
  BY Popped DEF Running
<1>2. DOMAIN stack = 1 .. Len(stack)
  BY LenProperties
<1> DEFINE f == [Top EXCEPT !.rest = @ \ {t}]
<1>3. f \in Frame /\ f.kind = Top.kind /\ f.task = Top.task
  BY <1>1 DEF Frame
<1> HIDE DEF f
<1>4. Advanced(t) = [stack EXCEPT ![Len(stack)] = f]
  BY DEF Advanced, f
<1>5. Advanced(t) \in Seq(Frame) /\ Len(Advanced(t)) = Len(stack)
  BY SMTT(30), <1>1, <1>3, <1>4, ExceptSeq
<1>6. ASSUME NEW i \in 1 .. Len(stack)
      PROVE  Advanced(t)[i].kind = stack[i].kind /\ Advanced(t)[i].task = stack[i].task
  BY Zenon, <1>1, <1>2, <1>3, <1>4 DEF Top
<1> QED BY <1>1, <1>5, <1>6

(* There are finitely many tasks.                                           *)
LEMMA LivingFinite ==
    ASSUME NEW w
    PROVE  IsFiniteSet(Living(w)) /\ Cardinality(Living(w)) \in Nat
<1>1. IsFiniteSet(Task)
  BY FS_Interval, TasksAssumption DEF Task
<1> QED BY <1>1, FS_Subset, FS_CardinalityType DEF Living

(* The invariant gives what is promised of tasks.                           *)
LEMMA InvGivesLife ==
    ASSUME TasksInv
    PROVE  TaskLife
<1> USE DEF TasksInv
<1>1. RunsOnce
  BY DEF RunsOnce, Endings
<1>2. HandlesUsable
  <2> SUFFICES ASSUME Executing, NEW t \in Owned(Len(stack))
               PROVE  work[t] \in {"Future", "Ready"}
    BY DEF HandlesUsable
  <2>1. t \in Task /\ home[t] = Len(stack) /\ Alive(t) /\ Len(stack) \in Nat \ {0} /\ ~failing
    BY Popped DEF Owned, Executing, Running, TasksTypeOK
  <2>2. work[t] # "Running"
    BY <2>1 DEF Places, OnStack, Frames, Depth
  <2>3. work[t] # "Consumed"
    BY <2>1 DEF Places, OnStack, Frames, Depth
  <2> QED BY <2>1, <2>2, <2>3 DEF TasksTypeOK, Work, Alive
<1>3. ASSUME stack = <<>>, NEW t \in Task PROVE ~Alive(t)
  <2>1. Len(stack) = 0 /\ Depth = {} /\ home[t] = 0
    BY <1>3 DEF Depth, TasksTypeOK
  <2> QED BY <2>1 DEF Places, OnStack
<1>4. OneTerminalPath
  <2>1. ASSUME NEW t \in Task PROVE Cardinality(ended[t]) <= 1
    <3>1. CASE ended[t] = {}
      BY <3>1, FS_EmptySet
    <3>2. CASE ended[t] # {}
      <4>1. PICK path : ended[t] = {path}
        BY Zenon, <3>2 DEF Endings
      <4>2. Cardinality({path}) = 1
        BY FS_Singleton
      <4> QED BY <4>1, <4>2
    <3> QED BY <3>1, <3>2
  <2> QED BY <1>3, <2>1 DEF OneTerminalPath, Endings, TasksTypeOK, Work, Alive
<1>5. TasksCounted
  <2>1. Living(work) = {t \in Task : Alive(t)}
    BY DEF Living, Alive
  <2>2. ASSUME stack = <<>> PROVE Living(work) = {}
    BY <1>3, <2>1, <2>2
  <2> QED BY <2>1, <2>2, FS_EmptySet DEF TasksCounted, Counted
<1> QED BY <1>1, <1>2, <1>4, <1>5 DEF TaskLife

-----------------------------------------------------------------------------

(* The stack s has the frames of the stack, whatever their loops still have *)
(* to meet.                                                                 *)
SameFrames(s) ==
    /\ s \in Seq(Frame) /\ Len(s) = Len(stack)
    /\ \A i \in Depth : s[i].kind = stack[i].kind /\ s[i].task = stack[i].task

(* A step that touches no task: a loop that skips one, a refused spawn, an  *)
(* error.                                                                   *)
LEMMA QuietStep ==
    ASSUME TasksInv, SameFrames(stack'), UNCHANGED <<work, home, live_tasks, runs, ended>>,
           registry' \subseteq Task, failing' \in BOOLEAN, failing => failing',
           yields' \in 0 .. MaxYields
    PROVE  TasksInv'
<1> USE DEF TasksInv
<1>1. Depth' = Depth
  BY DEF SameFrames, Depth
<1>2. TasksTypeOK'
  BY DEF TasksTypeOK, SameFrames
<1>3. Frames' /\ OneFrame'
  BY <1>1 DEF Frames, OneFrame, SameFrames
<1>4. Places'
  <2> SUFFICES ASSUME NEW u \in Task
               PROVE  /\ home[u] # 0 => (Alive(u)' /\ ended[u] = {} /\ stack'[home[u]].kind # "progress")
                      /\ work[u] = "Running" => OnStack("run", u)'
                      /\ work[u] = "Consumed" => (failing' \/ OnStack("await", u)')
                      /\ (Alive(u)' /\ home[u] = 0) => OnStack("await", u)'
                      /\ work[u] \in {"unborn", "Future"} => runs[u] = 0
                      /\ work[u] = "unborn" => ended[u] = {}
    BY DEF Places
  <2>1. home[u] # 0 => home[u] \in Depth
    BY DEF TasksTypeOK, Depth
  <2>2. (OnStack("run", u) => OnStack("run", u)') /\ (OnStack("await", u) => OnStack("await", u)')
    BY <1>1 DEF OnStack, SameFrames
  <2> QED BY <2>1, <2>2 DEF Places, Alive, SameFrames
<1> QED BY <1>2, <1>3, <1>4 DEF Endings, Counted

(* The number of living tasks when one is born or ends.                     *)
LEMMA LivingChange ==
    ASSUME TasksTypeOK, NEW t \in Task, NEW w \in Work,
           work' = [work EXCEPT ![t] = w]
    PROVE  /\ (work[t] = "unborn" /\ w = "Future") =>
                 Cardinality(Living(work')) = Cardinality(Living(work)) + 1
           /\ (Alive(t) /\ w = "gone") =>
                 Cardinality(Living(work')) = Cardinality(Living(work)) - 1
           /\ (Alive(t) /\ w \notin {"unborn", "gone"}) => Living(work') = Living(work)
<1>1. IsFiniteSet(Living(work))
  BY LivingFinite
<1>2. CASE work[t] = "unborn" /\ w = "Future"
  <2>1. Living(work') = Living(work) \union {t} /\ t \notin Living(work)
    BY <1>2 DEF Living, TasksTypeOK
  <2>2. Cardinality(Living(work) \union {t}) = Cardinality(Living(work)) + 1
    BY Zenon, <1>1, <2>1, FS_AddElement
  <2> QED BY Zenon, <1>2, <2>1, <2>2 DEF Alive
<1>3. CASE Alive(t) /\ w = "gone"
  <2>1. Living(work') = Living(work) \ {t} /\ t \in Living(work)
    BY <1>3 DEF Living, TasksTypeOK, Alive
  <2>2. Cardinality(Living(work) \ {t}) = Cardinality(Living(work)) - 1
    BY Zenon, <1>1, <2>1, FS_RemoveElement
  <2> QED BY Zenon, <1>3, <2>1, <2>2 DEF Alive
<1>4. (Alive(t) /\ w \notin {"unborn", "gone"}) => Living(work') = Living(work)
  BY DEF Living, TasksTypeOK, Alive
<1> QED BY <1>2, <1>3, <1>4


(* Async.spawn: the new task is in no frame, and its handle in the top one. *)
LEMMA SpawnStep ==
    ASSUME TasksInv, NEW t \in Task, Spawn(t)
    PROVE  TasksInv'
<1> USE DEF TasksInv
<1>1. Executing /\ work[t] = "unborn" /\ UNCHANGED <<stack, runs, ended, yields>>
  BY DEF Spawn
<1>2. /\ stack # <<>> /\ Top.kind # "progress" /\ Len(stack) \in Nat \ {0} /\ stack \in Seq(Frame)
      /\ Len(stack) \in Depth /\ Depth' = Depth
  BY <1>1, Popped DEF Executing, Running, TasksTypeOK, Depth
<1>3. CASE live_tasks + 1 <= MaxTasks
  <2>1. /\ live_tasks' = live_tasks + 1 /\ work' = [work EXCEPT ![t] = "Future"]
        /\ home' = [home EXCEPT ![t] = Len(stack)] /\ registry' = registry \union {t}
        /\ failing' = failing
    BY <1>3 DEF Spawn
  <2>2. TasksTypeOK'
    BY <1>1, <1>2, <1>3, <2>1, TasksAssumption DEF TasksTypeOK, Work
  <2>3. Counted'
    BY Zenon, <1>1, <2>1, LivingChange DEF Counted, Work
  <2>4. Frames'
    BY <1>1, <1>2, <2>1 DEF Frames, TasksTypeOK
  <2>5. OneFrame'
    BY <1>1, <1>2 DEF OneFrame
  <2>6. Places'
    <3>1. \A u \in Task : (OnStack("run", u) <=> OnStack("run", u)')
                          /\ (OnStack("await", u) <=> OnStack("await", u)')
      BY <1>1, <1>2 DEF OnStack
    <3> QED BY <1>1, <1>2, <2>1, <3>1 DEF Places, Alive, TasksTypeOK, Top
  <2>7. Endings'
    BY Zenon, <1>1, <2>1 DEF Endings, TasksTypeOK
  <2> QED BY <2>2, <2>3, <2>4, <2>5, <2>6, <2>7
<1>4. CASE ~(live_tasks + 1 <= MaxTasks)
  <2>1. failing' = TRUE /\ UNCHANGED <<live_tasks, work, home, registry, stack, runs, ended, yields>>
    BY <1>4 DEF Spawn
  <2>2. SameFrames(stack')
    BY <1>2, <2>1 DEF SameFrames, Depth
  <2> QED BY <2>1, <2>2, QuietStep DEF TasksTypeOK
<1> QED BY <1>3, <1>4

(* A task that is not running ends at once: it was cancelled, its result    *)
(* was taken, or the call of its body was refused.                          *)
LEMMA EndedStep ==
    ASSUME TasksInv, NEW t \in Task, home[t] # 0, work[t] \in {"Future", "Ready"},
           NEW path \in {"awaited", "cancelled"}, Note(t, path),
           work' = [work EXCEPT ![t] = "gone"], home' = [home EXCEPT ![t] = 0],
           live_tasks' = live_tasks - 1, failing' \in BOOLEAN, failing => failing',
           UNCHANGED <<registry, stack, runs, yields>>
    PROVE  TasksInv'
<1> USE DEF TasksInv
<1>1. Alive(t) /\ ended[t] = {} /\ Depth' = Depth
  BY DEF Alive, Places, Depth
<1>2. ended' = [ended EXCEPT ![t] = {path}]
  BY <1>1 DEF Note, TasksTypeOK
<1>3. Counted'
  BY Zenon, <1>1, LivingChange DEF Counted, Work
<1>4. TasksTypeOK'
  <2>1. live_tasks' \in Nat
    BY <1>3, LivingFinite DEF Counted
  <2> QED BY <1>2, <2>1, TasksAssumption DEF TasksTypeOK, Work
<1>5. Frames'
  BY <1>1, <1>2 DEF Frames, TasksTypeOK
<1>6. OneFrame'
  BY <1>1 DEF OneFrame
<1>7. Places'
  <2>1. \A u \in Task : (OnStack("run", u) <=> OnStack("run", u)')
                        /\ (OnStack("await", u) <=> OnStack("await", u)')
    BY <1>1 DEF OnStack
  <2> QED BY <1>1, <1>2, <2>1 DEF Places, Alive, TasksTypeOK
<1>8. Endings'
  BY Zenon, <1>1, <1>2 DEF Endings, TasksTypeOK
<1> QED BY <1>3, <1>4, <1>5, <1>6, <1>7, <1>8


(* The body of a pending task is entered, said task by task and frame by    *)
(* frame: the task was in no frame, and is now in the top one.              *)
LEMMA Entered ==
    ASSUME TasksInv, NEW t \in Task, work[t] = "Future", home[t] # 0,
           NEW n \in Nat, n = Len(stack), Len(stack') = n + 1, NEW kind \in {"await", "run"},
           stack'[n + 1].kind = kind, stack'[n + 1].task = t,
           \A i \in Depth : stack'[i].kind = stack[i].kind /\ stack'[i].task = stack[i].task,
           \A u \in Task : u # t => (/\ work'[u] = work[u] /\ home'[u] = home[u]
                                     /\ ended'[u] = ended[u] /\ runs'[u] = runs[u]),
           kind = "await" => (work'[t] = "Consumed" /\ home'[t] = 0 /\ ended'[t] = {"awaited"}),
           kind = "run" => (work'[t] = "Running" /\ home'[t] = home[t] /\ ended'[t] = {}),
           runs'[t] = 1, failing' = failing
    PROVE  Frames' /\ OneFrame' /\ Places' /\ Endings'
<1> USE DEF TasksInv
<1>1. Depth' = Depth \union {n + 1} /\ n + 1 \notin Depth /\ Depth \subseteq Nat
  BY DEF Depth
<1>2. Alive(t) /\ home[t] \in 1 .. n
  BY DEF Alive, TasksTypeOK
<1>3. \A i \in Depth : stack[i].kind \in {"await", "run"} => (stack[i].task \in Task /\ stack[i].task # t)
  BY DEF Frames
<1>4. Frames'
  <2> SUFFICES ASSUME NEW i \in Depth'
               PROVE  /\ stack'[i].kind = "await" =>
                           /\ stack'[i].task \in Task
                           /\ work'[stack'[i].task] = "Consumed" /\ home'[stack'[i].task] = 0
                           /\ ended'[stack'[i].task] # {}
                      /\ stack'[i].kind = "run" =>
                           /\ stack'[i].task \in Task
                           /\ work'[stack'[i].task] = "Running" /\ home'[stack'[i].task] \in 1 .. i - 1
    BY DEF Frames
  <2>1. CASE i \in Depth
    BY <1>3, <2>1 DEF Frames
  <2>2. CASE i = n + 1
    <3>1. stack'[i].kind = kind /\ stack'[i].task = t /\ home[t] \in 1 .. i - 1
      BY <1>2, <2>2
    <3>2. CASE kind = "await"
      BY Zenon, <3>1, <3>2
    <3>3. CASE kind = "run"
      BY <3>1, <3>3
    <3> QED BY <3>2, <3>3
  <2> QED BY <1>1, <2>1, <2>2
<1>5. OneFrame'
  BY <1>1, <1>3 DEF OneFrame
<1>6. Places'
  <2> SUFFICES ASSUME NEW u \in Task
               PROVE  /\ home'[u] # 0 => (Alive(u)' /\ ended'[u] = {} /\ stack'[home'[u]].kind # "progress")
                      /\ work'[u] = "Running" => OnStack("run", u)'
                      /\ work'[u] = "Consumed" => (failing' \/ OnStack("await", u)')
                      /\ (Alive(u)' /\ home'[u] = 0) => OnStack("await", u)'
                      /\ work'[u] \in {"unborn", "Future"} => runs'[u] = 0
                      /\ work'[u] = "unborn" => ended'[u] = {}
    BY DEF Places
  <2>1. home[u] # 0 => (home[u] \in Depth /\ stack'[home[u]].kind = stack[home[u]].kind)
    BY DEF TasksTypeOK, Depth
  <2>2. (OnStack("run", u) => OnStack("run", u)') /\ (OnStack("await", u) => OnStack("await", u)')
    BY <1>1 DEF OnStack
  <2>3. OnStack(kind, t)'
    BY <1>1 DEF OnStack
  <2>4. CASE u = t
    BY <2>1, <2>3, <2>4 DEF Places, Alive
  <2>5. CASE u # t
    BY <2>1, <2>2, <2>5 DEF Places, Alive
  <2> QED BY SMTT(30), <2>4, <2>5
<1>7. Endings'
  <2> SUFFICES ASSUME NEW u \in Task
               PROVE  /\ runs'[u] \in {0, 1}
                      /\ ended'[u] = {} \/ \E path : ended'[u] = {path}
                      /\ work'[u] = "gone" => ended'[u] # {}
    BY Zenon DEF Endings
  <2>1. CASE u = t
    BY Zenon, <2>1
  <2>2. CASE u # t
    BY ZenonT(30), <2>2 DEF Endings
  <2> QED BY Zenon, <2>1, <2>2
<1> QED BY <1>4, <1>5, <1>6, <1>7

(* The body of a pending task is entered, for await or by a loop.           *)
LEMMA EnteredStep ==
    ASSUME TasksInv, NEW t \in Task, work[t] = "Future", home[t] # 0,
           NEW s, SameFrames(s), NEW kind \in {"await", "run"}, NEW w,
           stack' = Append(s, Body(kind, t)), runs' = [runs EXCEPT ![t] = @ + 1],
           work' = [work EXCEPT ![t] = w], UNCHANGED <<registry, failing, live_tasks, yields>>,
           kind = "await" => (/\ w = "Consumed" /\ home' = [home EXCEPT ![t] = 0]
                              /\ Note(t, "awaited")),
           kind = "run" => (w = "Running" /\ UNCHANGED <<home, ended>>)
    PROVE  TasksInv'
<1> USE DEF TasksInv
<1> DEFINE n == Len(stack)
           f == Body(kind, t)
<1>1. f \in Frame /\ f.kind = kind /\ f.task = t
  BY DEF Body, Frame
<1> HIDE DEF f
<1>2. /\ stack' \in Seq(Frame) /\ Len(stack') = n + 1 /\ n \in Nat /\ stack'[n + 1] = f
      /\ \A i \in Depth : stack'[i].kind = stack[i].kind /\ stack'[i].task = stack[i].task
  BY <1>1, Pushed DEF SameFrames, Depth, f
<1>3. w \in {"Consumed", "Running"} /\ Alive(t) /\ ended[t] = {} /\ runs[t] = 0
  BY DEF Alive, Places, TasksTypeOK
<1>4. \A u \in Task : u # t => (work'[u] = work[u] /\ home'[u] = home[u] /\ ended'[u] = ended[u]
                                /\ runs'[u] = runs[u])
  BY DEF Note, TasksTypeOK
<1>5. /\ work'[t] = w /\ runs'[t] = 1
      /\ kind = "await" => (work'[t] = "Consumed" /\ home'[t] = 0 /\ ended'[t] = {"awaited"})
      /\ kind = "run" => (work'[t] = "Running" /\ home'[t] = home[t] /\ ended'[t] = {})
  BY <1>3 DEF Note, TasksTypeOK
<1>6. TasksTypeOK'
  <2>1. work' \in [Task -> Work] /\ runs' \in [Task -> Nat]
    BY <1>3 DEF TasksTypeOK, Work
  <2>2. ended' \in [Task -> SUBSET {"awaited", "cancelled", "dropped"}]
    BY ZenonT(30) DEF TasksTypeOK, Note
  <2>3. home \in [Task -> 0 .. n + 1]
    BY <1>2 DEF TasksTypeOK
  <2> HIDE DEF n
  <2>4. home' \in [Task -> 0 .. n + 1]
    BY SMTT(30), <1>2, <2>3
  <2> QED BY <1>2, <2>1, <2>2, <2>4 DEF TasksTypeOK
<1>7. Counted'
  BY Zenon, <1>3, LivingChange DEF Counted, Work
<1>8. Frames' /\ OneFrame' /\ Places' /\ Endings'
  <2>1. stack'[n + 1].kind = kind
    BY <1>1, <1>2
  <2>2. stack'[n + 1].task = t
    BY <1>1, <1>2
  <2>3. n = Len(stack) /\ n \in Nat /\ failing' = failing /\ Len(stack') = n + 1 /\ runs'[t] = 1
    BY <1>2, <1>5
  <2>4. \A i \in Depth : stack'[i].kind = stack[i].kind /\ stack'[i].task = stack[i].task
    BY Zenon, <1>2
  <2>5. kind = "await" => (work'[t] = "Consumed" /\ home'[t] = 0 /\ ended'[t] = {"awaited"})
    BY <1>5
  <2>6. kind = "run" => (work'[t] = "Running" /\ home'[t] = home[t] /\ ended'[t] = {})
    BY <1>5
  <2> HIDE DEF n, TasksInv
  <2> QED BY ZenonT(90), <1>4, <2>1, <2>2, <2>3, <2>4, <2>5, <2>6, Entered
<1> QED BY <1>6, <1>7, <1>8

(* await: the handle refers to a pending or finished task.                  *)
LEMMA AwaitStep ==
    ASSUME TasksInv, NEW t \in Task, Await(t)
    PROVE  TasksInv'
<1>1. /\ Executing /\ t \in Owned(Len(stack)) /\ home' = [home EXCEPT ![t] = 0]
      /\ Note(t, "awaited") /\ UNCHANGED <<registry, yields>>
  BY DEF Await
<1>2. work[t] \in {"Future", "Ready"}
  BY <1>1, InvGivesLife DEF TaskLife, HandlesUsable
<1>3. home[t] # 0 /\ failing = FALSE /\ stack \in Seq(Frame)
  BY <1>1, Popped DEF Owned, Executing, Running, TasksInv, TasksTypeOK
<1>4. SameFrames(stack)
  BY <1>3 DEF SameFrames
<1>5. CASE work[t] = "Ready"
  <2>1. work' = [work EXCEPT ![t] = "gone"] /\ live_tasks' = live_tasks - 1 /\ UNCHANGED <<stack, runs, failing>>
    BY <1>5 DEF Await
  <2> QED BY Zenon, <1>1, <1>2, <1>3, <2>1, EndedStep
<1>6. CASE work[t] = "Future"
  <2>1. /\ EnterBody("await", t, stack)
        /\ work' = [work EXCEPT ![t] = IF failing' THEN "gone" ELSE "Consumed"]
        /\ live_tasks' = IF failing' THEN live_tasks - 1 ELSE live_tasks
    BY <1>6 DEF Await
  <2>2. CASE CallDepth < MaxDepth
    <3>1. /\ stack' = Append(stack, Body("await", t)) /\ runs' = [runs EXCEPT ![t] = @ + 1]
          /\ failing' = failing
      BY <2>1, <2>2 DEF EnterBody
    <3>2. work' = [work EXCEPT ![t] = "Consumed"] /\ live_tasks' = live_tasks
      BY <1>3, <2>1, <3>1
    <3> QED BY Zenon, <1>1, <1>3, <1>4, <1>6, <3>1, <3>2, EnteredStep
  <2>3. CASE ~(CallDepth < MaxDepth)
    <3>1. failing' = TRUE /\ UNCHANGED <<stack, runs>>
      BY <2>1, <2>3 DEF EnterBody
    <3>2. work' = [work EXCEPT ![t] = "gone"] /\ live_tasks' = live_tasks - 1
      BY <2>1, <3>1
    <3> QED BY Zenon, <1>1, <1>2, <1>3, <3>1, <3>2, EndedStep
  <2> QED BY <2>2, <2>3
<1> QED BY <1>2, <1>5, <1>6

(* cancel: the handle never refers to a running task.                       *)
LEMMA CancelStep ==
    ASSUME TasksInv, NEW t \in Task, Cancel(t)
    PROVE  TasksInv'
<1>1. /\ Executing /\ t \in Owned(Len(stack)) /\ home' = [home EXCEPT ![t] = 0]
      /\ Note(t, "cancelled") /\ work' = [work EXCEPT ![t] = "gone"]
      /\ live_tasks' = live_tasks - 1 /\ failing' = (work[t] = "Running")
      /\ UNCHANGED <<registry, stack, runs, yields>>
  BY DEF Cancel
<1>2. work[t] \in {"Future", "Ready"}
  BY <1>1, InvGivesLife DEF TaskLife, HandlesUsable
<1>3. home[t] # 0 /\ failing = FALSE
  BY <1>1, Popped DEF Owned, Executing, Running, TasksInv, TasksTypeOK
<1> QED BY Zenon, <1>1, <1>2, <1>3, EndedStep


(* A loop could not call the body of a task: the error is on its way, and   *)
(* the task is consumed with its handle still in a frame.                   *)
LEMMA RefusedStep ==
    ASSUME TasksInv, NEW t \in Task, work[t] = "Future", home[t] # 0, SameFrames(stack'),
           work' = [work EXCEPT ![t] = "Consumed"], failing' = TRUE,
           UNCHANGED <<home, registry, live_tasks, runs, ended, yields>>
    PROVE  TasksInv'
<1> USE DEF TasksInv
<1>1. Depth' = Depth /\ Alive(t)
  BY DEF SameFrames, Depth, Alive
<1>2. TasksTypeOK'
  BY DEF TasksTypeOK, SameFrames, Work
<1>3. Frames' /\ OneFrame'
  <2>1. \A i \in Depth : stack[i].kind \in {"await", "run"} =>
            (stack[i].task \in Task /\ work'[stack[i].task] = work[stack[i].task])
    BY DEF Frames, TasksTypeOK
  <2>2. \A i \in Depth : stack'[i].kind = stack[i].kind /\ stack'[i].task = stack[i].task
    BY DEF SameFrames
  <2>3. Frames'
    BY <1>1, <2>1, <2>2 DEF Frames
  <2> QED BY <1>1, <2>2, <2>3 DEF OneFrame
<1>4. Counted'
  BY Zenon, <1>1, LivingChange DEF Counted, Work
<1>5. Places'
  <2>1. \A u \in Task : (OnStack("run", u) => OnStack("run", u)')
                        /\ (OnStack("await", u) => OnStack("await", u)')
    BY <1>1 DEF OnStack, SameFrames
  <2>2. \A u \in Task : home[u] # 0 => (home[u] \in Depth /\ stack'[home[u]].kind = stack[home[u]].kind)
    BY DEF TasksTypeOK, Depth, SameFrames
  <2> QED BY <2>1, <2>2 DEF Places, Alive, TasksTypeOK
<1>6. Endings'
  BY Zenon DEF Endings, TasksTypeOK
<1> QED BY <1>2, <1>3, <1>4, <1>5, <1>6


(* A frame without a task is pushed on the stack or popped from it: the     *)
(* tasks keep their places.                                                 *)
LEMMA LoopFrame ==
    ASSUME TasksInv, NEW n \in Nat, n = Len(stack), NEW m \in Nat, m = Len(stack'),
           stack' \in Seq(Frame), UNCHANGED <<work, home, failing, live_tasks, runs, ended>>,
           registry' \subseteq Task, yields' \in 0 .. MaxYields,
           \A i \in Depth : i \in Depth' => stack'[i] = stack[i],
           (m = n + 1 /\ stack'[m].kind = "progress") \/ (n = m + 1 /\ stack[n].kind = "progress")
    PROVE  TasksInv'
<1> USE DEF TasksInv
<1>1. /\ \A i \in Depth : stack[i].kind # "progress" => (i \in Depth' /\ stack'[i] = stack[i])
      /\ \A i \in Depth' : stack'[i].kind # "progress" => (i \in Depth /\ stack'[i] = stack[i])
  BY DEF Depth
<1>2. Frames'
  BY ZenonT(30), <1>1 DEF Frames
<1>3. OneFrame'
  BY <1>1 DEF OneFrame
<1>4. \A u \in Task : home[u] # 0 => (home[u] \in Depth /\ home[u] \in Depth' /\ stack'[home[u]] = stack[home[u]])
  BY <1>1 DEF Places, TasksTypeOK, Depth
<1>5. TasksTypeOK'
  BY <1>4 DEF TasksTypeOK, Depth
<1>6. Places'
  <2>1. \A u \in Task : (OnStack("run", u) => OnStack("run", u)')
                        /\ (OnStack("await", u) => OnStack("await", u)')
    BY <1>1 DEF OnStack
  <2> QED BY <1>4, <2>1 DEF Places, Alive
<1> QED BY SMTT(30), <1>2, <1>3, <1>5, <1>6 DEF Endings, Counted

(* await Async.yield() starts a loop, and a loop ends.                      *)
LEMMA LoopSteps ==
    ASSUME TasksInv, Yield \/ ProgressDone
    PROVE  TasksInv'
<1>1. stack \in Seq(Frame) /\ stack # <<>> /\ Len(stack) \in Nat \ {0} /\ Len(stack) - 1 \in Nat
  BY Popped DEF Yield, ProgressDone, Executing, Running, TasksInv, TasksTypeOK
<1>2. CASE Yield
  <2> DEFINE f == [kind |-> "progress", task |-> NoTask, rest |-> registry']
  <2>1. /\ registry' \subseteq Task /\ yields' \in 0 .. MaxYields /\ stack' = Append(stack, f)
        /\ UNCHANGED <<work, home, failing, live_tasks, runs, ended>>
    BY <1>2, TasksAssumption DEF Yield, TasksInv, TasksTypeOK
  <2>2. f \in Frame /\ f.kind = "progress"
    BY <2>1 DEF Frame
  <2> HIDE DEF f
  <2>3. /\ stack' \in Seq(Frame) /\ Len(stack') = Len(stack) + 1 /\ stack'[Len(stack) + 1] = f
        /\ \A i \in Depth : stack'[i] = stack[i]
    BY <1>1, <2>1, <2>2, Pushed DEF Depth
  <2>4. Len(stack') \in Nat /\ stack'[Len(stack')].kind = "progress"
    BY <1>1, <2>2, <2>3
  <2> QED BY Zenon, <1>1, <2>1, <2>3, <2>4, LoopFrame
<1>3. CASE ProgressDone
  <2>1. Running({"progress"}) /\ stack' = Below
        /\ UNCHANGED <<work, home, registry, failing, live_tasks, runs, ended, yields>>
    BY <1>3 DEF ProgressDone
  <2>2. /\ stack' \in Seq(Frame) /\ Len(stack') = Len(stack) - 1
        /\ \A i \in Depth' : stack'[i] = stack[i]
    BY <1>1, <2>1, Popped DEF Depth
  <2>3. /\ Len(stack') \in Nat /\ Len(stack) = Len(stack') + 1
        /\ stack[Len(stack)].kind = "progress"
    BY <1>1, <2>1, <2>2 DEF Running, Top
  <2>4. registry' \subseteq Task /\ yields' \in 0 .. MaxYields
    BY <2>1 DEF TasksInv, TasksTypeOK
  <2> QED BY <1>1, <2>1, <2>2, <2>3, <2>4, LoopFrame
<1> QED BY <1>2, <1>3

(* One turn of a loop.                                                      *)
LEMMA ProgressStep ==
    ASSUME TasksInv, Progress
    PROVE  TasksInv'
<1>1. /\ Running({"progress"}) /\ failing = FALSE /\ stack \in Seq(Frame)
      /\ UNCHANGED <<home, registry, live_tasks, ended, yields>>
  BY DEF Progress, TasksInv, TasksTypeOK
<1>2. PICK t \in Task :
        IF work[t] = "Future"
        THEN /\ EnterBody("run", t, Advanced(t))
             /\ work' = [work EXCEPT ![t] = IF failing' THEN "Consumed" ELSE "Running"]
        ELSE stack' = Advanced(t) /\ UNCHANGED <<work, runs, failing>>
  BY DEF Progress
<1>3. SameFrames(Advanced(t))
  BY <1>1, Advances DEF SameFrames, Depth
<1>4. CASE work[t] # "Future"
  <2>1. stack' = Advanced(t) /\ UNCHANGED <<work, runs, failing>>
    BY <1>2, <1>4
  <2>2. registry' \subseteq Task /\ yields' \in 0 .. MaxYields /\ failing' \in BOOLEAN
    BY <1>1, <2>1 DEF TasksInv, TasksTypeOK
  <2> QED BY <1>1, <1>3, <2>1, <2>2, QuietStep
<1>5. CASE work[t] = "Future"
  <2>1. /\ EnterBody("run", t, Advanced(t))
        /\ work' = [work EXCEPT ![t] = IF failing' THEN "Consumed" ELSE "Running"]
    BY <1>2, <1>5
  <2>2. home[t] # 0
    BY <1>5 DEF TasksInv, Places, OnStack, Frames, Alive
  <2>3. CASE CallDepth < MaxDepth
    <3>1. /\ stack' = Append(Advanced(t), Body("run", t)) /\ runs' = [runs EXCEPT ![t] = @ + 1]
          /\ failing' = failing
      BY <2>1, <2>3 DEF EnterBody
    <3>2. work' = [work EXCEPT ![t] = "Running"]
      BY <1>1, <2>1, <3>1
    <3> QED BY Zenon, <1>1, <1>3, <1>5, <2>2, <3>1, <3>2, EnteredStep
  <2>4. CASE ~(CallDepth < MaxDepth)
    <3>1. failing' = TRUE /\ stack' = Advanced(t) /\ runs' = runs
      BY <2>1, <2>4 DEF EnterBody
    <3>2. work' = [work EXCEPT ![t] = "Consumed"]
      BY <2>1, <3>1
    <3> QED BY Zenon, <1>1, <1>3, <1>5, <2>2, <3>1, <3>2, RefusedStep
  <2> QED BY <2>3, <2>4
<1> QED BY <1>4, <1>5


(* A frame ends.  Its task, if a loop ran it, has its handle further down,  *)
(* and no task of another frame is among those that end with it.            *)
LEMMA LeaveStep ==
    ASSUME TasksInv, Leave
    PROVE  TasksInv'
<1> USE DEF TasksInv
<1> DEFINE n == Len(stack)
           mine == Owned(n)
           taken == IF Top.kind = "await" THEN {Top.task} ELSE {}
           over == mine \union taken
<1>1. stack \in Seq(Frame) /\ stack # <<>> /\ Top.kind # "progress" /\ stack' = Below
      /\ UNCHANGED <<registry, failing, runs, yields>>
  BY DEF Leave, Running, TasksTypeOK
<1>2. /\ n \in Nat \ {0} /\ n - 1 \in Nat /\ Top \in Frame /\ stack' \in Seq(Frame)
      /\ Len(stack') = n - 1 /\ \A i \in 1 .. n - 1 : stack'[i] = stack[i]
  BY <1>1, Popped
<1>3. /\ Depth' = 1 .. n - 1 /\ n \in Depth /\ stack[n] = Top
      /\ \A i \in Depth : i # n => i \in Depth'
      /\ \A i \in Depth' : i \in Depth /\ i # n /\ stack'[i] = stack[i]
  BY <1>2 DEF Depth, Top
<1>4. \A u \in Task :
        /\ u \in over => work'[u] = "gone"
        /\ (u \notin over /\ Top.kind = "run" /\ u = Top.task) =>
              work'[u] = (IF failing THEN "Consumed" ELSE "Ready")
        /\ (u \notin over /\ ~(Top.kind = "run" /\ u = Top.task)) => work'[u] = work[u]
        /\ u \in mine => ended'[u] = ended[u] \union {"dropped"}
        /\ u \notin mine => ended'[u] = ended[u]
        /\ home[u] = n => home'[u] = 0
        /\ home[u] # n => home'[u] = home[u]
  BY DEF Leave
<1>5. /\ work' \in [Task -> Work] /\ home' \in [Task -> 0 .. n - 1]
      /\ ended' \in [Task -> SUBSET {"awaited", "cancelled", "dropped"}]
  <2>1. work' = [u \in Task |-> work'[u]] /\ home' = [u \in Task |-> home'[u]]
        /\ ended' = [u \in Task |-> ended'[u]]
    BY DEF Leave
  <2>2. \A u \in Task : work'[u] \in Work
    BY <1>4 DEF TasksTypeOK, Work
  <2>3. \A u \in Task : home'[u] \in 0 .. n - 1
    BY <1>2, <1>4 DEF TasksTypeOK
  <2>4. \A u \in Task : ended'[u] \in SUBSET {"awaited", "cancelled", "dropped"}
    BY <1>4 DEF TasksTypeOK
  <2> QED BY <2>1, <2>2, <2>3, <2>4
<1>6. \A u \in Task : u \in mine <=> (home[u] = n /\ Alive(u))
  BY DEF Owned
<1>7. /\ Top.kind = "await" => (/\ Top.task \in Task /\ work[Top.task] = "Consumed"
                                /\ home[Top.task] = 0 /\ ended[Top.task] # {})
      /\ Top.kind = "run" => (/\ Top.task \in Task /\ work[Top.task] = "Running"
                              /\ home[Top.task] # 0 /\ home[Top.task] # n)
  BY <1>2, <1>3 DEF Frames
<1>8. live_tasks' = live_tasks - Cardinality(over)
  BY DEF Leave
<1>9. mine \subseteq Task /\ taken \subseteq Task
  BY <1>7 DEF Owned
<1>10. \A u \in Task : u \in taken <=> (Top.kind = "await" /\ u = Top.task)
  OBVIOUS
<1> HIDE DEF mine, taken
<1>11. Living(work') = Living(work) \ over /\ over \subseteq Living(work)
  BY <1>4, <1>6, <1>7, <1>9, <1>10 DEF Living, Alive
<1>12. Counted'
  <2>1. Cardinality(Living(work) \ over) = Cardinality(Living(work)) - Cardinality(Living(work) \cap over)
    BY Zenon, LivingFinite, FS_Difference
  <2>2. Living(work) \cap over = over
    BY <1>11
  <2> QED BY <1>8, <1>11, <2>1, <2>2 DEF Counted
<1>13. TasksTypeOK'
  <2>1. live_tasks' \in Nat /\ Cardinality(over) \in Nat
    BY <1>11, <1>12, LivingFinite, FS_Subset, FS_CardinalityType DEF Counted
  <2>2. live_tasks' \in 0 .. MaxTasks
    BY <1>8, <2>1, TasksAssumption DEF TasksTypeOK
  <2> QED BY <1>1, <1>2, <1>5, <2>2 DEF TasksTypeOK
<1>14. ASSUME NEW i \in Depth', stack[i].kind \in {"await", "run"}
       PROVE  /\ stack[i].task \in Task /\ stack[i].task \notin over
              /\ ~(Top.kind = "run" /\ stack[i].task = Top.task)
  <2>1. i \in Depth /\ i # n /\ i \in Nat /\ i <= n
    BY <1>2, <1>3
  <2>2. stack[i].task \in Task /\ (home[stack[i].task] = 0 \/ home[stack[i].task] \in 1 .. i - 1)
    BY <1>14, <2>1 DEF Frames
  <2>3. home[stack[i].task] # n
    BY <1>2, <2>1, <2>2
  <2>4. Top.kind \in {"await", "run"} => stack[i].task # Top.task
    BY <1>3, <1>14, <2>1 DEF OneFrame
  <2> QED BY <1>6, <1>10, <2>2, <2>3, <2>4
<1>15. Frames'
  <2> SUFFICES ASSUME NEW i \in Depth'
               PROVE  /\ stack'[i].kind = "await" =>
                           /\ stack'[i].task \in Task
                           /\ work'[stack'[i].task] = "Consumed" /\ home'[stack'[i].task] = 0
                           /\ ended'[stack'[i].task] # {}
                      /\ stack'[i].kind = "run" =>
                           /\ stack'[i].task \in Task
                           /\ work'[stack'[i].task] = "Running" /\ home'[stack'[i].task] \in 1 .. i - 1
    BY DEF Frames
  <2>1. i \in Depth /\ stack'[i] = stack[i] /\ i \in 1 .. n - 1
    BY <1>3
  <2>2. ASSUME stack[i].kind = "await"
        PROVE  /\ stack[i].task \in Task /\ work'[stack[i].task] = "Consumed"
               /\ home'[stack[i].task] = 0 /\ ended'[stack[i].task] # {}
    BY SMTT(30), <1>2, <1>4, <1>14, <2>1, <2>2 DEF Frames
  <2>3. ASSUME stack[i].kind = "run"
        PROVE  /\ stack[i].task \in Task /\ work'[stack[i].task] = "Running"
               /\ home'[stack[i].task] \in 1 .. i - 1
    <3>1. /\ stack[i].task \in Task /\ stack[i].task \notin over
          /\ ~(Top.kind = "run" /\ stack[i].task = Top.task)
      BY <1>14, <2>3
    <3>2. work[stack[i].task] = "Running" /\ home[stack[i].task] \in 1 .. i - 1
      BY <2>1, <2>3 DEF Frames
    <3>3. home[stack[i].task] # n
      BY <1>2, <2>1, <3>2
    <3> QED BY <1>4, <3>1, <3>2, <3>3
  <2> QED BY <2>1, <2>2, <2>3
<1>16. OneFrame'
  BY <1>3 DEF OneFrame
<1>17. Endings'
  <2> SUFFICES ASSUME NEW u \in Task
               PROVE  /\ runs'[u] \in {0, 1}
                      /\ ended'[u] = {} \/ \E path : ended'[u] = {path}
                      /\ work'[u] = "gone" => ended'[u] # {}
    BY DEF Endings
  <2>1. CASE u \in mine
    <3>1. ended[u] = {}
      BY <1>2, <1>6, <2>1 DEF Places
    <3>2. ended'[u] = {"dropped"}
      BY <1>4, <2>1, <3>1
    <3> QED BY Zenon, <1>1, <3>2 DEF Endings
  <2>2. CASE u \notin mine
    <3>1. ended'[u] = ended[u]
      BY <1>4, <2>2
    <3>2. work'[u] = "gone" => ended[u] # {}
      BY <1>4, <1>7, <1>10, <2>2 DEF Endings
    <3> QED BY <1>1, <3>1, <3>2 DEF Endings
  <2> QED BY <2>1, <2>2
<1>18. Places'
  <2> SUFFICES ASSUME NEW u \in Task
               PROVE  /\ home'[u] # 0 => (Alive(u)' /\ ended'[u] = {} /\ stack'[home'[u]].kind # "progress")
                      /\ work'[u] = "Running" => OnStack("run", u)'
                      /\ work'[u] = "Consumed" => (failing' \/ OnStack("await", u)')
                      /\ (Alive(u)' /\ home'[u] = 0) => OnStack("await", u)'
                      /\ work'[u] \in {"unborn", "Future"} => runs'[u] = 0
                      /\ work'[u] = "unborn" => ended'[u] = {}
    BY DEF Places
  <2>1. /\ (OnStack("run", u) /\ ~(Top.kind = "run" /\ u = Top.task)) => OnStack("run", u)'
        /\ (OnStack("await", u) /\ u \notin over) => OnStack("await", u)'
    BY Zenon, <1>3, <1>10 DEF OnStack
  <2>2. (home[u] # 0 /\ home[u] # n) => stack'[home[u]] = stack[home[u]]
    <3>1. home[u] \in 0 .. n
      BY DEF TasksTypeOK
    <3>2. (home[u] # 0 /\ home[u] # n) => home[u] \in 1 .. n - 1
      BY <1>2, <3>1
    <3> QED BY <1>2, <3>2
  <2>3. home'[u] # 0 => (Alive(u)' /\ ended'[u] = {} /\ stack'[home'[u]].kind # "progress")
    BY <1>4, <1>6, <1>7, <1>10, <2>2 DEF Places, Alive
  <2>4. work'[u] = "Running" => OnStack("run", u)'
    BY <1>4, <2>1 DEF Places
  <2>5. work'[u] = "Consumed" => (failing' \/ OnStack("await", u)')
    BY <1>1, <1>4, <2>1 DEF Places
  <2>6. (Alive(u)' /\ home'[u] = 0) => OnStack("await", u)'
    BY SMTT(30), <1>4, <1>6, <1>7, <2>1 DEF Places, Alive
  <2>7. work'[u] \in {"unborn", "Future"} => runs'[u] = 0
    BY <1>1, <1>4 DEF Places
  <2>8. work'[u] = "unborn" => ended'[u] = {}
    BY <1>4, <1>6 DEF Places, Alive
  <2> QED BY SMTT(30), <2>3, <2>4, <2>5, <2>6, <2>7, <2>8
<1> QED BY <1>12, <1>13, <1>15, <1>16, <1>17, <1>18

(* The program starts with main on the stack and no task.                   *)
LEMMA TasksInitially ==
    ASSUME TasksInit
    PROVE  TasksInv
<1>1. /\ stack = <<Body("main", NoTask)>> /\ Body("main", NoTask) \in Frame
      /\ Body("main", NoTask).kind = "main"
  BY DEF TasksInit, Body, Frame
<1>2. stack \in Seq(Frame) /\ Len(stack) = 1 /\ Depth = {1} /\ stack[1].kind = "main"
  BY <1>1 DEF Depth
<1>3. TasksTypeOK
  <2>1. work \in [Task -> Work] /\ runs \in [Task -> Nat] /\ registry \subseteq Task /\ failing \in BOOLEAN
    BY Zenon DEF TasksInit, Work
  <2>2. home \in [Task -> 0 .. 1] /\ ended \in [Task -> SUBSET {"awaited", "cancelled", "dropped"}]
    BY DEF TasksInit
  <2>3. live_tasks \in 0 .. MaxTasks /\ yields \in 0 .. MaxYields
    BY TasksAssumption DEF TasksInit
  <2> QED BY <1>2, <2>1, <2>2, <2>3 DEF TasksTypeOK
<1>4. Frames /\ OneFrame
  BY <1>2 DEF Frames, OneFrame
<1>5. Places /\ Endings
  BY DEF TasksInit, Places, Endings, Alive
<1>6. Counted
  <2>1. Living(work) = {}
    BY DEF TasksInit, Living
  <2> QED BY <2>1, FS_EmptySet DEF TasksInit, Counted
<1> QED BY <1>3, <1>4, <1>5, <1>6 DEF TasksInv

(* Every step keeps the invariant.                                          *)
LEMMA TasksSteps ==
    ASSUME TasksInv, [TasksNext]_tasks_vars
    PROVE  TasksInv'
<1>1. stack \in Seq(Frame) /\ SameFrames(stack) /\ registry \subseteq Task
      /\ failing \in BOOLEAN /\ yields \in 0 .. MaxYields
  BY DEF TasksInv, TasksTypeOK, SameFrames
<1>2. CASE \E t \in Task : Spawn(t) \/ Await(t) \/ Cancel(t)
  BY <1>2, SpawnStep, AwaitStep, CancelStep
<1>3. CASE Yield \/ ProgressDone
  BY <1>3, LoopSteps
<1>4. CASE Progress
  BY <1>4, ProgressStep
<1>5. CASE Leave
  BY <1>5, LeaveStep
<1>6. CASE TaskError
  <2>1. failing' = TRUE /\ UNCHANGED <<work, home, registry, stack, live_tasks, runs, ended, yields>>
    BY <1>6 DEF TaskError
  <2> QED BY <1>1, <2>1, QuietStep
<1>7. CASE UNCHANGED tasks_vars
  <2>1. UNCHANGED <<work, home, registry, stack, failing, live_tasks, runs, ended, yields>>
    BY <1>7 DEF tasks_vars
  <2> QED BY <1>1, <2>1, QuietStep
<1> QED BY <1>2, <1>3, <1>4, <1>5, <1>6, <1>7 DEF TasksNext

(* For any number of tasks, any depth of nested yields and any limits: a    *)
(* task is entered at most once, ends exactly one way before its scope      *)
(* does, is counted while it exists, and is pending or finished whenever    *)
(* the frame that holds its handle executes.                                *)
THEOREM TasksCorrect == TasksSpec => []TaskLife
<1>1. TasksInit => TasksInv
  BY TasksInitially
<1>2. TasksInv /\ [TasksNext]_tasks_vars => TasksInv'
  BY TasksSteps
<1>3. TasksInv => TaskLife
  BY InvGivesLife
<1> QED BY <1>1, <1>2, <1>3, PTL DEF TasksSpec
=============================================================================
