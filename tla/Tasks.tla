------------------------------- MODULE Tasks -------------------------------
(***************************************************************************)
(* Structured async tasks in the interpreter.  There is no executor: one    *)
(* thread runs everything on its own stack.  `await Async.yield()` runs     *)
(* every pending task to its end, nested inside the frame that yields; a    *)
(* task that yields in turn runs the others one level deeper.  `await task` *)
(* runs a task nobody has run yet, or takes its result.                     *)
(***************************************************************************)
EXTENDS Naturals, Sequences, FiniteSets

CONSTANTS MaxSpawns, \* bound: tasks the program creates
          MaxTasks,  \* limits.max_tasks
          MaxDepth,  \* limits.max_call_depth
          MaxYields  \* bound: yields made by the program

ASSUME TasksAssumption ==
    /\ MaxSpawns \in Nat
    /\ MaxTasks \in Nat /\ MaxDepth \in Nat \ {0} /\ MaxYields \in Nat

(* Tasks are numbered in the order of their creation.                       *)
Task == 1 .. MaxSpawns
NoTask == 0

VARIABLES work,       \* RuntimeTaskWork of each task
          home,      \* stack position of the frame that owns the handle, or 0
          registry,   \* self.tasks: the tasks it refers to; its order is theirs
          stack,      \* the frames, the running one last
          failing,    \* a runtime error is unwinding the stack
          live_tasks, \* budget.live_tasks
          runs,       \* history: how often the body of each task was entered
          ended,      \* history: the terminal paths each task took
          yields      \* bound

tasks_vars == <<work, home, registry, stack, failing, live_tasks, runs, ended, yields>>

(* A body frame runs main, a task for `await`, or a task for a yield; a     *)
(* progress frame is the loop of progress_tasks over its snapshot, with     *)
(* the tasks that it has still to meet.                                     *)
Frame == [kind : {"main", "await", "run"}, task : Task \union {NoTask}, rest : {{}}]
         \union [kind : {"progress"}, task : {NoTask}, rest : SUBSET Task]

Work == {"unborn", "Future", "Running", "Ready", "Consumed", "gone"}

TasksTypeOK ==
    /\ work \in [Task -> Work]
    /\ home \in [Task -> 0 .. Len(stack)]
    /\ registry \subseteq Task
    /\ stack \in Seq(Frame)
    /\ failing \in BOOLEAN
    /\ live_tasks \in 0 .. MaxTasks
    /\ runs \in [Task -> Nat]
    /\ ended \in [Task -> SUBSET {"awaited", "cancelled", "dropped"}]
    /\ yields \in 0 .. MaxYields

Body(kind, t) == [kind |-> kind, task |-> t, rest |-> {}]
Alive(t) == work[t] \notin {"unborn", "gone"}
Top == stack[Len(stack)]
Running(kinds) == stack # <<>> /\ Top.kind \in kinds
Executing == Running({"main", "await", "run"}) /\ ~failing
Below == SubSeq(stack, 1, Len(stack) - 1)
CallDepth == Len(SelectSeq(stack, LAMBDA f : f.kind # "progress"))
Owned(d) == {t \in Task : home[t] = d /\ Alive(t)}

TasksInit ==
    /\ work = [t \in Task |-> "unborn"]
    /\ home = [t \in Task |-> 0]
    /\ registry = {}
    /\ stack = <<Body("main", NoTask)>>
    /\ failing = FALSE
    /\ live_tasks = 0
    /\ runs = [t \in Task |-> 0]
    /\ ended = [t \in Task |-> {}]
    /\ yields = 0

-----------------------------------------------------------------------------

Note(t, path) == ended' = [ended EXCEPT ![t] = @ \union {path}]

(* Async.spawn: the future becomes a pending task of the running frame.     *)
Spawn(t) ==
    /\ Executing
    /\ work[t] = "unborn" /\ \A u \in 1 .. t - 1 : work[u] # "unborn"
    /\ IF live_tasks + 1 <= MaxTasks
       THEN /\ live_tasks' = live_tasks + 1
            /\ work' = [work EXCEPT ![t] = "Future"]
            /\ home' = [home EXCEPT ![t] = Len(stack)]
            /\ registry' = registry \union {t}
            /\ UNCHANGED failing
       ELSE failing' = TRUE /\ UNCHANGED <<live_tasks, work, home, registry>>
    /\ UNCHANGED <<stack, runs, ended, yields>>

(* call_function_body for the future of t, on top of the frames s.          *)
EnterBody(kind, t, s) ==
    IF CallDepth < MaxDepth
    THEN /\ stack' = Append(s, Body(kind, t))
         /\ runs' = [runs EXCEPT ![t] = @ + 1]
         /\ UNCHANGED failing
    ELSE /\ failing' = TRUE
         /\ stack' = s
         /\ UNCHANGED runs

(* await task: the handle is consumed and the work replaced by Consumed.    *)
Await(t) ==
    /\ Executing
    /\ t \in Owned(Len(stack))
    /\ home' = [home EXCEPT ![t] = 0]
    /\ Note(t, "awaited")
    /\ CASE work[t] = "Future" ->
              /\ EnterBody("await", t, stack)
              /\ work' = [work EXCEPT ![t] = IF failing' THEN "gone" ELSE "Consumed"]
              /\ live_tasks' = IF failing' THEN live_tasks - 1 ELSE live_tasks
         [] work[t] = "Ready" ->
              /\ work' = [work EXCEPT ![t] = "gone"]
              /\ live_tasks' = live_tasks - 1
              /\ UNCHANGED <<stack, runs, failing>>
         [] OTHER ->
              /\ failing' = TRUE
              /\ work' = [work EXCEPT ![t] = "gone"]
              /\ live_tasks' = live_tasks - 1
              /\ UNCHANGED <<stack, runs>>
    /\ UNCHANGED <<registry, yields>>

(* task.cancel(): the work is dropped at once; a running task refuses.      *)
Cancel(t) ==
    /\ Executing
    /\ t \in Owned(Len(stack))
    /\ home' = [home EXCEPT ![t] = 0]
    /\ Note(t, "cancelled")
    /\ work' = [work EXCEPT ![t] = "gone"]
    /\ live_tasks' = live_tasks - 1
    /\ failing' = (work[t] = "Running")
    /\ UNCHANGED <<registry, stack, runs, yields>>

(* await Async.yield(): progress_tasks takes a snapshot of the live tasks.  *)
Yield ==
    /\ Executing
    /\ yields < MaxYields
    /\ yields' = yields + 1
    /\ registry' = {t \in registry : Alive(t)}
    /\ stack' = Append(stack, [kind |-> "progress", task |-> NoTask, rest |-> registry'])
    /\ UNCHANGED <<work, home, failing, live_tasks, runs, ended>>

(* The loop meets the tasks of its snapshot in the order of creation.       *)
Met(t) == t \in Top.rest /\ \A u \in Top.rest : t <= u
Advanced(t) == [stack EXCEPT ![Len(stack)] = [Top EXCEPT !.rest = @ \ {t}]]

(* A fault: the loop runs whatever its snapshot holds.                      *)
ProgressTrusting ==
    /\ Running({"progress"}) /\ ~failing
    /\ \E t \in Task :
          /\ Met(t)
          /\ EnterBody("run", t, Advanced(t))
          /\ work' = [work EXCEPT ![t] = "Running"]
    /\ UNCHANGED <<home, registry, live_tasks, ended, yields>>

(* One turn of the loop: a task that is gone, has run or is running is      *)
(* skipped, a pending one is marked Running and entered.                    *)
Progress ==
    /\ Running({"progress"}) /\ ~failing
    /\ \E t \in Task :
          /\ Met(t)
          /\ IF work[t] = "Future"
             THEN /\ EnterBody("run", t, Advanced(t))
                  /\ work' = [work EXCEPT ![t] = IF failing' THEN "Consumed" ELSE "Running"]
             ELSE stack' = Advanced(t) /\ UNCHANGED <<work, runs, failing>>
    /\ UNCHANGED <<home, registry, live_tasks, ended, yields>>

ProgressDone ==
    /\ Running({"progress"})
    /\ Top.rest = {} \/ failing
    /\ stack' = Below
    /\ UNCHANGED <<work, home, registry, failing, live_tasks, runs, ended, yields>>

TaskError ==
    /\ Executing
    /\ failing' = TRUE
    /\ UNCHANGED <<work, home, registry, stack, live_tasks, runs, ended, yields>>

(* A body returns, or the error leaves it: the scope drops the task handles *)
(* it still owns; a task run by a yield becomes Ready, or Consumed after an *)
(* error; a task run by await is released.                                  *)
Leave ==
    /\ Running({"main", "await", "run"})
    /\ LET mine == Owned(Len(stack))
           taken == IF Top.kind = "await" THEN {Top.task} ELSE {}
       IN  /\ work' = [t \in Task |->
                         IF t \in mine \union taken THEN "gone"
                         ELSE IF Top.kind = "run" /\ t = Top.task
                              THEN IF failing THEN "Consumed" ELSE "Ready"
                         ELSE work[t]]
           /\ ended' = [t \in Task |->
                          IF t \in mine THEN ended[t] \union {"dropped"} ELSE ended[t]]
           /\ live_tasks' = live_tasks - Cardinality(mine \union taken)
    /\ home' = [t \in Task |-> IF home[t] = Len(stack) THEN 0 ELSE home[t]]
    /\ stack' = Below
    /\ UNCHANGED <<registry, failing, runs, yields>>

TasksNext ==
    \/ \E t \in Task : Spawn(t) \/ Await(t) \/ Cancel(t)
    \/ Yield
    \/ Progress
    \/ ProgressDone
    \/ TaskError
    \/ Leave

TasksSpec == TasksInit /\ [][TasksNext]_tasks_vars

-----------------------------------------------------------------------------

(* The body of a future is entered at most once, although a nested yield    *)
(* meets the task again in its snapshot and an await may follow.            *)
RunsOnce == \A t \in Task : runs[t] <= 1

(* Whenever a frame executes, the tasks it may still await or cancel are    *)
(* pending or finished: "task cannot await itself", "task has already been  *)
(* awaited" and "a running task cannot cancel itself" are never reached.    *)
HandlesUsable ==
    Executing => \A t \in Owned(Len(stack)) : work[t] \in {"Future", "Ready"}

(* The budget counts the task states that exist, through nested runs and    *)
(* unwinding, and the end of main leaves none.                              *)
TasksCounted ==
    /\ live_tasks = Cardinality({t \in Task : Alive(t)})
    /\ stack = <<>> => live_tasks = 0

(* docs/language/ASYNC.md: every task reaches exactly one terminal path,    *)
(* await, cancel or scope cleanup, before its scope is destroyed.           *)
OneTerminalPath ==
    \A t \in Task :
        /\ Cardinality(ended[t]) <= 1
        /\ work[t] = "gone" => ended[t] # {}
        /\ stack = <<>> => work[t] \in {"unborn", "gone"}

(* A task runs at most once and ends one way, is counted while it exists,   *)
(* and can be awaited or cancelled by the frame that owns it.               *)
TaskLife == RunsOnce /\ OneTerminalPath /\ TasksCounted /\ HandlesUsable

=============================================================================
