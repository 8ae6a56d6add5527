---------------------------- MODULE AtomicStore ----------------------------
(***************************************************************************)
(* What the durable store promises, without pages, logs or recovery.  At   *)
(* any time there is one stored snapshot, the one an open would read.  One *)
(* handle at a time has it open; a mutation replaces it in a single step   *)
(* that may fail without effect.  Until the mutation returns, and only     *)
(* until then, a power loss may take the step back.                        *)
(***************************************************************************)
CONSTANTS Store, Value, Empty

VARIABLES
  stored,  \* what an open would read now
  undo,    \* what it may read instead after a power loss
  phase,   \* of each handle: "none", "open", "busy", "done" or "closed"
  view,    \* the snapshot in memory of each handle that has the store open
  saved    \* the memory image a failed mutation restores

vars == <<stored, undo, phase, view, saved>>

Init ==
  /\ stored \in Value \cup {Empty}
  /\ undo  = stored
  /\ phase = [s \in Store |-> "none"]
  /\ view  = [s \in Store |-> Empty]
  /\ saved = [s \in Store |-> Empty]

Move(s, from, to) == phase[s] = from /\ phase' = [phase EXCEPT ![s] = to]

\* one handle at a time, and it sees the stored snapshot
Open(s) ==
  /\ \A t \in Store : phase[t] = "none"
  /\ undo = stored
  /\ Move(s, "none", "open")
  /\ view' = [view EXCEPT ![s] = stored]
  /\ UNCHANGED <<stored, undo, saved>>

Begin(s) ==
  /\ Move(s, "open", "busy")
  /\ \E v \in Value : view' = [view EXCEPT ![s] = v]
  /\ saved' = [saved EXCEPT ![s] = view[s]]
  /\ UNCHANGED <<stored, undo>>

\* the whole snapshot takes effect at once
Commit(s) ==
  /\ Move(s, "busy", "done")
  /\ stored' = view[s]
  /\ undo'   = stored
  /\ UNCHANGED <<view, saved>>

\* from here a power loss no longer takes the snapshot back
Harden ==
  /\ undo' = stored
  /\ UNCHANGED <<stored, phase, view, saved>>

Acknowledge(s) ==
  /\ undo = stored /\ stored = view[s]
  /\ Move(s, "done", "open")
  /\ saved' = [saved EXCEPT ![s] = Empty]
  /\ UNCHANGED <<stored, undo, view>>

Restore(s) ==
  /\ view'  = [view EXCEPT ![s] = saved[s]]
  /\ saved' = [saved EXCEPT ![s] = Empty]
  /\ UNCHANGED <<stored, undo>>

\* an error before the snapshot took effect ...
Abort(s) == Move(s, "busy", "open") /\ Restore(s)

\* ... and an error after it, which leaves memory behind the disk
Misreport(s) == undo = stored /\ Move(s, "done", "open") /\ Restore(s)

Close(s) ==
  /\ Move(s, "open", "closed")
  /\ view' = [view EXCEPT ![s] = Empty]
  /\ UNCHANGED <<stored, undo, saved>>

\* dropped or crashed: memory is gone, the stored snapshot stays
Leave(s) ==
  /\ phase[s] # "none"
  /\ phase' = [phase EXCEPT ![s] = "none"]
  /\ view'  = [view EXCEPT ![s] = Empty]
  /\ saved' = [saved EXCEPT ![s] = Empty]
  /\ UNCHANGED <<stored, undo>>

PowerLoss ==
  /\ stored' \in {stored, undo}
  /\ undo'  = stored'
  /\ phase' = [s \in Store |-> "none"]
  /\ view'  = [s \in Store |-> Empty]
  /\ saved' = [s \in Store |-> Empty]

Next ==
  \/ \E s \in Store : \/ Open(s) \/ Begin(s) \/ Commit(s) \/ Acknowledge(s) \/ Abort(s)
                      \/ Misreport(s) \/ Close(s) \/ Leave(s)
  \/ Harden
  \/ PowerLoss

Spec == Init /\ [][Next]_vars
=============================================================================
