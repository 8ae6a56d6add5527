------------------------------ MODULE Channel ------------------------------
(***************************************************************************)
(* RuntimeChannel: the bounded multi-producer multi-consumer queue behind   *)
(* Channel<T>.  Every method runs under the mutex of the queue, so a method *)
(* is one step, except where it waits on a condition variable: the thread   *)
(* then sleeps until a notification (or a spurious wakeup) makes it test    *)
(* its condition again, in a second step that other threads may overtake.   *)
(***************************************************************************)
EXTENDS Naturals, Sequences, FiniteSets

CONSTANTS Thread,       \* the threads that may hold a handle
          Value,        \* the messages
          MaxCapacity,  \* bound: largest capacity given to Channel.bounded
          MaxSends      \* bound: no new send once this many were accepted

ASSUME ChannelAssumption ==
    /\ IsFiniteSet(Thread)
    /\ MaxCapacity \in Nat \ {0}
    /\ MaxSends \in Nat

VARIABLES capacity,  \* queue.capacity
          values,    \* queue.values
          closed,    \* queue.closed
          live,      \* what this channel contributes to budget.live_handles
          holders,   \* the threads that own a clone of the Arc
          pc,        \* where each thread is inside send or receive
          arg,       \* the value a blocked or woken sender carries
          sent,      \* history: the values accepted by send, in order
          got        \* history: the values returned by receive, in order

vars == <<capacity, values, closed, live, holders, pc, arg, sent, got>>

(* "full" and "empty" sleep on not_full and not_empty; "send" and "receive" *)
(* were woken and have to test the loop condition again.                    *)
Place == {"idle", "full", "send", "empty", "receive"}

At(place) == {t \in Thread : pc[t] = place}

TypeOK ==
    /\ capacity \in 1 .. MaxCapacity
    /\ values \in Seq(Value)
    /\ Len(values) <= capacity
    /\ closed \in BOOLEAN
    /\ live \in 0 .. 1
    /\ holders \subseteq Thread
    /\ pc \in [Thread -> Place]
    /\ arg \in [Thread -> Value]
    /\ sent \in Seq(Value)
    /\ got \in Seq(Value)

Init ==
    /\ capacity \in 1 .. MaxCapacity
    /\ values = <<>>
    /\ closed = FALSE
    /\ live = 1
    /\ \E t \in Thread : holders = {t}
    /\ pc = [t \in Thread |-> "idle"]
    /\ \E v \in Value : arg = [t \in Thread |-> v]
    /\ sent = <<>>
    /\ got = <<>>

-----------------------------------------------------------------------------

(* Condvar::notify_one and notify_all, on the places of the threads p.      *)
NotifyOne(p, from, to) ==
    LET sleeping == {t \in Thread : p[t] = from}
    IN  IF sleeping = {} THEN {p} ELSE {[p EXCEPT ![t] = to] : t \in sleeping}

NotifyAll(p) ==
    [t \in Thread |-> IF p[t] = "full" THEN "send"
                      ELSE IF p[t] = "empty" THEN "receive" ELSE p[t]]

(* The body of send, from the test of its loop to the next wait or return.  *)
SendBody(t, v) ==
    /\ \/ /\ Len(values) = capacity
          /\ ~closed
          /\ pc' = [pc EXCEPT ![t] = "full"]
          /\ arg' = [arg EXCEPT ![t] = v]
          /\ UNCHANGED <<values, sent>>
       \/ /\ closed
          /\ pc' = [pc EXCEPT ![t] = "idle"]
          /\ UNCHANGED <<values, sent, arg>>
       \/ /\ Len(values) < capacity
          /\ ~closed
          /\ values' = Append(values, v)
          /\ sent' = Append(sent, v)
          /\ pc' \in NotifyOne([pc EXCEPT ![t] = "idle"], "empty", "receive")
          /\ UNCHANGED arg
    /\ UNCHANGED <<capacity, closed, live, holders, got>>

(* The wrong bodies below are the single faults the checks must notice.     *)
ReceiveBodySilent(t) ==
    /\ \/ /\ values = <<>>
          /\ ~closed
          /\ pc' = [pc EXCEPT ![t] = "empty"]
          /\ UNCHANGED <<values, got>>
       \/ /\ values = <<>>
          /\ closed
          /\ pc' = [pc EXCEPT ![t] = "idle"]
          /\ UNCHANGED <<values, got>>
       \/ /\ values # <<>>
          /\ values' = Tail(values)
          /\ got' = Append(got, Head(values))
          /\ pc' \in IF Len(values) = capacity
                     THEN NotifyOne([pc EXCEPT ![t] = "idle"], "full", "send")
                     ELSE {[pc EXCEPT ![t] = "idle"]}
    /\ UNCHANGED <<capacity, closed, live, holders, arg, sent>>

ReceiveBody(t) ==
    /\ \/ /\ values = <<>>
          /\ ~closed
          /\ pc' = [pc EXCEPT ![t] = "empty"]
          /\ UNCHANGED <<values, got>>
       \/ /\ values = <<>>
          /\ closed
          /\ pc' = [pc EXCEPT ![t] = "idle"]
          /\ UNCHANGED <<values, got>>
       \/ /\ values # <<>>
          /\ values' = Tail(values)
          /\ got' = Append(got, Head(values))
          /\ pc' \in NotifyOne([pc EXCEPT ![t] = "idle"], "full", "send")
    /\ UNCHANGED <<capacity, closed, live, holders, arg, sent>>

Send(t, v) ==
    /\ t \in holders
    /\ pc[t] = "idle"
    /\ Len(sent) < MaxSends
    /\ SendBody(t, v)

ResumeSend(t) == pc[t] = "send" /\ SendBody(t, arg[t])

Receive(t) ==
    /\ t \in holders
    /\ pc[t] = "idle"
    /\ ReceiveBody(t)

ResumeReceive(t) == pc[t] = "receive" /\ ReceiveBody(t)

(* A fault: close wakes the receivers only.                                 *)
CloseDeaf(t) ==
    /\ t \in holders
    /\ pc[t] = "idle"
    /\ closed' = TRUE
    /\ live' = IF closed THEN live ELSE 0
    /\ pc' = [u \in Thread |-> IF pc[u] = "empty" THEN "receive" ELSE pc[u]]
    /\ UNCHANGED <<capacity, values, holders, arg, sent, got>>

Close(t) ==
    /\ t \in holders
    /\ pc[t] = "idle"
    /\ closed' = TRUE
    /\ live' = IF closed THEN live ELSE 0
    /\ pc' = NotifyAll(pc)
    /\ UNCHANGED <<capacity, values, holders, arg, sent, got>>

(* .share() moves a clone of the handle to another thread.                  *)
Share(t, u) ==
    /\ t \in holders
    /\ pc[t] = "idle"
    /\ u \notin holders
    /\ holders' = holders \union {u}
    /\ UNCHANGED <<capacity, values, closed, live, pc, arg, sent, got>>

(* A fault: a dropped handle closes the queue under the other holders.      *)
DropRevoking(t) ==
    /\ t \in holders
    /\ pc[t] = "idle"
    /\ holders' = holders \ {t}
    /\ values' = <<>>
    /\ live' = 0
    /\ UNCHANGED <<capacity, closed, pc, arg, sent, got>>

(* The last handle destroys the queue, its messages and its permit.         *)
Drop(t) ==
    /\ t \in holders
    /\ pc[t] = "idle"
    /\ holders' = holders \ {t}
    /\ values' = IF holders' = {} THEN <<>> ELSE values
    /\ live' = IF holders' = {} THEN 0 ELSE live
    /\ UNCHANGED <<capacity, closed, pc, arg, sent, got>>

(* Condvar::wait may return without a notification.                         *)
Spurious(t) ==
    /\ \/ pc[t] = "full" /\ pc' = [pc EXCEPT ![t] = "send"]
       \/ pc[t] = "empty" /\ pc' = [pc EXCEPT ![t] = "receive"]
    /\ UNCHANGED <<capacity, values, closed, live, holders, arg, sent, got>>

Resume(t) == ResumeSend(t) \/ ResumeReceive(t)

Next ==
    \E t \in Thread :
        \/ \E v \in Value : Send(t, v)
        \/ Receive(t)
        \/ ResumeSend(t)
        \/ ResumeReceive(t)
        \/ Close(t)
        \/ \E u \in Thread : Share(t, u)
        \/ Drop(t)
        \/ Spurious(t)

Spec == Init /\ [][Next]_vars

(* The scheduler runs a woken thread: it reacquires the queue's mutex and   *)
(* tests its condition.  No call is ever forced to be made.                 *)
FairSpec == Spec /\ \A t \in Thread : WF_vars(Resume(t))

-----------------------------------------------------------------------------

(* Every accepted value is received at most once and in the order of        *)
(* acceptance, and nothing is lost while the channel lives: the accepted    *)
(* values are the received ones followed by the queued ones.  Closing keeps *)
(* the buffered messages for the receivers.                                 *)
Fifo == holders # {} => sent = got \o values

(* No notification is lost.  While a sender sleeps on not_full, there are   *)
(* at least as many woken senders as free slots, so no slot stays unused    *)
(* for want of a wakeup; likewise for the receivers and the queued values.  *)
(* On a closed channel nobody sleeps.                                       *)
NoLostWakeup ==
    /\ At("full") # {} => capacity - Len(values) <= Cardinality(At("send"))
    /\ At("empty") # {} => Len(values) <= Cardinality(At("receive"))
    /\ closed => At("full") \union At("empty") = {}

(* The handle slot of the channel is returned to the budget exactly once,   *)
(* by the first of close and the end of the last handle.                    *)
PermitReleased == live = (IF closed \/ holders = {} THEN 0 ELSE 1)

(* After close every blocked send and receive returns.                      *)
CloseReleases == closed ~> (\A t \in Thread : pc[t] = "idle")
=============================================================================
