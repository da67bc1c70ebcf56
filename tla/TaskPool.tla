------------------------------ MODULE TaskPool ------------------------------
(***************************************************************************)
(* What a scheduler promises to the code that hands it tasks: a thread     *)
(* runs one task at a time and a task is run by one thread at a time; a    *)
(* task runs in one or more turns until it is done; and once the pool is   *)
(* closed every task is done and none is accepted any more.                *)
(***************************************************************************)
CONSTANTS Tasks, Threads, NoTask

VARIABLES
    status,     \* absent, pending, running or done, per task
    on,         \* the task each thread is running, or NoTask
    closed      \* the pool has begun to let its threads go

Init ==
    /\ status = [f \in Tasks |-> "absent"]
    /\ on = [t \in Threads |-> NoTask]
    /\ closed = FALSE

Submit(f) ==
    /\ ~closed
    /\ status[f] = "absent"
    /\ status' = [status EXCEPT ![f] = "pending"]
    /\ UNCHANGED <<on, closed>>

Begin(t, f) ==
    /\ ~closed
    /\ on[t] = NoTask
    /\ status[f] = "pending"
    /\ status' = [status EXCEPT ![f] = "running"]
    /\ on' = [on EXCEPT ![t] = f]
    /\ UNCHANGED closed

\* The turn of t's task is over: it is done, or waits for another turn.
End(t, f) ==
    /\ ~closed
    /\ on[t] = f
    /\ status[f] = "running"
    /\ \E s \in {"pending", "done"} : status' = [status EXCEPT ![f] = s]
    /\ on' = [on EXCEPT ![t] = NoTask]
    /\ UNCHANGED closed

Close ==
    /\ \A f \in Tasks : status[f] \in {"absent", "done"}
    /\ closed' = TRUE
    /\ UNCHANGED <<status, on>>

Next ==
    \/ Close
    \/ \E f \in Tasks : Submit(f) \/ \E t \in Threads : Begin(t, f) \/ End(t, f)

Spec == Init /\ [][Next]_<<status, on, closed>>
=============================================================================
