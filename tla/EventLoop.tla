------------------------------ MODULE EventLoop ------------------------------
(***************************************************************************)
(* The event loop (src/eventloop.c), its threads and the references        *)
(* (src/ref.c) that decide when a task object is freed.                    *)
(*                                                                         *)
(* The threads are the loop itself, a delay thread for each delayed task,  *)
(* and any other thread that queues a task (a client's receive thread).    *)
(* A section under the loop's mutex is one step, since every access to the *)
(* list and the flags is under it; what a thread does outside of it (the   *)
(* task's function, dropping a reference) is a step of its own.            *)
(*                                                                         *)
(* What the task functions do with tasks is modelled from the lobby: a     *)
(* session keeps a reference to its start and restart tasks, and a client  *)
(* to the task of its tolerated disconnection; other tasks are forgotten   *)
(* once queued.  pkrsrv_eventloop_stop and the prepending calls are used   *)
(* by nobody and left out.                                                 *)
(***************************************************************************)
EXTENDS Lists, Integers

CONSTANTS Tasks,
          SessionTasks,    \* start and restart tasks (lobby.c:250, 1464)
          ToleratedTasks,  \* tolerated disconnections (lobby.c:1094)
          NoTask

ASSUME TasksAssumption ==
    /\ SessionTasks \subseteq Tasks
    /\ ToleratedTasks \subseteq Tasks \ SessionTasks
    /\ NoTask \notin Tasks

PlainTasks == Tasks \ (SessionTasks \cup ToleratedTasks)

VARIABLES
    memory,        \* of each task object: unused, live or freed
    refs,          \* its reference count
    is_queued, is_popped, is_cancelled, is_called,  \* tasks with that flag
    tasks,         \* eventloop->tasks
    sleeper,       \* of each task: its delay thread
    owned,         \* tasks the lobby keeps a pointer to
    pc,            \* where the loop is
    current,       \* the task it popped
    target         \* the task its function is about to adopt, cancel or drop

flags == <<is_queued, is_popped, is_cancelled, is_called>>
vars  == <<memory, refs, flags, tasks, sleeper, owned, pc, current, target>>

Init ==
    /\ memory = [t \in Tasks |-> "unused"]
    /\ refs = [t \in Tasks |-> 0]
    /\ is_queued = {} /\ is_popped = {} /\ is_cancelled = {} /\ is_called = {}
    /\ tasks = << >>
    /\ sleeper = [t \in Tasks |-> "none"]
    /\ owned = {}
    /\ pc = "lock"
    /\ current = NoTask
    /\ target = NoTask

-------------------------------------------------------------------------------
(* pkrsrv_eventloop_task_new with the references taken before it is shared *)
New(t, count) ==
    /\ memory[t] = "unused"
    /\ memory' = [memory EXCEPT ![t] = "live"]
    /\ refs' = [refs EXCEPT ![t] = count]

Use(t) == refs' = [refs EXCEPT ![t] = @ + 1] /\ UNCHANGED memory

(* pkrsrv_ref_counted_leave: the last one frees the object.  The assertion *)
(* that there is one to drop only prints.                                  *)
Leave(t) ==
    /\ refs' = [refs EXCEPT ![t] = @ - 1]
    /\ memory' = IF refs[t] = 1 THEN [memory EXCEPT ![t] = "freed"] ELSE memory

(* A mutant of Push: nobody is signalled.                                  *)
PushSilently(t) ==
    /\ tasks' = Append(tasks, t)
    /\ is_queued' = is_queued \cup {t}
    /\ UNCHANGED pc

(* tasks_push but for its reference, and the signal.                       *)
Push(t) ==
    /\ tasks' = Append(tasks, t)
    /\ is_queued' = is_queued \cup {t}
    /\ pc' = IF pc = "wait" THEN "lock" ELSE pc

(* pkrsrv_eventloop_call and _task_call, by any thread.                    *)
Call(t) ==
    /\ t \in PlainTasks
    /\ New(t, 2)
    /\ Push(t)
    /\ UNCHANGED <<is_popped, is_cancelled, is_called, sleeper, owned, current, target>>

(* A mutant of CallAfter: no reference for the delay thread.               *)
CallAfterUsesOnce(t) ==
    /\ pc = "run"
    /\ New(t, IF t \in SessionTasks THEN 2 ELSE 1)
    /\ sleeper' = [sleeper EXCEPT ![t] = "asleep"]
    /\ owned' = IF t \in SessionTasks THEN owned \cup {t} ELSE owned
    /\ pc' = IF t \in ToleratedTasks THEN "adopt" ELSE pc
    /\ target' = IF t \in ToleratedTasks THEN t ELSE target
    /\ UNCHANGED <<flags, tasks, current>>

(* _call_after and _task_call_after, by the running task function.  The    *)
(* lobby references a session's task before the call, and a tolerated      *)
(* disconnection's after it.                                               *)
CallAfter(t) ==
    /\ pc = "run"
    /\ New(t, IF t \in SessionTasks THEN 3 ELSE 2)
    /\ sleeper' = [sleeper EXCEPT ![t] = "asleep"]
    /\ owned' = IF t \in SessionTasks THEN owned \cup {t} ELSE owned
    /\ pc' = IF t \in ToleratedTasks THEN "adopt" ELSE pc
    /\ target' = IF t \in ToleratedTasks THEN t ELSE target
    /\ UNCHANGED <<flags, tasks, current>>

Adopt ==
    /\ pc = "adopt"
    /\ Use(target)
    /\ owned' = owned \cup {target}
    /\ pc' = "run"
    /\ target' = NoTask
    /\ UNCHANGED <<flags, tasks, sleeper, current>>

-------------------------------------------------------------------------------
(* The delay thread                                                        *)

(* Mutants of WakeUp: it queues the task although it was cancelled; it     *)
(* keeps the call's reference to a cancelled task.                         *)
WakeUpAnyway(t) ==
    /\ sleeper[t] = "asleep"
    /\ sleeper' = [sleeper EXCEPT ![t] = "leave"]
    /\ Use(t) /\ Push(t)
    /\ UNCHANGED <<is_popped, is_cancelled, is_called, owned, current, target>>

WakeUpKeeps(t) ==
    /\ sleeper[t] = "asleep"
    /\ sleeper' = [sleeper EXCEPT ![t] = "leave"]
    /\ IF t \notin is_cancelled THEN Use(t) /\ Push(t)
       ELSE UNCHANGED <<memory, refs, tasks, is_queued, pc>>
    /\ UNCHANGED <<is_popped, is_cancelled, is_called, owned, current, target>>

WakeUp(t) ==
    /\ sleeper[t] = "asleep"
    /\ sleeper' = [sleeper EXCEPT ![t] = "leave"]
    /\ IF t \notin is_cancelled THEN Use(t) /\ Push(t)
       ELSE Leave(t) /\ UNCHANGED <<tasks, is_queued, pc>>
    /\ UNCHANGED <<is_popped, is_cancelled, is_called, owned, current, target>>

SleeperLeaves(t) ==
    /\ sleeper[t] = "leave"
    /\ sleeper' = [sleeper EXCEPT ![t] = "none"]
    /\ Leave(t)
    /\ UNCHANGED <<flags, tasks, owned, pc, current, target>>

-------------------------------------------------------------------------------
(* pkrsrv_eventloop_run                                                    *)

Wait ==
    /\ pc = "lock" /\ tasks = << >>
    /\ pc' = "wait"
    /\ UNCHANGED <<memory, refs, flags, tasks, sleeper, owned, current, target>>

(* A condition variable may wake without a signal.                         *)
SpuriousWakeup ==
    /\ pc = "wait"
    /\ pc' = "lock"
    /\ UNCHANGED <<memory, refs, flags, tasks, sleeper, owned, current, target>>

Pop ==
    /\ pc = "lock" /\ tasks # << >>
    /\ current' = Head(tasks)
    /\ tasks' = Tail(tasks)
    /\ is_popped' = is_popped \cup {Head(tasks)}
    /\ Leave(Head(tasks))
    /\ pc' = IF Head(tasks) \in is_cancelled THEN "leave" ELSE "run"
    /\ UNCHANGED <<is_queued, is_cancelled, is_called, sleeper, owned, target>>

(* The function of a session's task drops the session's reference; that of *)
(* a tolerated disconnection sets the client's pointer to NULL before it   *)
(* drops it, and so keeps it, or returns early and leaves it in place.     *)
Disown ==
    /\ pc = "run" /\ current \in owned
    /\ IF current \in SessionTasks THEN Leave(current) ELSE UNCHANGED <<memory, refs>>
    /\ owned' = owned \ {current}
    /\ UNCHANGED <<flags, tasks, sleeper, pc, current, target>>

Return ==
    /\ pc = "run"
    /\ current \notin owned \cap SessionTasks
    /\ is_called' = is_called \cup {current}
    /\ pc' = "leave"
    /\ UNCHANGED <<memory, refs, is_queued, is_popped, is_cancelled, tasks, sleeper,
                   owned, current, target>>

LoopLeaves ==
    /\ pc = "leave"
    /\ Leave(current)
    /\ current' = NoTask
    /\ pc' = "lock"
    /\ UNCHANGED <<flags, tasks, sleeper, owned, target>>

-------------------------------------------------------------------------------
(* A mutant of DoCancel: a task that was popped is removed once more.      *)
DoCancelPopped(t) ==
    IF t \in is_cancelled THEN UNCHANGED <<memory, refs, tasks, is_cancelled>>
    ELSE /\ is_cancelled' = is_cancelled \cup {t}
         /\ IF t \in is_queued
            THEN Leave(t) /\ tasks' = Without(tasks, {t})
            ELSE UNCHANGED <<memory, refs, tasks>>

(* pkrsrv_eventloop_task_cancel.  The list's reference is dropped with the *)
(* place in the list; the call's reference stays.                          *)
DoCancel(t) ==
    LET removes == t \in is_queued /\ t \notin is_popped
    IN  IF t \in is_cancelled THEN UNCHANGED <<memory, refs, tasks, is_cancelled>>
        ELSE /\ is_cancelled' = is_cancelled \cup {t}
             /\ IF removes
                THEN Leave(t) /\ tasks' = Without(tasks, {t})
                ELSE UNCHANGED <<memory, refs, tasks>>

(* unjoin_session drops the session's reference first and cancels then;    *)
(* session_stop and on_client_disconnected do it the other way round.      *)
LeaveToCancel(t) ==
    /\ pc = "run"
    /\ current \notin owned \cap SessionTasks
    /\ t \in owned \cap SessionTasks
    /\ Leave(t)
    /\ owned' = owned \ {t}
    /\ pc' = "cancel"
    /\ target' = t
    /\ UNCHANGED <<flags, tasks, sleeper, current>>

CancelTarget ==
    /\ pc = "cancel"
    /\ DoCancel(target)
    /\ pc' = "run"
    /\ target' = NoTask
    /\ UNCHANGED <<is_queued, is_popped, is_called, sleeper, owned, current>>

CancelToLeave(t) ==
    /\ pc = "run"
    /\ current \notin owned \cap SessionTasks
    /\ t \in owned \ {current}
    /\ DoCancel(t)
    /\ owned' = owned \ {t}
    /\ pc' = "drop"
    /\ target' = t
    /\ UNCHANGED <<is_queued, is_popped, is_called, sleeper, current>>

DropTarget ==
    /\ pc = "drop"
    /\ Leave(target)
    /\ pc' = "run"
    /\ target' = NoTask
    /\ UNCHANGED <<flags, tasks, sleeper, owned, current>>

-------------------------------------------------------------------------------
LoopStep ==
    \/ Wait \/ Pop \/ Disown \/ Return \/ LoopLeaves
    \/ Adopt \/ CancelTarget \/ DropTarget
    \/ \E t \in Tasks : CallAfter(t) \/ LeaveToCancel(t) \/ CancelToLeave(t)

SleeperStep(t) == WakeUp(t) \/ SleeperLeaves(t)

Next ==
    \/ LoopStep \/ SpuriousWakeup
    \/ \E t \in Tasks : Call(t) \/ SleeperStep(t)

(* The loop goes on, task functions return, and delays end.                *)
Spec ==
    /\ Init /\ [][Next]_vars
    /\ WF_vars(LoopStep)
    /\ \A t \in Tasks : WF_vars(SleeperStep(t))

-------------------------------------------------------------------------------
(* Properties                                                              *)

TypeOK ==
    /\ memory \in [Tasks -> {"unused", "live", "freed"}]
    /\ refs \in [Tasks -> Nat]
    /\ is_queued \in SUBSET Tasks /\ is_popped \in SUBSET Tasks
    /\ is_cancelled \in SUBSET Tasks /\ is_called \in SUBSET Tasks
    /\ tasks \in Seq(Tasks)
    /\ sleeper \in [Tasks -> {"none", "asleep", "leave"}]
    /\ owned \in SUBSET (SessionTasks \cup ToleratedTasks)
    /\ pc \in {"lock", "wait", "run", "adopt", "cancel", "drop", "leave"}
    /\ current \in Tasks \cup {NoTask}
    /\ target \in Tasks \cup {NoTask}

(* The tasks some thread is still going to look at.                        *)
Reachable ==
    Members(tasks) \cup {t \in Tasks : sleeper[t] # "none"} \cup owned
        \cup ({current, target} \ {NoTask})

(* No thread is left with a pointer to a freed task (eventloop.c:61-71,    *)
(* 181-196 and 283-298, lobby.c:1095-1096 and 1565-1566).                  *)
NoUseAfterFree == \A t \in Reachable : memory[t] = "live"

(* A task nobody looks at any more has been freed, unless it was cancelled *)
(* in the queue: cancelling leaves the call's reference behind             *)
(* (eventloop.c:292-294).  Tolerated disconnections may leak, too.         *)
ReleasedWhenSettled ==
    \A t \in Tasks \ (ToleratedTasks \cup Reachable) :
        memory[t] = "live" => t \in is_cancelled \cap is_queued /\ refs[t] = 1

(* Every task handed to the loop is called or cancelled in the end.        *)
EveryTaskEnds ==
    \A t \in Tasks : memory[t] = "live" ~> t \in is_called \cup is_cancelled

(* The state of TaskQueue.                                                 *)
Asleep  == {t \in Tasks : sleeper[t] = "asleep"} \ is_cancelled
Running == IF pc \in {"run", "adopt", "cancel", "drop"} THEN current ELSE NoTask
Ended   == is_called \cup is_cancelled

Queue == INSTANCE TaskQueue WITH
             asleep <- Asleep, queue <- tasks, running <- Running, ended <- Ended

(* The event loop keeps the promise Session is built on: one task at a     *)
(* time, in order, none after it was cancelled (eventloop.h).              *)
ImplementsTaskQueue == Queue!Spec
===============================================================================
