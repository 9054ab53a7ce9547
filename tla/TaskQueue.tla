------------------------------ MODULE TaskQueue ------------------------------
(***************************************************************************)
(* What the event loop promises (src/include/eventloop.h): tasks run one   *)
(* at a time in the order they were queued, a delayed task is queued at    *)
(* some later time, and a task cancelled before it began never runs.       *)
(* Session relies on this; EventLoop is shown to implement it.             *)
(***************************************************************************)
EXTENDS Lists

CONSTANTS Tasks,
          NoTask  \* no member of Tasks

VARIABLES
    asleep,   \* delayed tasks whose time has not come
    queue,    \* tasks waiting to run, in order
    running,  \* the task that runs, or NoTask
    ended     \* tasks that ran or were cancelled

vars == <<asleep, queue, running, ended>>

Init ==
    /\ asleep = {}
    /\ queue = << >>
    /\ running = NoTask
    /\ ended = {}

IsNew(t) == t \notin asleep \cup Members(queue) \cup {running} \cup ended

Call(t) ==
    /\ IsNew(t)
    /\ queue' = Append(queue, t)
    /\ UNCHANGED <<asleep, running, ended>>

CallAfter(t) ==
    /\ IsNew(t)
    /\ asleep' = asleep \cup {t}
    /\ UNCHANGED <<queue, running, ended>>

Due(t) ==
    /\ t \in asleep
    /\ asleep' = asleep \ {t}
    /\ queue' = Append(queue, t)
    /\ UNCHANGED <<running, ended>>

Take ==
    /\ running = NoTask /\ queue # << >>
    /\ running' = Head(queue)
    /\ queue' = Tail(queue)
    /\ UNCHANGED <<asleep, ended>>

Finish ==
    /\ running # NoTask
    /\ running' = NoTask
    /\ ended' = ended \cup {running}
    /\ UNCHANGED <<asleep, queue>>

(* Only a task function cancels, and so not while nothing runs.            *)
Cancel(t) ==
    /\ running # NoTask
    /\ t \in asleep \cup Members(queue)
    /\ asleep' = asleep \ {t}
    /\ queue' = Without(queue, {t})
    /\ ended' = ended \cup {t}
    /\ UNCHANGED running

Next ==
    \/ \E t \in Tasks : Call(t) \/ CallAfter(t) \/ Due(t) \/ Cancel(t)
    \/ Take \/ Finish

(* A queued task gets its turn, its function returns, and time passes.     *)
Spec ==
    /\ Init /\ [][Next]_vars
    /\ WF_vars(Take) /\ WF_vars(Finish)
    /\ \A t \in Tasks : WF_vars(Due(t))
===============================================================================
