--------------------------- MODULE EventLoopProofs ---------------------------
(***************************************************************************)
(* Proofs about EventLoop, for every set of tasks: no thread uses a freed  *)
(* task, what is not leaked by a cancel is freed, and every step keeps the *)
(* promise of TaskQueue.                                                   *)
(***************************************************************************)
EXTENDS EventLoop, CommonProofs

One(b) == IF b THEN 1 ELSE 0

(* The call that handed t over still holds its reference: the loop drops   *)
(* it after the task, the delay thread when it finds the task cancelled.   *)
CallHolds(t) ==
    /\ memory[t] # "unused"
    /\ IF t \in is_popped THEN t = current
       ELSE t \in is_cancelled => t \in is_queued \/ sleeper[t] = "asleep"

Dropping(t) == pc = "drop" /\ t = target

Holders(t) ==
    One(CallHolds(t)) + One(t \in Members(tasks)) + One(sleeper[t] # "none")
        + One(t \in owned) + One(Dropping(t))

MemoryCounted == \A t \in Tasks : memory[t] = "live" <=> refs[t] > 0

(* Every holder is counted, and only tolerated disconnections count more.  *)
Counted ==
    \A t \in Tasks :
        /\ Holders(t) <= refs[t]
        /\ t \notin ToleratedTasks => Holders(t) = refs[t]

Lifecycle ==
    \A t \in Tasks :
        /\ memory[t] = "unused" =>
               /\ t \notin is_queued \cup is_cancelled \cup owned
               /\ sleeper[t] = "none" /\ t # target
        /\ memory[t] # "unused" =>
               t \in is_queued \cup is_cancelled \/ sleeper[t] = "asleep"
        /\ sleeper[t] = "asleep" => t \notin is_queued

Queued ==
    /\ NoRepeats(tasks)
    /\ Members(tasks) = is_queued \ (is_popped \cup is_cancelled)
    /\ is_popped \subseteq is_queued
    /\ is_called \subseteq is_popped
    /\ is_popped \subseteq is_called \cup {current}

Control ==
    /\ current \in Tasks <=> pc \notin {"lock", "wait"}
    /\ current \in Tasks => current \in is_popped \ is_cancelled
    /\ current \in is_called <=> pc = "leave"
    /\ target \in Tasks <=> pc \in {"adopt", "cancel", "drop"}
    /\ target \in Tasks => target # current /\ target \notin owned
    /\ pc = "adopt" => target \in ToleratedTasks
    /\ pc = "cancel" => target \in SessionTasks
    /\ pc \in {"adopt", "cancel"} => target \notin is_popped \cup is_cancelled

Ownership ==
    /\ owned \cap is_cancelled = {}
    /\ owned \cap SessionTasks \cap is_popped \subseteq {current}
    /\ pc = "leave" => current \notin owned \cap SessionTasks

(* The inductive invariant.                                                *)
IInv ==
    /\ TypeOK /\ MemoryCounted /\ Counted
    /\ Lifecycle /\ Queued /\ Control /\ Ownership

(* The invariant holds at the start.                                       *)
LEMMA InitInv == Init => IInv
<1>1. SUFFICES ASSUME Init PROVE IInv OBVIOUS
<1>2. << >> \in Seq(Tasks) /\ Members(<< >>) = {} /\ NoRepeats(<< >>)
    BY EmptySeq DEF Members, NoRepeats
<1>3. TypeOK BY <1>1, <1>2 DEF Init, TypeOK
<1>4. MemoryCounted BY <1>1 DEF Init, MemoryCounted
<1>5. Counted
    BY <1>1, <1>2 DEF Init, Counted, Holders, One, CallHolds, Dropping
<1>6. Lifecycle /\ Queued /\ Control /\ Ownership
    BY <1>1, <1>2, TasksAssumption DEF Init, Lifecycle, Queued, Control, Ownership
<1>. QED BY <1>3, <1>4, <1>5, <1>6 DEF IInv

-------------------------------------------------------------------------------
(* References                                                              *)

(* Whoever holds a task keeps it alive.                                    *)
LEMMA HeldIsLive ==
    ASSUME IInv, NEW t \in Tasks,
           \/ CallHolds(t) \/ t \in Members(tasks) \/ sleeper[t] # "none"
           \/ t \in owned \/ Dropping(t)
    PROVE  memory[t] = "live" /\ refs[t] \in Nat \ {0}
<1>1. Holders(t) >= 1 BY DEF Holders, One
<1>2. Holders(t) \in Nat BY DEF Holders, One
<1>3. Holders(t) <= refs[t] /\ refs[t] \in Nat BY DEF IInv, Counted, TypeOK
<1>. QED BY <1>1, <1>2, <1>3 DEF IInv, MemoryCounted

(* The references after one was dropped.                                   *)
LEMMA LeaveFacts ==
    ASSUME IInv, NEW t \in Tasks, refs[t] # 0, Leave(t)
    PROVE  /\ memory' \in [Tasks -> {"unused", "live", "freed"}]
           /\ refs' \in [Tasks -> Nat]
           /\ \A u \in Tasks : refs'[u] = IF u = t THEN refs[t] - 1 ELSE refs[u]
           /\ \A u \in Tasks : memory'[u] = "unused" <=> memory[u] = "unused"
           /\ MemoryCounted'
<1>1. /\ memory \in [Tasks -> {"unused", "live", "freed"}]
      /\ refs \in [Tasks -> Nat] /\ MemoryCounted
    BY DEF IInv, TypeOK
<1>2. refs' = [refs EXCEPT ![t] = refs[t] - 1] /\ refs[t] \in Nat \ {0} BY <1>1 DEF Leave
<1>3. refs' \in [Tasks -> Nat] BY <1>1, <1>2
<1>4. \A u \in Tasks : refs'[u] = IF u = t THEN refs[t] - 1 ELSE refs[u] BY <1>1, <1>2
<1>5. memory[t] = "live" BY <1>1, <1>2 DEF MemoryCounted
<1>6. memory' = IF refs[t] = 1 THEN [memory EXCEPT ![t] = "freed"] ELSE memory BY DEF Leave
<1>7. memory' \in [Tasks -> {"unused", "live", "freed"}] BY <1>1, <1>6
<1>8. \A u \in Tasks : memory'[u] = IF u = t /\ refs[t] = 1 THEN "freed" ELSE memory[u]
    BY <1>1, <1>6
<1>9. MemoryCounted' BY <1>1, <1>2, <1>4, <1>5, <1>8 DEF MemoryCounted
<1>. QED BY <1>3, <1>4, <1>5, <1>7, <1>8, <1>9

(* The references after one was taken.                                     *)
LEMMA UseFacts ==
    ASSUME IInv, NEW t \in Tasks, refs[t] # 0, Use(t)
    PROVE  /\ memory' = memory
           /\ refs' \in [Tasks -> Nat]
           /\ \A u \in Tasks : refs'[u] = IF u = t THEN refs[t] + 1 ELSE refs[u]
           /\ MemoryCounted'
<1>1. refs \in [Tasks -> Nat] /\ MemoryCounted BY DEF IInv, TypeOK
<1>2. refs' = [refs EXCEPT ![t] = refs[t] + 1] /\ memory' = memory BY DEF Use
<1>3. refs' \in [Tasks -> Nat] BY <1>1, <1>2
<1>4. \A u \in Tasks : refs'[u] = IF u = t THEN refs[t] + 1 ELSE refs[u] BY <1>1, <1>2
<1>5. MemoryCounted' BY <1>1, <1>2, <1>4 DEF MemoryCounted
<1>. QED BY <1>2, <1>3, <1>4, <1>5

(* The references after a task was made.                                   *)
LEMMA NewFacts ==
    ASSUME IInv, NEW t \in Tasks, NEW count \in Nat \ {0}, New(t, count)
    PROVE  /\ memory' \in [Tasks -> {"unused", "live", "freed"}]
           /\ refs' \in [Tasks -> Nat]
           /\ \A u \in Tasks : refs'[u] = IF u = t THEN count ELSE refs[u]
           /\ \A u \in Tasks : memory'[u] = IF u = t THEN "live" ELSE memory[u]
           /\ MemoryCounted'
<1>1. /\ memory \in [Tasks -> {"unused", "live", "freed"}]
      /\ refs \in [Tasks -> Nat] /\ MemoryCounted
    BY DEF IInv, TypeOK
<1>2. /\ refs' = [refs EXCEPT ![t] = count]
      /\ memory' = [memory EXCEPT ![t] = "live"]
    BY DEF New
<1>3. /\ refs' \in [Tasks -> Nat]
      /\ \A u \in Tasks : refs'[u] = IF u = t THEN count ELSE refs[u]
    BY <1>1, <1>2
<1>4. /\ memory' \in [Tasks -> {"unused", "live", "freed"}]
      /\ \A u \in Tasks : memory'[u] = IF u = t THEN "live" ELSE memory[u]
    BY <1>1, <1>2
<1>5. MemoryCounted' BY <1>1, <1>3, <1>4 DEF MemoryCounted
<1>. QED BY <1>3, <1>4, <1>5

(* A task that was never made is nowhere.                                  *)
LEMMA UnusedIsNowhere ==
    ASSUME IInv, NEW t \in Tasks, memory[t] = "unused"
    PROVE  /\ t \notin is_queued \cup is_popped \cup is_cancelled \cup is_called \cup owned
           /\ t \notin Members(tasks) /\ sleeper[t] = "none"
           /\ t # current /\ t # target
           /\ Holders(t) = 0
<1>1. /\ t \notin is_queued \cup is_cancelled \cup owned
      /\ sleeper[t] = "none" /\ t # target
    BY DEF IInv, Lifecycle
<1>2. t \notin is_popped \cup is_called \cup Members(tasks)
    BY <1>1 DEF IInv, Queued
<1>3. t # current BY <1>2 DEF IInv, Control
<1>4. Holders(t) = 0 BY <1>1, <1>2 DEF Holders, One, CallHolds, Dropping
<1>. QED BY <1>1, <1>2, <1>3, <1>4

(* Queueing a task that is in no list.                                     *)
LEMMA PushFacts ==
    ASSUME IInv, NEW t \in Tasks, t \notin is_queued, Push(t)
    PROVE  /\ tasks' \in Seq(Tasks) /\ NoRepeats(tasks')
           /\ Members(tasks') = Members(tasks) \cup {t}
           /\ is_queued' = is_queued \cup {t}
           /\ pc' = pc \/ (pc = "wait" /\ pc' = "lock")
<1>1. tasks \in Seq(Tasks) /\ NoRepeats(tasks) /\ t \notin Members(tasks)
    BY DEF IInv, TypeOK, Queued
<1>. QED BY <1>1, AppendMembers DEF Push

(* Cancelling a task that was not cancelled.                               *)
LEMMA DoCancelFacts ==
    ASSUME IInv, NEW t \in Tasks, t \notin is_cancelled, DoCancel(t)
    PROVE  /\ tasks' \in Seq(Tasks) /\ NoRepeats(tasks')
           /\ Members(tasks') = Members(tasks) \ {t}
           /\ tasks' = Without(tasks, {t})
           /\ is_cancelled' = is_cancelled \cup {t}
           /\ memory' \in [Tasks -> {"unused", "live", "freed"}]
           /\ refs' \in [Tasks -> Nat]
           /\ \A u \in Tasks : refs'[u] = IF u = t /\ t \in Members(tasks)
                                          THEN refs[u] - 1 ELSE refs[u]
           /\ \A u \in Tasks : memory'[u] = "unused" <=> memory[u] = "unused"
           /\ MemoryCounted'
<1>1. tasks \in Seq(Tasks) /\ NoRepeats(tasks) BY DEF IInv, TypeOK, Queued
<1>2. t \in Members(tasks) <=> t \in is_queued /\ t \notin is_popped
    BY DEF IInv, Queued
<1>3. /\ Without(tasks, {t}) \in Seq(Tasks)
      /\ NoRepeats(Without(tasks, {t}))
      /\ Members(Without(tasks, {t})) = Members(tasks) \ {t}
      /\ t \notin Members(tasks) => Without(tasks, {t}) = tasks
    BY <1>1, WithoutType, WithoutMembers
<1>4. is_cancelled' = is_cancelled \cup {t} BY DEF DoCancel
<1>5. CASE t \in Members(tasks)
    <2>1. Leave(t) /\ tasks' = Without(tasks, {t}) BY <1>2, <1>5 DEF DoCancel
    <2>2. refs[t] # 0 BY <1>5, HeldIsLive
    <2>. QED BY <1>3, <1>4, <1>5, <2>1, <2>2, LeaveFacts
<1>6. CASE t \notin Members(tasks)
    <2>1. UNCHANGED <<memory, refs, tasks>> BY <1>2, <1>6 DEF DoCancel
    <2>. QED BY <1>1, <1>3, <1>4, <1>6, <2>1 DEF IInv, TypeOK, MemoryCounted
<1>. QED BY <1>5, <1>6

-------------------------------------------------------------------------------
(* Handing tasks over                                                      *)

(* Queueing a new task keeps the invariant.                                *)
LEMMA CallInv ==
    ASSUME IInv, NEW t \in Tasks, Call(t)
    PROVE  IInv'
<1>1. t \notin SessionTasks \cup ToleratedTasks /\ memory[t] = "unused"
    BY DEF Call, PlainTasks, New
<1>2. /\ t \notin is_queued \cup is_popped \cup is_cancelled \cup is_called \cup owned
      /\ t \notin Members(tasks) /\ sleeper[t] = "none" /\ t # current /\ t # target
    BY <1>1, UnusedIsNowhere
<1>3. /\ memory' \in [Tasks -> {"unused", "live", "freed"}]
      /\ refs' \in [Tasks -> Nat]
      /\ \A u \in Tasks : refs'[u] = IF u = t THEN 2 ELSE refs[u]
      /\ \A u \in Tasks : memory'[u] = IF u = t THEN "live" ELSE memory[u]
      /\ MemoryCounted'
    BY NewFacts DEF Call
<1>4. /\ tasks' \in Seq(Tasks) /\ NoRepeats(tasks')
      /\ Members(tasks') = Members(tasks) \cup {t}
      /\ is_queued' = is_queued \cup {t}
      /\ pc' = pc \/ (pc = "wait" /\ pc' = "lock")
    BY <1>2, PushFacts DEF Call
<1>5. UNCHANGED <<is_popped, is_cancelled, is_called, sleeper, owned, current, target>>
    BY DEF Call
<1>6. TypeOK' BY <1>3, <1>4, <1>5 DEF IInv, TypeOK
<1>7. Counted'
    <2>1. ASSUME NEW u \in Tasks, u # t PROVE Holders(u)' = Holders(u) /\ refs'[u] = refs[u]
        BY <1>3, <1>4, <1>5, <2>1 DEF Holders, One, CallHolds, Dropping
    <2>2. Holders(t)' = 2 /\ refs'[t] = 2
        BY <1>2, <1>3, <1>4, <1>5 DEF Holders, One, CallHolds, Dropping
    <2>. QED BY <2>1, <2>2 DEF IInv, Counted
<1>8. Lifecycle' BY <1>2, <1>3, <1>4, <1>5 DEF IInv, Lifecycle
<1>9. Queued' /\ Control' /\ Ownership'
    BY <1>2, <1>4, <1>5 DEF IInv, Queued, Control, Ownership
<1>. QED BY <1>3, <1>6, <1>7, <1>8, <1>9 DEF IInv

(* Handing over a delayed task keeps the invariant.                        *)
LEMMA CallAfterInv ==
    ASSUME IInv, NEW t \in Tasks, CallAfter(t)
    PROVE  IInv'
<1> DEFINE count == IF t \in SessionTasks THEN 3 ELSE 2
<1>1. memory[t] = "unused" BY DEF CallAfter, New
<1>2. /\ t \notin is_queued \cup is_popped \cup is_cancelled \cup is_called \cup owned
      /\ t \notin Members(tasks) /\ sleeper[t] = "none" /\ t # current /\ t # target
    BY <1>1, UnusedIsNowhere
<1>3. /\ memory' \in [Tasks -> {"unused", "live", "freed"}]
      /\ refs' \in [Tasks -> Nat]
      /\ \A u \in Tasks : refs'[u] = IF u = t THEN count ELSE refs[u]
      /\ \A u \in Tasks : memory'[u] = IF u = t THEN "live" ELSE memory[u]
      /\ MemoryCounted'
    BY NewFacts DEF CallAfter
<1>4. /\ sleeper' \in [Tasks -> {"none", "asleep", "leave"}]
      /\ \A u \in Tasks : sleeper'[u] = IF u = t THEN "asleep" ELSE sleeper[u]
    BY DEF CallAfter, IInv, TypeOK
<1>5. /\ pc = "run"
      /\ owned' = IF t \in SessionTasks THEN owned \cup {t} ELSE owned
      /\ pc' = IF t \in ToleratedTasks THEN "adopt" ELSE pc
      /\ target' = IF t \in ToleratedTasks THEN t ELSE target
      /\ UNCHANGED <<flags, tasks, current>>
    BY DEF CallAfter
<1>6. target \notin Tasks BY <1>5 DEF IInv, Control
<1>7. TypeOK' BY <1>3, <1>4, <1>5 DEF IInv, TypeOK, flags
<1>8. Counted'
    <2>1. ASSUME NEW u \in Tasks, u # t PROVE Holders(u)' = Holders(u) /\ refs'[u] = refs[u]
        BY <1>3, <1>4, <1>5, <2>1 DEF Holders, One, CallHolds, Dropping, flags
    <2>2. Holders(t)' = count /\ refs'[t] = count
        BY <1>2, <1>3, <1>4, <1>5 DEF Holders, One, CallHolds, Dropping, flags
    <2>. QED BY <2>1, <2>2 DEF IInv, Counted
<1>9. Lifecycle' BY <1>2, <1>3, <1>4, <1>5 DEF IInv, Lifecycle, flags
<1>10. Queued' BY <1>5 DEF IInv, Queued, flags
<1>11. Control'
    BY <1>2, <1>5, <1>6, TasksAssumption DEF IInv, Control, flags
<1>12. Ownership' BY <1>2, <1>5 DEF IInv, Ownership, flags
<1>. QED BY <1>3, <1>7, <1>8, <1>9, <1>10, <1>11, <1>12 DEF IInv

(* Taking the client's reference keeps the invariant.                      *)
LEMMA AdoptInv ==
    ASSUME IInv, NEW t \in Tasks, t = target, Adopt
    PROVE  IInv'
<1>1. /\ pc = "adopt" /\ pc' = "run" /\ target' = NoTask
      /\ owned' = owned \cup {t} /\ Use(t)
      /\ UNCHANGED <<flags, tasks, sleeper, current>>
    BY DEF Adopt
<1>2. /\ t \in ToleratedTasks /\ t # current
      /\ t \notin is_popped \cup is_cancelled \cup owned
    BY <1>1, TasksAssumption DEF IInv, Control
<1>3. CallHolds(t) BY <1>2 DEF CallHolds, IInv, Lifecycle
<1>4. refs[t] # 0 BY <1>3, HeldIsLive
<1>5. /\ memory' = memory /\ refs' \in [Tasks -> Nat]
      /\ \A u \in Tasks : refs'[u] = IF u = t THEN refs[t] + 1 ELSE refs[u]
      /\ MemoryCounted'
    BY <1>1, <1>4, UseFacts
<1>6. TypeOK' BY <1>1, <1>2, <1>5 DEF IInv, TypeOK, flags
<1>7. Counted'
    <2>1. ASSUME NEW u \in Tasks, u # t PROVE Holders(u)' = Holders(u) /\ refs'[u] = refs[u]
        BY <1>1, <1>5, <2>1 DEF Holders, One, CallHolds, Dropping, flags
    <2>2. Holders(t)' = Holders(t) + 1 /\ refs'[t] = refs[t] + 1
        BY <1>1, <1>2, <1>5, TasksAssumption DEF Holders, One, CallHolds, Dropping, flags
    <2>3. Holders(t) \in Nat /\ refs[t] \in Nat
        BY DEF Holders, One, IInv, TypeOK
    <2>. QED BY <2>1, <2>2, <2>3 DEF IInv, Counted
<1>8. Lifecycle'
    BY <1>1, <1>3, <1>5, TasksAssumption DEF IInv, Lifecycle, CallHolds, flags
<1>9. Queued' BY <1>1 DEF IInv, Queued, flags
<1>10. Control' BY <1>1, <1>2, TasksAssumption DEF IInv, Control, flags
<1>11. Ownership' BY <1>1, <1>2, TasksAssumption DEF IInv, Ownership, flags
<1>. QED BY <1>5, <1>6, <1>7, <1>8, <1>9, <1>10, <1>11 DEF IInv

-------------------------------------------------------------------------------
(* The delay thread                                                        *)

(* Waking up keeps the invariant.                                          *)
LEMMA WakeUpInv ==
    ASSUME IInv, NEW t \in Tasks, WakeUp(t)
    PROVE  IInv'
<1>1. /\ sleeper[t] = "asleep"
      /\ UNCHANGED <<is_popped, is_cancelled, is_called, owned, current, target>>
    BY DEF WakeUp
<1>2. /\ sleeper' \in [Tasks -> {"none", "asleep", "leave"}]
      /\ \A u \in Tasks : sleeper'[u] = IF u = t THEN "leave" ELSE sleeper[u]
    BY DEF WakeUp, IInv, TypeOK
<1>3. refs[t] # 0 /\ memory[t] = "live" BY <1>1, HeldIsLive
<1>4. t \notin is_queued BY <1>1 DEF IInv, Lifecycle
<1>5. t \notin is_popped /\ t \notin Members(tasks) BY <1>4 DEF IInv, Queued
<1>6. CASE t \notin is_cancelled
    <2>1. Use(t) /\ Push(t) BY <1>6 DEF WakeUp
    <2>2. /\ memory' = memory /\ refs' \in [Tasks -> Nat]
          /\ \A u \in Tasks : refs'[u] = IF u = t THEN refs[t] + 1 ELSE refs[u]
          /\ MemoryCounted'
        BY <1>3, <2>1, UseFacts
    <2>3. /\ tasks' \in Seq(Tasks) /\ NoRepeats(tasks')
          /\ Members(tasks') = Members(tasks) \cup {t}
          /\ is_queued' = is_queued \cup {t}
          /\ pc' = pc \/ (pc = "wait" /\ pc' = "lock")
        BY <1>4, <2>1, PushFacts
    <2>4. TypeOK' BY <1>1, <1>2, <2>2, <2>3 DEF IInv, TypeOK
    <2>5. Counted'
        <3>1. ASSUME NEW u \in Tasks, u # t PROVE Holders(u)' = Holders(u) /\ refs'[u] = refs[u]
            BY <1>1, <1>2, <2>2, <2>3, <3>1 DEF Holders, One, CallHolds, Dropping
        <3>2. Holders(t)' = Holders(t) + 1 /\ refs'[t] = refs[t] + 1
            BY <1>1, <1>2, <1>3, <1>5, <1>6, <2>2, <2>3 DEF Holders, One, CallHolds, Dropping
        <3>3. Holders(t) \in Nat /\ refs[t] \in Nat
            BY DEF Holders, One, IInv, TypeOK
        <3>. QED BY <3>1, <3>2, <3>3 DEF IInv, Counted
    <2>6. Lifecycle' BY <1>1, <1>2, <1>3, <2>2, <2>3 DEF IInv, Lifecycle
    <2>7. Queued' /\ Control' /\ Ownership'
        BY <1>1, <1>5, <1>6, <2>3 DEF IInv, Queued, Control, Ownership
    <2>. QED BY <2>2, <2>4, <2>5, <2>6, <2>7 DEF IInv
<1>7. CASE t \in is_cancelled
    <2>1. Leave(t) /\ UNCHANGED <<tasks, is_queued, pc>> BY <1>7 DEF WakeUp
    <2>2. /\ memory' \in [Tasks -> {"unused", "live", "freed"}]
          /\ refs' \in [Tasks -> Nat]
          /\ \A u \in Tasks : refs'[u] = IF u = t THEN refs[t] - 1 ELSE refs[u]
          /\ \A u \in Tasks : memory'[u] = "unused" <=> memory[u] = "unused"
          /\ MemoryCounted'
        BY <1>3, <2>1, LeaveFacts
    <2>3. TypeOK' BY <1>1, <1>2, <2>1, <2>2 DEF IInv, TypeOK
    <2>4. Counted'
        <3>1. ASSUME NEW u \in Tasks, u # t PROVE Holders(u)' = Holders(u) /\ refs'[u] = refs[u]
            BY <1>1, <1>2, <2>1, <2>2, <3>1 DEF Holders, One, CallHolds, Dropping
        <3>2. Holders(t)' = Holders(t) - 1 /\ refs'[t] = refs[t] - 1
            BY <1>1, <1>2, <1>3, <1>4, <1>5, <1>7, <2>1, <2>2
            DEF Holders, One, CallHolds, Dropping
        <3>3. Holders(t) \in Nat /\ refs[t] \in Nat
            BY DEF Holders, One, IInv, TypeOK
        <3>. QED BY <3>1, <3>2, <3>3 DEF IInv, Counted
    <2>5. Lifecycle' BY <1>1, <1>2, <1>3, <1>7, <2>1, <2>2 DEF IInv, Lifecycle
    <2>6. Queued' /\ Control' /\ Ownership'
        BY <1>1, <2>1 DEF IInv, Queued, Control, Ownership
    <2>. QED BY <2>2, <2>3, <2>4, <2>5, <2>6 DEF IInv
<1>. QED BY <1>6, <1>7

(* The delay thread's end keeps the invariant.                             *)
LEMMA SleeperLeavesInv ==
    ASSUME IInv, NEW t \in Tasks, SleeperLeaves(t)
    PROVE  IInv'
<1>1. /\ sleeper[t] = "leave" /\ Leave(t)
      /\ UNCHANGED <<flags, tasks, owned, pc, current, target>>
    BY DEF SleeperLeaves
<1>2. /\ sleeper' \in [Tasks -> {"none", "asleep", "leave"}]
      /\ \A u \in Tasks : sleeper'[u] = IF u = t THEN "none" ELSE sleeper[u]
    BY DEF SleeperLeaves, IInv, TypeOK
<1>3. refs[t] # 0 BY <1>1, HeldIsLive
<1>4. /\ memory' \in [Tasks -> {"unused", "live", "freed"}]
      /\ refs' \in [Tasks -> Nat]
      /\ \A u \in Tasks : refs'[u] = IF u = t THEN refs[t] - 1 ELSE refs[u]
      /\ \A u \in Tasks : memory'[u] = "unused" <=> memory[u] = "unused"
      /\ MemoryCounted'
    BY <1>1, <1>3, LeaveFacts
<1>5. TypeOK' BY <1>1, <1>2, <1>4 DEF IInv, TypeOK, flags
<1>6. Counted'
    <2>1. ASSUME NEW u \in Tasks, u # t PROVE Holders(u)' = Holders(u) /\ refs'[u] = refs[u]
        BY <1>1, <1>2, <1>4, <2>1 DEF Holders, One, CallHolds, Dropping, flags
    <2>2. Holders(t)' = Holders(t) - 1 /\ refs'[t] = refs[t] - 1
        BY <1>1, <1>2, <1>4 DEF Holders, One, CallHolds, Dropping, flags
    <2>3. Holders(t) \in Nat /\ refs[t] \in Nat
        BY DEF Holders, One, IInv, TypeOK
    <2>. QED BY <2>1, <2>2, <2>3 DEF IInv, Counted
<1>7. Lifecycle' BY <1>1, <1>2, <1>4 DEF IInv, Lifecycle, flags
<1>8. Queued' /\ Control' /\ Ownership'
    BY <1>1 DEF IInv, Queued, Control, Ownership, flags
<1>. QED BY <1>4, <1>5, <1>6, <1>7, <1>8 DEF IInv

-------------------------------------------------------------------------------
(* The loop                                                                *)

(* Going to wait and waking up keep the invariant.                         *)
LEMMA WaitInv ==
    ASSUME IInv, Wait \/ SpuriousWakeup
    PROVE  IInv'
<1>1. /\ {pc, pc'} \subseteq {"lock", "wait"}
      /\ UNCHANGED <<memory, refs, flags, tasks, sleeper, owned, current, target>>
    BY DEF Wait, SpuriousWakeup
<1>2. TypeOK' BY <1>1 DEF IInv, TypeOK, flags
<1>3. \A t \in Tasks : Holders(t)' = Holders(t)
    BY <1>1 DEF Holders, One, CallHolds, Dropping, flags
<1>4. MemoryCounted' /\ Counted'
    BY <1>1, <1>3 DEF IInv, MemoryCounted, Counted
<1>5. Lifecycle' /\ Queued' BY <1>1 DEF IInv, Lifecycle, Queued, flags
<1>6. Control' /\ Ownership' BY <1>1 DEF IInv, Control, Ownership, flags
<1>. QED BY <1>2, <1>4, <1>5, <1>6 DEF IInv

(* Taking a task off the list keeps the invariant.                         *)
LEMMA PopInv ==
    ASSUME IInv, NEW t \in Tasks, t = Head(tasks), Pop
    PROVE  IInv' /\ pc' = "run"
<1>1. /\ pc = "lock" /\ tasks # << >> /\ current' = t /\ tasks' = Tail(tasks)
      /\ is_popped' = is_popped \cup {t} /\ Leave(t)
      /\ pc' = IF t \in is_cancelled THEN "leave" ELSE "run"
      /\ UNCHANGED <<is_queued, is_cancelled, is_called, sleeper, owned, target>>
    BY DEF Pop
<1>2. /\ tasks' \in Seq(Tasks)
      /\ Members(tasks) = Members(tasks') \cup {t}
      /\ NoRepeats(tasks') /\ t \notin Members(tasks')
    BY <1>1, TailMembers DEF IInv, TypeOK, Queued
<1>3. t \in is_queued /\ t \notin is_popped \cup is_cancelled BY <1>2 DEF IInv, Queued
<1>4. refs[t] # 0 /\ memory[t] = "live" BY <1>2, HeldIsLive
<1>5. /\ memory' \in [Tasks -> {"unused", "live", "freed"}]
      /\ refs' \in [Tasks -> Nat]
      /\ \A u \in Tasks : refs'[u] = IF u = t THEN refs[t] - 1 ELSE refs[u]
      /\ \A u \in Tasks : memory'[u] = "unused" <=> memory[u] = "unused"
      /\ MemoryCounted'
    BY <1>1, <1>2, <1>4, LeaveFacts
<1>6. /\ current \notin Tasks /\ target \notin Tasks /\ pc' = "run"
    BY <1>1, <1>3 DEF IInv, Control
<1>7. TypeOK' BY <1>1, <1>2, <1>5, <1>6 DEF IInv, TypeOK
<1>8. Counted'
    <2>1. ASSUME NEW u \in Tasks, u # t PROVE Holders(u)' = Holders(u) /\ refs'[u] = refs[u]
        BY <1>1, <1>2, <1>5, <1>6, <2>1 DEF Holders, One, CallHolds, Dropping, flags
    <2>4. CallHolds(t) /\ CallHolds(t)'
        BY <1>1, <1>2, <1>3, <1>4, <1>5 DEF CallHolds
    <2>5. ~Dropping(t) /\ ~Dropping(t)' BY <1>1, <1>6 DEF Dropping
    <2>2. Holders(t)' = Holders(t) - 1 /\ refs'[t] = refs[t] - 1
        BY <1>1, <1>2, <1>5, <2>4, <2>5 DEF Holders, One
    <2>3. Holders(t) \in Nat /\ refs[t] \in Nat
        BY DEF Holders, One, IInv, TypeOK
    <2>. QED BY <2>1, <2>2, <2>3 DEF IInv, Counted
<1>9. Lifecycle' BY <1>1, <1>5 DEF IInv, Lifecycle
<1>10. Queued'
    BY <1>1, <1>2, <1>3, <1>6 DEF IInv, Queued, TypeOK
<1>11. Control' BY <1>1, <1>2, <1>3, <1>6 DEF IInv, Control, Queued
<1>12. Ownership' BY <1>1, <1>6 DEF IInv, Ownership, TypeOK
<1>. QED BY <1>2, <1>5, <1>6, <1>7, <1>8, <1>9, <1>10, <1>11, <1>12 DEF IInv

(* The function of a task lets go of it: the invariant is kept.            *)
LEMMA DisownInv ==
    ASSUME IInv, NEW t \in Tasks, t = current, Disown
    PROVE  IInv'
<1>1. /\ pc = "run" /\ t \in owned /\ owned' = owned \ {t}
      /\ UNCHANGED <<flags, tasks, sleeper, pc, current, target>>
    BY DEF Disown
<1>2. target \notin Tasks BY <1>1 DEF IInv, Control
<1>3. Queued' /\ Control' /\ Ownership'
    BY <1>1, <1>2 DEF IInv, Queued, Control, Ownership, flags
<1>4. refs[t] # 0 BY <1>1, HeldIsLive
<1>5. CASE t \in SessionTasks
    <2>1. Leave(t) BY <1>5 DEF Disown
    <2>2. /\ memory' \in [Tasks -> {"unused", "live", "freed"}]
          /\ refs' \in [Tasks -> Nat]
          /\ \A u \in Tasks : refs'[u] = IF u = t THEN refs[t] - 1 ELSE refs[u]
          /\ \A u \in Tasks : memory'[u] = "unused" <=> memory[u] = "unused"
          /\ MemoryCounted'
        BY <1>4, <2>1, LeaveFacts
    <2>3. TypeOK' BY <1>1, <2>2 DEF IInv, TypeOK, flags
    <2>4. Counted'
        <3>1. ASSUME NEW u \in Tasks, u # t PROVE Holders(u)' = Holders(u) /\ refs'[u] = refs[u]
            BY <1>1, <2>2, <3>1 DEF Holders, One, CallHolds, Dropping, flags
        <3>2. Holders(t)' = Holders(t) - 1 /\ refs'[t] = refs[t] - 1
            BY <1>1, <2>2 DEF Holders, One, CallHolds, Dropping, flags
        <3>3. Holders(t) \in Nat /\ refs[t] \in Nat
            BY DEF Holders, One, IInv, TypeOK
        <3>. QED BY <3>1, <3>2, <3>3 DEF IInv, Counted
    <2>5. Lifecycle' BY <1>1, <2>2 DEF IInv, Lifecycle, flags
    <2>. QED BY <1>3, <2>2, <2>3, <2>4, <2>5 DEF IInv
<1>6. CASE t \notin SessionTasks
    <2>1. UNCHANGED <<memory, refs>> BY <1>6 DEF Disown
    <2>2. TypeOK' BY <1>1, <2>1 DEF IInv, TypeOK, flags
    <2>3. t \in ToleratedTasks BY <1>1, <1>6 DEF IInv, TypeOK
    <2>4. Counted'
        <3>1. ASSUME NEW u \in Tasks, u # t PROVE Holders(u)' = Holders(u)
            BY <1>1, <2>1, <3>1 DEF Holders, One, CallHolds, Dropping, flags
        <3>2. Holders(t)' = Holders(t) - 1
            BY <1>1, <2>1 DEF Holders, One, CallHolds, Dropping, flags
        <3>3. Holders(t) \in Nat /\ refs[t] \in Nat
            BY DEF Holders, One, IInv, TypeOK
        <3>. QED BY <2>1, <2>3, <3>1, <3>2, <3>3 DEF IInv, Counted
    <2>5. Lifecycle' /\ MemoryCounted'
        BY <1>1, <2>1 DEF IInv, Lifecycle, MemoryCounted, flags
    <2>. QED BY <1>3, <2>2, <2>4, <2>5 DEF IInv
<1>. QED BY <1>5, <1>6

(* The return of a task's function keeps the invariant.                    *)
LEMMA ReturnInv ==
    ASSUME IInv, Return
    PROVE  IInv'
<1>1. /\ pc = "run" /\ pc' = "leave" /\ current \notin owned \cap SessionTasks
      /\ is_called' = is_called \cup {current}
      /\ UNCHANGED <<memory, refs, is_queued, is_popped, is_cancelled, tasks, sleeper,
                     owned, current, target>>
    BY DEF Return
<1>2. current \in Tasks /\ current \in is_popped /\ target \notin Tasks
    BY <1>1 DEF IInv, Control
<1>3. TypeOK' BY <1>1, <1>2 DEF IInv, TypeOK
<1>4. \A t \in Tasks : Holders(t)' = Holders(t)
    BY <1>1 DEF Holders, One, CallHolds, Dropping
<1>5. MemoryCounted' /\ Counted' BY <1>1, <1>4 DEF IInv, MemoryCounted, Counted
<1>6. Lifecycle' BY <1>1 DEF IInv, Lifecycle
<1>7. Queued' BY <1>1, <1>2 DEF IInv, Queued
<1>8. Control' /\ Ownership' BY <1>1, <1>2 DEF IInv, Control, Ownership
<1>. QED BY <1>3, <1>5, <1>6, <1>7, <1>8 DEF IInv

(* The loop's last reference to a task keeps the invariant.                *)
LEMMA LoopLeavesInv ==
    ASSUME IInv, NEW t \in Tasks, t = current, LoopLeaves
    PROVE  IInv'
<1>1. /\ pc = "leave" /\ pc' = "lock" /\ current' = NoTask /\ Leave(t)
      /\ UNCHANGED <<flags, tasks, sleeper, owned, target>>
    BY DEF LoopLeaves
<1>2. /\ t \in is_popped /\ t \notin is_cancelled /\ t \in is_called /\ target \notin Tasks
    BY <1>1 DEF IInv, Control
<1>3. memory[t] # "unused" BY <1>2, UnusedIsNowhere
<1>4. CallHolds(t) BY <1>2, <1>3 DEF CallHolds
<1>5. refs[t] # 0 BY <1>4, HeldIsLive
<1>6. /\ memory' \in [Tasks -> {"unused", "live", "freed"}]
      /\ refs' \in [Tasks -> Nat]
      /\ \A u \in Tasks : refs'[u] = IF u = t THEN refs[t] - 1 ELSE refs[u]
      /\ \A u \in Tasks : memory'[u] = "unused" <=> memory[u] = "unused"
      /\ MemoryCounted'
    BY <1>1, <1>5, LeaveFacts
<1>7. TypeOK' BY <1>1, <1>6 DEF IInv, TypeOK, flags
<1>8. Counted'
    <2>1. ASSUME NEW u \in Tasks, u # t PROVE Holders(u)' = Holders(u) /\ refs'[u] = refs[u]
        BY <1>1, <1>6, TasksAssumption, <2>1 DEF Holders, One, CallHolds, Dropping, flags
    <2>2. Holders(t)' = Holders(t) - 1 /\ refs'[t] = refs[t] - 1
        BY <1>1, <1>2, <1>4, <1>6, TasksAssumption DEF Holders, One, CallHolds, Dropping, flags
    <2>3. Holders(t) \in Nat /\ refs[t] \in Nat
        BY DEF Holders, One, IInv, TypeOK
    <2>. QED BY <2>1, <2>2, <2>3 DEF IInv, Counted
<1>9. Lifecycle' BY <1>1, <1>6 DEF IInv, Lifecycle, flags
<1>10. Queued' BY <1>1, <1>2 DEF IInv, Queued, flags
<1>11. Control'
    BY <1>1, <1>2, TasksAssumption DEF IInv, Control, Queued, TypeOK, flags
<1>12. Ownership' BY <1>1 DEF IInv, Ownership, flags
<1>. QED BY <1>6, <1>7, <1>8, <1>9, <1>10, <1>11, <1>12 DEF IInv

-------------------------------------------------------------------------------
(* Cancelling                                                              *)

(* Dropping the session's reference first keeps the invariant: the call's  *)
(* is still there, since the task has not been popped.                     *)
LEMMA LeaveToCancelInv ==
    ASSUME IInv, NEW t \in Tasks, LeaveToCancel(t)
    PROVE  IInv'
<1>1. /\ pc = "run" /\ pc' = "cancel" /\ target' = t /\ Leave(t)
      /\ current \notin owned \cap SessionTasks
      /\ t \in owned \cap SessionTasks /\ owned' = owned \ {t}
      /\ UNCHANGED <<flags, tasks, sleeper, current>>
    BY DEF LeaveToCancel
<1>2. t \notin is_popped \cup is_cancelled /\ t # current /\ target \notin Tasks
    BY <1>1 DEF IInv, Ownership, Control
<1>3. refs[t] # 0 /\ memory[t] = "live" BY <1>1, HeldIsLive
<1>4. /\ memory' \in [Tasks -> {"unused", "live", "freed"}]
      /\ refs' \in [Tasks -> Nat]
      /\ \A u \in Tasks : refs'[u] = IF u = t THEN refs[t] - 1 ELSE refs[u]
      /\ \A u \in Tasks : memory'[u] = "unused" <=> memory[u] = "unused"
      /\ MemoryCounted'
    BY <1>1, <1>3, LeaveFacts
<1>5. TypeOK' BY <1>1, <1>4 DEF IInv, TypeOK, flags
<1>6. Counted'
    <2>1. ASSUME NEW u \in Tasks, u # t PROVE Holders(u)' = Holders(u) /\ refs'[u] = refs[u]
        BY <1>1, <1>4, <2>1 DEF Holders, One, CallHolds, Dropping, flags
    <2>2. Holders(t)' = Holders(t) - 1 /\ refs'[t] = refs[t] - 1
        BY <1>1, <1>2, <1>4 DEF Holders, One, CallHolds, Dropping, flags
    <2>3. Holders(t) \in Nat /\ refs[t] \in Nat
        BY DEF Holders, One, IInv, TypeOK
    <2>. QED BY <2>1, <2>2, <2>3 DEF IInv, Counted
<1>7. Lifecycle' BY <1>1, <1>3, <1>4 DEF IInv, Lifecycle, flags
<1>8. Queued' BY <1>1 DEF IInv, Queued, flags
<1>9. Control' BY <1>1, <1>2 DEF IInv, Control, flags
<1>10. Ownership' BY <1>1 DEF IInv, Ownership, flags
<1>. QED BY <1>4, <1>5, <1>6, <1>7, <1>8, <1>9, <1>10 DEF IInv

(* The cancel that follows keeps the invariant.                            *)
LEMMA CancelTargetInv ==
    ASSUME IInv, NEW t \in Tasks, t = target, CancelTarget
    PROVE  IInv'
<1>1. /\ pc = "cancel" /\ pc' = "run" /\ target' = NoTask /\ DoCancel(t)
      /\ UNCHANGED <<is_queued, is_popped, is_called, sleeper, owned, current>>
    BY DEF CancelTarget
<1>2. /\ t # current /\ t \notin is_popped \cup is_cancelled \cup owned
    BY <1>1 DEF IInv, Control
<1>3. /\ tasks' \in Seq(Tasks) /\ NoRepeats(tasks')
      /\ Members(tasks') = Members(tasks) \ {t}
      /\ is_cancelled' = is_cancelled \cup {t}
      /\ memory' \in [Tasks -> {"unused", "live", "freed"}]
      /\ refs' \in [Tasks -> Nat]
      /\ \A u \in Tasks : refs'[u] = IF u = t /\ t \in Members(tasks)
                                     THEN refs[u] - 1 ELSE refs[u]
      /\ \A u \in Tasks : memory'[u] = "unused" <=> memory[u] = "unused"
      /\ MemoryCounted'
    BY <1>1, <1>2, DoCancelFacts
<1>4. TypeOK' BY <1>1, <1>3 DEF IInv, TypeOK
<1>5. memory[t] # "unused" BY DEF IInv, Lifecycle
<1>6. Counted'
    <2>1. ASSUME NEW u \in Tasks, u # t PROVE Holders(u)' = Holders(u) /\ refs'[u] = refs[u]
        BY <1>1, <1>3, <2>1 DEF Holders, One, CallHolds, Dropping
    <2>2. CallHolds(t) /\ CallHolds(t)'
        BY <1>1, <1>2, <1>3, <1>5 DEF CallHolds, IInv, Lifecycle
    <2>3. ~Dropping(t) /\ ~Dropping(t)' BY <1>1 DEF Dropping
    <2>4. /\ Holders(t)' = Holders(t) - One(t \in Members(tasks))
          /\ refs'[t] = refs[t] - One(t \in Members(tasks))
        BY <1>1, <1>3, <2>2, <2>3 DEF Holders, One, IInv, TypeOK
    <2>5. Holders(t) \in Nat /\ refs[t] \in Nat /\ One(t \in Members(tasks)) \in Nat
        BY DEF Holders, One, IInv, TypeOK
    <2>. QED BY <2>1, <2>4, <2>5 DEF IInv, Counted
<1>7. Lifecycle' BY <1>1, <1>3, <1>5, TasksAssumption DEF IInv, Lifecycle
<1>8. Queued' BY <1>1, <1>3 DEF IInv, Queued
<1>9. Control' BY <1>1, <1>2, <1>3, TasksAssumption DEF IInv, Control
<1>10. Ownership' BY <1>1, <1>2, <1>3 DEF IInv, Ownership
<1>. QED BY <1>3, <1>4, <1>6, <1>7, <1>8, <1>9, <1>10 DEF IInv

(* Cancelling first keeps the invariant; the task may have run before.     *)
LEMMA CancelToLeaveInv ==
    ASSUME IInv, NEW t \in Tasks, CancelToLeave(t)
    PROVE  IInv'
<1>1. /\ pc = "run" /\ pc' = "drop" /\ target' = t /\ DoCancel(t)
      /\ current \notin owned \cap SessionTasks
      /\ t \in owned /\ t # current /\ owned' = owned \ {t}
      /\ UNCHANGED <<is_queued, is_popped, is_called, sleeper, current>>
    BY DEF CancelToLeave
<1>2. t \notin is_cancelled /\ target \notin Tasks
    BY <1>1 DEF IInv, Ownership, Control
<1>3. /\ tasks' \in Seq(Tasks) /\ NoRepeats(tasks')
      /\ Members(tasks') = Members(tasks) \ {t}
      /\ is_cancelled' = is_cancelled \cup {t}
      /\ memory' \in [Tasks -> {"unused", "live", "freed"}]
      /\ refs' \in [Tasks -> Nat]
      /\ \A u \in Tasks : refs'[u] = IF u = t /\ t \in Members(tasks)
                                     THEN refs[u] - 1 ELSE refs[u]
      /\ \A u \in Tasks : memory'[u] = "unused" <=> memory[u] = "unused"
      /\ MemoryCounted'
    BY <1>1, <1>2, DoCancelFacts
<1>4. TypeOK' BY <1>1, <1>3 DEF IInv, TypeOK
<1>5. memory[t] # "unused" BY <1>1 DEF IInv, Lifecycle
<1>6. Counted'
    <2>1. ASSUME NEW u \in Tasks, u # t PROVE Holders(u)' = Holders(u) /\ refs'[u] = refs[u]
        BY <1>1, <1>2, <1>3, <2>1 DEF Holders, One, CallHolds, Dropping
    <2>2. CallHolds(t) <=> CallHolds(t)'
        BY <1>1, <1>2, <1>3, <1>5 DEF CallHolds, IInv, Lifecycle
    <2>3. ~Dropping(t) /\ Dropping(t)' BY <1>1, <1>2 DEF Dropping
    <2>4. /\ Holders(t)' = Holders(t) - One(t \in Members(tasks))
          /\ refs'[t] = refs[t] - One(t \in Members(tasks))
        BY <1>1, <1>3, <2>2, <2>3 DEF Holders, One, IInv, TypeOK
    <2>5. Holders(t) \in Nat /\ refs[t] \in Nat /\ One(t \in Members(tasks)) \in Nat
        BY DEF Holders, One, IInv, TypeOK
    <2>. QED BY <2>1, <2>4, <2>5 DEF IInv, Counted
<1>7. Lifecycle' BY <1>1, <1>3, <1>5 DEF IInv, Lifecycle
<1>8. Queued' BY <1>1, <1>3 DEF IInv, Queued
<1>9. Control' BY <1>1, <1>2, <1>3 DEF IInv, Control
<1>10. Ownership' BY <1>1, <1>3 DEF IInv, Ownership
<1>. QED BY <1>3, <1>4, <1>6, <1>7, <1>8, <1>9, <1>10 DEF IInv

(* The reference dropped after it keeps the invariant.                     *)
LEMMA DropTargetInv ==
    ASSUME IInv, NEW t \in Tasks, t = target, DropTarget
    PROVE  IInv'
<1>1. /\ pc = "drop" /\ pc' = "run" /\ target' = NoTask /\ Leave(t)
      /\ UNCHANGED <<flags, tasks, sleeper, owned, current>>
    BY DEF DropTarget
<1>2. t # current /\ Dropping(t) BY <1>1 DEF IInv, Control, Dropping
<1>3. refs[t] # 0 /\ memory[t] = "live" BY <1>2, HeldIsLive
<1>4. /\ memory' \in [Tasks -> {"unused", "live", "freed"}]
      /\ refs' \in [Tasks -> Nat]
      /\ \A u \in Tasks : refs'[u] = IF u = t THEN refs[t] - 1 ELSE refs[u]
      /\ \A u \in Tasks : memory'[u] = "unused" <=> memory[u] = "unused"
      /\ MemoryCounted'
    BY <1>1, <1>3, LeaveFacts
<1>5. TypeOK' BY <1>1, <1>4 DEF IInv, TypeOK, flags
<1>6. Counted'
    <2>1. ASSUME NEW u \in Tasks, u # t PROVE Holders(u)' = Holders(u) /\ refs'[u] = refs[u]
        BY <1>1, <1>4, <2>1 DEF Holders, One, CallHolds, Dropping, flags
    <2>2. Holders(t)' = Holders(t) - 1 /\ refs'[t] = refs[t] - 1
        BY <1>1, <1>2, <1>4 DEF Holders, One, CallHolds, Dropping, flags
    <2>3. Holders(t) \in Nat /\ refs[t] \in Nat
        BY DEF Holders, One, IInv, TypeOK
    <2>. QED BY <2>1, <2>2, <2>3 DEF IInv, Counted
<1>7. Lifecycle' BY <1>1, <1>3, <1>4, TasksAssumption DEF IInv, Lifecycle, flags
<1>8. Queued' BY <1>1 DEF IInv, Queued, flags
<1>9. Control' BY <1>1, TasksAssumption DEF IInv, Control, flags
<1>10. Ownership' BY <1>1 DEF IInv, Ownership, flags
<1>. QED BY <1>4, <1>5, <1>6, <1>7, <1>8, <1>9, <1>10 DEF IInv

-------------------------------------------------------------------------------
(* Every step keeps the invariant.                                         *)
LEMMA NextInv == IInv /\ [Next]_vars => IInv'
<1>1. SUFFICES ASSUME IInv, [Next]_vars PROVE IInv' OBVIOUS
<1>2. CASE UNCHANGED vars
    BY <1>1, <1>2
    DEF vars, flags, IInv, TypeOK, MemoryCounted, Counted, Holders, One, CallHolds, Dropping,
        Lifecycle, Queued, Control, Ownership
<1>3. CASE Wait \/ SpuriousWakeup BY <1>1, <1>3, WaitInv
<1>4. CASE Pop
    <2>1. Head(tasks) \in Tasks BY <1>1, <1>4, TailMembers DEF Pop, IInv, TypeOK
    <2>. QED BY <1>1, <1>4, <2>1, PopInv
<1>5. CASE Disown
    <2>1. current \in Tasks BY <1>1, <1>5 DEF Disown, IInv, Control
    <2>. QED BY <1>1, <1>5, <2>1, DisownInv
<1>6. CASE Return BY <1>1, <1>6, ReturnInv
<1>7. CASE LoopLeaves
    <2>1. current \in Tasks BY <1>1, <1>7 DEF LoopLeaves, IInv, Control
    <2>. QED BY <1>1, <1>7, <2>1, LoopLeavesInv
<1>8. CASE Adopt \/ CancelTarget \/ DropTarget
    <2>1. target \in Tasks
        BY <1>1, <1>8 DEF Adopt, CancelTarget, DropTarget, IInv, Control
    <2>. QED BY <1>1, <1>8, <2>1, AdoptInv, CancelTargetInv, DropTargetInv
<1>9. ASSUME NEW t \in Tasks,
             CallAfter(t) \/ LeaveToCancel(t) \/ CancelToLeave(t) \/ Call(t)
      PROVE  IInv'
    BY <1>1, <1>9, CallAfterInv, LeaveToCancelInv, CancelToLeaveInv, CallInv
<1>10. ASSUME NEW t \in Tasks, SleeperStep(t) PROVE IInv'
    BY <1>1, <1>10, WakeUpInv, SleeperLeavesInv DEF SleeperStep
<1>. QED
    BY <1>1, <1>2, <1>3, <1>4, <1>5, <1>6, <1>7, <1>8, <1>9, <1>10 DEF Next, LoopStep

(* The invariant always holds.                                             *)
LEMMA Invariance == Spec => []IInv
BY InitInv, NextInv, PTL DEF Spec

(* A count of references is a natural number in every reachable state: no  *)
(* thread drops a reference that was not taken (ref.c:33).                 *)
THEOREM TypeCorrect == Spec => []TypeOK
<1>1. IInv => TypeOK BY DEF IInv
<1>. QED BY <1>1, Invariance, PTL

(* No task is freed while a thread still has a use for it: the loop, the   *)
(* list, a delay thread, the lobby, or a cancel in progress.               *)
THEOREM NeverUsedAfterFree == Spec => []NoUseAfterFree
<1>1. IInv => NoUseAfterFree
    <2>1. SUFFICES ASSUME IInv, NEW t \in Reachable PROVE memory[t] = "live"
        BY DEF NoUseAfterFree
    <2>2. t \in Tasks
        BY <2>1, MembersByIndex, TasksAssumption DEF Reachable, IInv, TypeOK
    <2>3. CASE t \in Members(tasks) \/ sleeper[t] # "none" \/ t \in owned
        BY <2>1, <2>2, <2>3, HeldIsLive
    <2>4. CASE t = current
        <3>1. t \in is_popped BY <2>1, <2>2, <2>4 DEF IInv, Control
        <3>2. memory[t] # "unused" BY <2>1, <2>2, <3>1, UnusedIsNowhere
        <3>. QED BY <2>1, <2>2, <2>4, <3>1, <3>2, HeldIsLive DEF CallHolds
    <2>5. CASE t = target
        <3>1. memory[t] # "unused" BY <2>1, <2>2, <2>5, UnusedIsNowhere
        <3>2. CallHolds(t) \/ Dropping(t)
            BY <2>1, <2>2, <2>5, <3>1 DEF IInv, Control, CallHolds, Dropping
        <3>. QED BY <2>1, <2>2, <3>2, HeldIsLive
    <2>. QED BY <2>1, <2>3, <2>4, <2>5 DEF Reachable
<1>. QED BY <1>1, Invariance, PTL

(* A task nobody will look at is freed, but for those cancelled in the     *)
(* queue, which keep exactly one reference, and tolerated disconnections.  *)
THEOREM ReleasedInTheEnd == Spec => []ReleasedWhenSettled
<1>1. IInv => ReleasedWhenSettled
    <2>1. SUFFICES ASSUME IInv, NEW t \in Tasks, t \notin ToleratedTasks \cup Reachable,
                          memory[t] = "live"
                   PROVE  t \in is_cancelled \cap is_queued /\ refs[t] = 1
        BY DEF ReleasedWhenSettled
    <2>2. /\ t \notin Members(tasks) /\ sleeper[t] = "none" /\ t \notin owned
          /\ t # current /\ t # target
        BY <2>1, TasksAssumption DEF Reachable
    <2>3. refs[t] = Holders(t) /\ refs[t] > 0
        BY <2>1 DEF IInv, Counted, MemoryCounted
    <2>4. ~Dropping(t) BY <2>2 DEF Dropping
    <2>5. refs[t] = One(CallHolds(t)) BY <2>2, <2>3, <2>4 DEF Holders, One
    <2>6. CallHolds(t) /\ refs[t] = 1 BY <2>3, <2>5 DEF One
    <2>7. t \notin is_popped /\ (t \in is_cancelled => t \in is_queued)
        BY <2>2, <2>6 DEF CallHolds
    <2>8. t \in is_queued \cup is_cancelled BY <2>1, <2>2 DEF IInv, Lifecycle
    <2>9. t \in is_cancelled BY <2>1, <2>2, <2>7, <2>8 DEF IInv, Queued
    <2>. QED BY <2>6, <2>7, <2>9
<1>. QED BY <1>1, Invariance, PTL

-------------------------------------------------------------------------------
(* What every step does to the state of TaskQueue: nothing, or a step of   *)
(* its own.                                                                *)

(* Steps TaskQueue does not see.                                           *)
LEMMA InnerStutters ==
    ASSUME IInv,
           \/ Wait \/ SpuriousWakeup \/ Disown \/ LoopLeaves \/ Adopt \/ DropTarget
           \/ \E t \in Tasks : LeaveToCancel(t) \/ SleeperLeaves(t)
    PROVE  UNCHANGED Queue!vars
<1>1. UNCHANGED <<flags, tasks>>
    BY DEF Wait, SpuriousWakeup, Disown, LoopLeaves, Adopt, DropTarget, LeaveToCancel,
           SleeperLeaves
<1>2. Running' = Running
    BY DEF Wait, SpuriousWakeup, Disown, LoopLeaves, Adopt, DropTarget, LeaveToCancel,
           SleeperLeaves, Running, IInv, Control
<1>3. Asleep' = Asleep
    <2>1. CASE UNCHANGED sleeper BY <1>1, <2>1 DEF Asleep, flags
    <2>2. ASSUME NEW t \in Tasks, SleeperLeaves(t) PROVE Asleep' = Asleep
        <3>1. sleeper[t] = "leave" /\ sleeper' = [sleeper EXCEPT ![t] = "none"]
            BY <2>2 DEF SleeperLeaves
        <3>2. \A u \in Tasks : sleeper[u] = "asleep" <=> sleeper'[u] = "asleep"
            BY <3>1 DEF IInv, TypeOK
        <3>. QED BY <1>1, <3>2 DEF Asleep, flags
    <2>. QED BY <2>1, <2>2 DEF Wait, SpuriousWakeup, Disown, LoopLeaves, Adopt, DropTarget, LeaveToCancel
<1>4. Ended' = Ended BY <1>1 DEF Ended, flags
<1>. QED BY <1>1, <1>2, <1>3, <1>4 DEF Queue!vars

(* TaskQueue means the same by the members of a list.                      *)
LEMMA SameLists ==
    /\ Queue!Members(tasks) = Members(tasks)
    /\ \A t : Queue!Without(tasks, {t}) = Without(tasks, {t})
BY DEF Queue!Members, Members, Queue!Without, Without

(* Handing a task over is Call or CallAfter.                               *)
LEMMA CallRefines ==
    ASSUME IInv, NEW t \in Tasks, Call(t)
    PROVE  Queue!Call(t)
<1>1. memory[t] = "unused" BY DEF Call, New
<1>2. Queue!IsNew(t)
    BY <1>1, UnusedIsNowhere, SameLists, TasksAssumption
    DEF Queue!IsNew, Asleep, Running, Ended
<1>3. /\ tasks' = Append(tasks, t) /\ (pc' = pc \/ (pc = "wait" /\ pc' = "lock"))
      /\ UNCHANGED <<is_cancelled, is_called, sleeper, current>>
    BY DEF Call, Push
<1>4. UNCHANGED <<Asleep, Running, Ended>> BY <1>3 DEF Asleep, Running, Ended
<1>. QED BY <1>2, <1>3, <1>4 DEF Queue!Call

LEMMA CallAfterRefines ==
    ASSUME IInv, NEW t \in Tasks, CallAfter(t)
    PROVE  Queue!CallAfter(t)
<1>1. memory[t] = "unused" BY DEF CallAfter, New
<1>2. Queue!IsNew(t) /\ t \notin is_cancelled
    BY <1>1, UnusedIsNowhere, SameLists, TasksAssumption
    DEF Queue!IsNew, Asleep, Running, Ended
<1>3. /\ pc = "run" /\ pc' \in {"run", "adopt"}
      /\ sleeper' = [sleeper EXCEPT ![t] = "asleep"]
      /\ UNCHANGED <<tasks, is_cancelled, is_called, current>>
    BY DEF CallAfter, flags
<1>4. UNCHANGED <<Running, Ended>> BY <1>3 DEF Running, Ended
<1>5. \A u \in Tasks : sleeper'[u] = IF u = t THEN "asleep" ELSE sleeper[u]
    BY <1>3 DEF IInv, TypeOK
<1>6. Asleep' = Asleep \cup {t} BY <1>2, <1>3, <1>5 DEF Asleep
<1>. QED BY <1>2, <1>3, <1>4, <1>6 DEF Queue!CallAfter

(* Waking up is Due, unless the task was cancelled meanwhile.              *)
LEMMA WakeUpRefines ==
    ASSUME IInv, NEW t \in Tasks, WakeUp(t)
    PROVE  Queue!Due(t) \/ UNCHANGED Queue!vars
<1>1. sleeper[t] = "asleep" /\ UNCHANGED <<is_cancelled, is_called, current>>
    BY DEF WakeUp
<1>2. \A u \in Tasks : sleeper'[u] = IF u = t THEN "leave" ELSE sleeper[u]
    BY DEF WakeUp, IInv, TypeOK
<1>3. Asleep' = Asleep \ {t} BY <1>1, <1>2 DEF Asleep
<1>4. Ended' = Ended BY <1>1 DEF Ended
<1>5. CASE t \notin is_cancelled
    <2>1. tasks' = Append(tasks, t) /\ (pc' = pc \/ (pc = "wait" /\ pc' = "lock"))
        BY <1>5 DEF WakeUp, Push
    <2>2. Running' = Running BY <1>1, <2>1 DEF Running
    <2>3. t \in Asleep BY <1>1, <1>5 DEF Asleep
    <2>. QED BY <1>3, <1>4, <2>1, <2>2, <2>3 DEF Queue!Due
<1>6. CASE t \in is_cancelled
    <2>1. UNCHANGED <<tasks, pc>> BY <1>6 DEF WakeUp
    <2>2. Running' = Running BY <1>1, <2>1 DEF Running
    <2>3. t \notin Asleep BY <1>6 DEF Asleep
    <2>. QED BY <1>3, <1>4, <2>1, <2>2, <2>3 DEF Queue!vars
<1>. QED BY <1>5, <1>6

(* Popping is Take: a cancelled task is never in the list.                 *)
LEMMA PopRefines ==
    ASSUME IInv, Pop
    PROVE  Queue!Take
<1>1. /\ pc = "lock" /\ tasks # << >> /\ current' = Head(tasks) /\ tasks' = Tail(tasks)
      /\ UNCHANGED <<is_cancelled, is_called, sleeper>>
    BY DEF Pop
<1>2. Head(tasks) \in Tasks BY <1>1, TailMembers DEF IInv, TypeOK
<1>3. pc' = "run" BY <1>2, PopInv
<1>4. Running = NoTask /\ Running' = Head(tasks) BY <1>1, <1>3 DEF Running
<1>5. UNCHANGED <<Asleep, Ended>> BY <1>1 DEF Asleep, Ended
<1>. QED BY <1>1, <1>4, <1>5 DEF Queue!Take

(* The function's return is Finish.                                        *)
LEMMA ReturnRefines ==
    ASSUME IInv, Return
    PROVE  Queue!Finish
<1>1. /\ pc = "run" /\ pc' = "leave" /\ is_called' = is_called \cup {current}
      /\ UNCHANGED <<tasks, is_cancelled, sleeper, current>>
    BY DEF Return
<1>2. Running = current /\ Running' = NoTask /\ Running # NoTask
    BY <1>1, TasksAssumption DEF Running, IInv, Control
<1>3. Asleep' = Asleep /\ Ended' = Ended \cup {Running} BY <1>1, <1>2 DEF Asleep, Ended
<1>. QED BY <1>1, <1>2, <1>3 DEF Queue!Finish

(* Cancelling is Cancel, unless the task has ended.                        *)
LEMMA DoCancelRefines ==
    ASSUME IInv, NEW t \in Tasks, t \notin is_cancelled, DoCancel(t),
           memory[t] # "unused", t # current,
           pc \in {"run", "cancel"}, pc' \in {"run", "drop"},
           UNCHANGED <<is_called, sleeper, current>>
    PROVE  Queue!Cancel(t) \/ UNCHANGED Queue!vars
<1>1. /\ is_cancelled' = is_cancelled \cup {t}
      /\ tasks' = Without(tasks, {t})
    BY DoCancelFacts
<1>2. Running' = Running /\ Running # NoTask
    BY TasksAssumption DEF Running, IInv, Control
<1>3. Asleep' = Asleep \ {t} /\ Ended' = Ended \cup {t} BY <1>1 DEF Asleep, Ended
<1>4. CASE t \in Asleep \cup Members(tasks)
    BY <1>1, <1>2, <1>3, <1>4, SameLists DEF Queue!Cancel
<1>5. CASE t \notin Asleep \cup Members(tasks)
    <2>1. t \in is_called BY <1>5 DEF Asleep, IInv, Lifecycle, Queued
    <2>2. tasks' = tasks
        BY <1>1, <1>5, WithoutMembers DEF IInv, TypeOK
    <2>. QED BY <1>2, <1>3, <1>5, <2>1, <2>2 DEF Queue!vars, Ended
<1>. QED BY <1>4, <1>5

(* Every step keeps the promise.                                           *)
LEMMA StepRefines == IInv /\ [Next]_vars => [Queue!Next]_(Queue!vars)
<1>1. SUFFICES ASSUME IInv, [Next]_vars PROVE Queue!Next \/ UNCHANGED Queue!vars
    OBVIOUS
<1>2. CASE UNCHANGED vars
    BY <1>2 DEF vars, flags, Queue!vars, Asleep, Running, Ended
<1>3. CASE \/ Wait \/ SpuriousWakeup \/ Disown \/ LoopLeaves \/ Adopt \/ DropTarget
           \/ \E t \in Tasks : LeaveToCancel(t) \/ SleeperLeaves(t)
    BY <1>1, <1>3, InnerStutters
<1>4. CASE Pop BY <1>1, <1>4, PopRefines DEF Queue!Next
<1>5. CASE Return BY <1>1, <1>5, ReturnRefines DEF Queue!Next
<1>6. CASE CancelTarget
    <2>1. target \in Tasks /\ target # current /\ target \notin is_cancelled
        BY <1>1, <1>6 DEF CancelTarget, IInv, Control
    <2>2. memory[target] # "unused" BY <1>1, <2>1, UnusedIsNowhere
    <2>3. Queue!Cancel(target) \/ UNCHANGED Queue!vars
        BY <1>1, <1>6, <2>1, <2>2, DoCancelRefines DEF CancelTarget
    <2>. QED BY <2>1, <2>3 DEF Queue!Next
<1>7. ASSUME NEW t \in Tasks, CancelToLeave(t) PROVE Queue!Next \/ UNCHANGED Queue!vars
    <2>1. t \in owned /\ t # current BY <1>7 DEF CancelToLeave
    <2>2. t \notin is_cancelled BY <1>1, <2>1 DEF IInv, Ownership
    <2>3. memory[t] # "unused" BY <1>1, <2>1, UnusedIsNowhere
    <2>4. Queue!Cancel(t) \/ UNCHANGED Queue!vars
        BY <1>1, <1>7, <2>1, <2>2, <2>3, DoCancelRefines DEF CancelToLeave
    <2>. QED BY <2>4 DEF Queue!Next
<1>8. ASSUME NEW t \in Tasks, CallAfter(t) \/ Call(t) \/ WakeUp(t)
      PROVE  Queue!Next \/ UNCHANGED Queue!vars
    BY <1>1, <1>8, CallAfterRefines, CallRefines, WakeUpRefines DEF Queue!Next
<1>. QED
    BY <1>1, <1>2, <1>3, <1>4, <1>5, <1>6, <1>7, <1>8 DEF Next, LoopStep, SleeperStep

(* The safety half of ImplementsTaskQueue: tasks run one at a time and in  *)
(* order, and none after it was cancelled.                                 *)
THEOREM KeepsThePromise == Spec => Queue!Init /\ [][Queue!Next]_(Queue!vars)
<1>1. Init => Queue!Init
    BY DEF Init, Queue!Init, Asleep, Running, Ended
<1>. QED BY <1>1, StepRefines, Invariance, PTL DEF Spec
===============================================================================
