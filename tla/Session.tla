------------------------------- MODULE Session -------------------------------
(***************************************************************************)
(* One game session of the lobby (src/lobby.c) and the table it drives:    *)
(* joining, leaving, the clients' actions, the periodic proceed task, the  *)
(* tasks that start and restart a hand ten seconds later, and the          *)
(* reflection task every accepted action queues.                           *)
(*                                                                         *)
(* Every step is one task of the event loop, which runs them one at a      *)
(* time, so a step is atomic; what interleaves is the order of the tasks.  *)
(* The clients of the session are the members of Accounts, logged in and   *)
(* watching the table.                                                     *)
(***************************************************************************)
EXTENDS Poker

CONSTANTS JoinRequests,    \* the join packets clients may send
          ActionRequests,  \* the poker action packets clients may send
          Leavers,         \* the accounts that may send an unjoin packet
          MaxJoins,        \* bound: joins in a behaviour
          MaxHands,        \* bound: start and restart tasks run
          MaxQueue,        \* bound: tasks queued when a client acts
          MaxCounter       \* bound: accepted actions of a street

ASSUME JoinAssumption ==
    JoinRequests \subseteq [account : Accounts, position : Nat, amount : Chips]
ASSUME ActionAssumption ==
    ActionRequests \subseteq [kind : ActionKinds, amount : Chips]
ASSUME LeaversAssumption == Leavers \subseteq Accounts /\ IsFiniteSet(Accounts)

(* The event loop's queue holds the tasks the server gives itself.  The    *)
(* tasks made of clients' packets are not in it: a packet may have arrived *)
(* at any earlier time, so its task may come before any of these.  A start *)
(* is forgotten when the session does not point to it any more.            *)
DealTasks == {"start", "forgotten", "restart"}
Tasks == {"on_action", "proceed"} \cup DealTasks

VARIABLES
    poker,    \* session->poker
    joined,   \* the clients whose is_joined is set
    queue,    \* tasks of this session in the event loop's queue
    napping,  \* proceed tasks waiting for their second
    timers,   \* start and restart tasks waiting for their ten, oldest first
    joins,    \* joins so far, counted for MaxJoins only
    hands,    \* starts and restarts so far, counted for MaxHands only
    orderly   \* history: the hand in play was dealt on a cleared table

vars == <<poker, joined, queue, napping, timers, joins, hands, orderly>>

(* pkrsrv_lobby_session_new and pkrsrv_lobby_session_start                 *)
Init ==
    /\ poker = NewTable
    /\ joined = {}
    /\ queue = <<"proceed">>
    /\ napping = 0
    /\ timers = << >>
    /\ joins = 0
    /\ hands = 0
    /\ orderly = TRUE

Running == poker.fault = "none"

(* The table becomes p, whose accepted actions queue on_action behind q.   *)
Becomes(p, q) ==
    /\ poker' = [p EXCEPT !.reflections = 0]
    /\ queue' = q \o [i \in 1 .. p.reflections |-> "on_action"]

(* A table with nothing of an earlier hand on it and one player to a seat  *)
(* and to an account.                                                      *)
Cleared(p) ==
    /\ p.pot_amount = 0
    /\ ~p.is_sb_must_call
    /\ \A q \in Listed(p) : p.bet[q] = 0
    /\ \A i, j \in DOMAIN p.players : i # j =>
          /\ p.position[p.players[i]] # p.position[p.players[j]]
          /\ p.account[p.players[i]] # p.account[p.players[j]]

-------------------------------------------------------------------------------
(* session->poker_start_task is overwritten or set to NULL: a start it     *)
(* pointed to stays pending, out of the reach of a cancel.                 *)
Forgotten(s) == [i \in DOMAIN s |-> IF s[i] = "start" THEN "forgotten" ELSE s[i]]

(* on_client_join and pkrsrv_lobby_client_join_session.  The second player *)
(* of a waiting table arms the start task.                                 *)
Join(r, q) ==
    LET seated == PlayersAdd(poker, q, r.account, r.position, r.amount)
        starts == Len(seated.players) = 2 /\ seated.state = W4P
    IN  /\ r.account \notin joined
        /\ joins < MaxJoins
        /\ q \notin Listed(poker)
        /\ joined' = joined \cup {r.account}
        /\ poker' = IF starts THEN [seated EXCEPT !.state = STARTING] ELSE seated
        /\ timers' = IF starts THEN Append(Forgotten(timers), "start") ELSE timers
        /\ queue' = IF starts THEN Forgotten(queue) ELSE queue
        /\ joins' = joins + 1
        /\ UNCHANGED <<napping, hands, orderly>>

(* The table after the players of S left it: outside a hand they are       *)
(* removed, during a hand they stay, marked as left.                       *)
AfterLeaving(p, S) ==
    LET leaving == [p EXCEPT !.left = @ \cup S]
        removed == IF p.state <= STARTING \/ p.state = DONE
                   THEN PlayersRemove(leaving, S) ELSE leaving
    IN  IF Len(removed.players) = 1 /\ removed.state <= STARTING
        THEN [removed EXCEPT !.state = W4P] ELSE removed

(* A mutant of Cancelled: only the restart is cancelled.                   *)
CancelledRestart(s) == Without(s, {"restart"})

(* Unjoining cancels the start and the restart the session points to,      *)
(* asleep or queued, when it leaves exactly one client joined.             *)
Cancelled(s) == Without(s, {"start", "restart"})

(* on_client_unjoin and pkrsrv_lobby_client_unjoin_session                 *)
Unjoin(a) ==
    LET q == GetById(poker, a)
        alone == q # None /\ Cardinality(joined \ {a}) = 1
    IN  /\ a \in joined
        /\ joined' = joined \ {a}
        /\ poker' = IF q = None THEN poker ELSE AfterLeaving(poker, {q})
        /\ timers' = IF alone THEN Cancelled(timers) ELSE timers
        /\ queue' = IF alone THEN Cancelled(queue) ELSE queue
        /\ UNCHANGED <<napping, joins, hands, orderly>>

(* on_client_action: the player object of the account does the action.     *)
ClientAction(a, r, ranking) ==
    /\ Len(queue) < MaxQueue
    /\ poker.synced_action_counter < MaxCounter
    /\ GetById(poker, a) # None
    /\ Becomes(DoAction(poker, GetById(poker, a), r.kind, r.amount, ranking), queue)
    /\ UNCHANGED <<joined, napping, timers, joins, hands, orderly>>

-------------------------------------------------------------------------------
(* The delay threads of the event loop: a task whose time has come is      *)
(* pushed on the queue.                                                    *)
ProceedDue ==
    /\ napping > 0
    /\ napping' = napping - 1
    /\ queue' = Append(queue, "proceed")
    /\ UNCHANGED <<poker, joined, timers, joins, hands, orderly>>

(* A mutant of DealDue: the delay queues its task twice.                   *)
DealDueTwice ==
    /\ timers # << >>
    /\ timers' = Tail(timers)
    /\ queue' = queue \o <<Head(timers), Head(timers)>>
    /\ UNCHANGED <<poker, joined, napping, joins, hands, orderly>>

DealDue ==
    /\ timers # << >>
    /\ timers' = Tail(timers)
    /\ queue' = Append(queue, Head(timers))
    /\ UNCHANGED <<poker, joined, napping, joins, hands, orderly>>

(* The action timeout of the turn passes.                                  *)
Tick ==
    /\ InHand(poker) /\ ~poker.overdue
    /\ poker' = [poker EXCEPT !.overdue = TRUE]
    /\ UNCHANGED <<joined, queue, napping, timers, joins, hands, orderly>>

Pops(t) == queue # << >> /\ Head(queue) = t

(* on_poker_action: after telling the clients, a player who left folds     *)
(* when the turn has come to him.                                          *)
OnPokerAction(ranking) ==
    LET on_turn == GetByPosition(poker, poker.playing_position)
        gone    == on_turn \in poker.left \cap poker.playing
    IN  /\ Pops("on_action")
        /\ Becomes(IF on_turn = None THEN Fails(poker, "null")
                   ELSE IF gone THEN DoAction(poker, on_turn, "FOLD", 0, ranking)
                   ELSE poker,
                   Tail(queue))
        /\ UNCHANGED <<joined, napping, timers, joins, hands, orderly>>

(* A mutant of ProceedTask: it does not come back.                         *)
ProceedTaskOnce(ranking) ==
    /\ Pops("proceed")
    /\ poker.state # DONE
    /\ Becomes(Proceed(poker, ranking), Tail(queue))
    /\ UNCHANGED <<joined, napping, timers, joins, hands, orderly>>

(* pkrsrv_lobby_session_proceed__async while a hand is not over: it runs   *)
(* the table and comes back in a second.                                   *)
ProceedTask(ranking) ==
    /\ Pops("proceed")
    /\ poker.state # DONE
    /\ Becomes(Proceed(poker, ranking), Tail(queue))
    /\ napping' = napping + 1
    /\ UNCHANGED <<joined, timers, joins, hands, orderly>>

(* The same task after a hand: players below the entrance minimum are      *)
(* unjoined, those who left are removed, and the restart is armed instead  *)
(* of the next proceed task.                                               *)
FinishTask ==
    LET broke   == {a \in Accounts : /\ GetById(poker, a) # None
                                     /\ poker.balance[GetById(poker, a)] < EnteranceMin}
        leaving == broke \cap joined
        removed == PlayersRemove(poker, poker.left \cup {GetById(poker, a) : a \in leaving})
        alone   == /\ leaving # {}
                   /\ Cardinality(joined) > 1
                   /\ Cardinality(joined \ leaving) <= 1
    IN  /\ Pops("proceed")
        /\ poker.state = DONE
        /\ joined' = joined \ leaving
        /\ poker' = [removed EXCEPT !.state = IF Len(removed.players) < 2
                                              THEN W4P ELSE STARTING]
        /\ timers' = Append(IF alone THEN Cancelled(timers) ELSE timers, "restart")
        /\ queue' = IF alone THEN Cancelled(Tail(queue)) ELSE Tail(queue)
        /\ UNCHANGED <<napping, joins, hands, orderly>>

(* pkrsrv_lobby_session_poker_start__async                                 *)
StartTask(ranking) ==
    LET started == Start(poker, ranking)
    IN  /\ queue # << >> /\ Head(queue) \in {"start", "forgotten"}
        /\ hands < MaxHands
        /\ hands' = hands + 1
        /\ Becomes(started, Forgotten(Tail(queue)))
        /\ timers' = Forgotten(timers)
        /\ orderly' = IF started = poker THEN orderly ELSE ~InHand(poker) /\ Cleared(poker)
        /\ UNCHANGED <<joined, napping, joins>>

(* pkrsrv_lobby_session_poker_restart__async                               *)
RestartTask(ranking) ==
    /\ Pops("restart")
    /\ hands < MaxHands
    /\ hands' = hands + 1
    /\ Becomes(Start(Reset(poker), ranking), Tail(queue))
    /\ orderly' = (~InHand(poker) /\ Cleared(Reset(poker)))
    /\ napping' = napping + 1
    /\ UNCHANGED <<joined, timers, joins>>

ClientStep ==
    \/ \E r \in JoinRequests, q \in Players : Join(r, q)
    \/ \E a \in Leavers : Unjoin(a)
    \/ \E a \in Accounts, r \in ActionRequests, ranking \in Rankings(poker) :
          ClientAction(a, r, ranking)

Deals == \E ranking \in Rankings(poker) : StartTask(ranking) \/ RestartTask(ranking)

TaskStep ==
    \/ FinishTask
    \/ \E ranking \in Rankings(poker) : OnPokerAction(ranking) \/ ProceedTask(ranking)
    \/ Deals

(* A fault ends the behaviour: what the process does then is unknown.      *)
Next ==
    /\ Running
    /\ ClientStep \/ TaskStep \/ ProceedDue \/ DealDue \/ Tick

(* A task of the queue can run.                                            *)
TaskReady ==
    Running /\ queue # << >> /\ (Head(queue) \in DealTasks => hands < MaxHands)

(* Time passes, and the event loop runs the tasks of its queue; clients    *)
(* need not do anything.  The second line is the weak fairness of the      *)
(* queue's tasks, written out because ENABLED of a whole task is costly.   *)
Spec ==
    /\ Init /\ [][Next]_vars
    /\ []<>~TaskReady \/ []<><<TaskStep>>_vars
    /\ WF_vars(Running /\ ProceedDue)
    /\ WF_vars(Running /\ DealDue)
    /\ WF_vars(Running /\ Tick)

-------------------------------------------------------------------------------
(* Properties                                                              *)

TypeOK ==
    /\ poker \in Table
    /\ joined \subseteq Accounts
    /\ queue \in Seq(Tasks)
    /\ napping \in Nat
    /\ timers \in Seq(DealTasks)
    /\ joins \in Nat
    /\ hands \in Nat
    /\ orderly \in BOOLEAN

(* No player has bet more than the current bet, so what a call costs,      *)
(* current_bet - bet (poker.c:562), never wraps around to a huge amount.   *)
BetsWithinCurrentBet ==
    orderly /\ InHand(poker) =>
        \A q \in Listed(poker) : poker.bet[q] <= poker.current_bet

(* The pot the clients are told is what the players have bet in this hand. *)
PotIsTheBets ==
    orderly /\ InHand(poker) =>
        poker.pot_amount = MapThenSumSet(LAMBDA q : poker.bet[q], Listed(poker))

Count(s, t) == Cardinality({i \in DOMAIN s : s[i] = t})

(* At most one of the proceed task and the restart task is ever pending,   *)
(* so a session is never driven by two chains of timers: a restart does    *)
(* not find a proceed task still running (lobby.c:191 and 287).            *)
OneDriver ==
    napping + Count(queue, "proceed")
            + Count(queue, "restart") + Count(timers, "restart") <= 1

(* The chips of the players at the table and, during a hand, of the pot.   *)
OnTable(p) ==
    MapThenSumSet(LAMBDA q : p.balance[q], Listed(p) \ p.left)
        + (IF InHand(p) THEN p.pot_amount ELSE 0)

(* Playing a hand, to the payout of its pot included, creates no chips     *)
(* (poker.c:504-530, 549-572 and 881-962).                                 *)
ChipsNeverCreated ==
    [][orderly /\ InHand(poker) /\ UNCHANGED poker.players /\ ~Deals =>
           OnTable(poker') <= OnTable(poker)]_vars

(* Whoever has the turn can act: otherwise every action is refused, the    *)
(* timeout's fold too (poker.c:395-423), and the hand never ends.          *)
TurnCanAct ==
    Running /\ orderly /\ InHand(poker) =>
        GetByPosition(poker, poker.playing_position) \in Able(poker)

(* The endless loops over seats (poker.c:116, 132 and 600) find a player,  *)
(* and the showdown reads no unfilled entry (poker.c:909).                 *)
NoHang == poker.fault \notin {"spin", "undefined"}

Pending(t) == Count(queue, t) + Count(timers, t) > 0
DealPending == \E t \in DealTasks : Pending(t)

(* A player at the table whom no client plays: an account that left during *)
(* a hand, came back and left again has two player objects, and both times *)
(* the lookup finds the one that has left already (poker.c:1130).           *)
Unattended == Cardinality(joined) < Cardinality(Listed(poker) \ poker.left)

(* A hand in play has a deal pending over it only if a start and a restart *)
(* were pending together when it was dealt, for somebody sat down at a     *)
(* table waiting for its restart (lobby.c:252 and 1459), or if a player    *)
(* nobody plays kept the table from emptying with its clients, and so the  *)
(* deal from being cancelled with them (lobby.c:1569).                     *)
RedealsOnlyWhenCrossed ==
    [][InHand(poker') /\ DealPending' =>
           \/ InHand(poker) /\ DealPending
           \/ Pending("start") /\ Pending("restart")
           \/ Unattended]_vars

(* When the clients fall silent every hand comes to its end.               *)
HandEnds ==
    <>[][TaskStep \/ ProceedDue \/ DealDue \/ Tick]_vars
        => (InHand(poker) ~> ~InHand(poker))

(* PROTOCOL.md:644, action_timeout: "Action timeout (0 for unlimited)".    *)
(* A turn whose timeout has passed does not stay for ever (poker.c:1004).  *)
TimeoutEndsTurn == poker.overdue ~> (~poker.overdue \/ ~Running)
===============================================================================
