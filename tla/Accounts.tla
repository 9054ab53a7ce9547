------------------------------- MODULE Accounts -------------------------------
(***************************************************************************)
(* Money between an account and a table, as the event loop moves it:       *)
(* signing up (account.c:74), joining (lobby.c:773, 1452) and unjoining    *)
(* (lobby.c:1509-1525), statement by statement, with a table that is       *)
(* reduced to who brought how much and what he has now; failing            *)
(* statements, and a crash of the process with the start-up's reversion of *)
(* locked balances (pkrsrv.c:100).                                         *)
(***************************************************************************)
EXTENDS Database, Lists

CONSTANTS InitialBalance,   \* the gift of a new account
          Stakes,           \* the amounts clients join with
          MaxJoins,         \* bound: joins in a behaviour
          MaxCrashes,       \* bound: crashes of the process
          MaxHands,         \* bound: hands dealt
          ReturnsInHand     \* an account that left may join before the hand ends

ASSUME AmountsAssumption == /\ InitialBalance \in Nat
                            /\ Stakes \subseteq Nat \ {0}
                            /\ ReturnsInHand \in BOOLEAN

VARIABLES running,   \* the process is up
          players,   \* the player objects of the table, in joining order
          joined,    \* accounts whose client's session is marked as joined
          inHand,    \* a hand is being played
          task,      \* what the event loop is doing with an account
          joins, crashes, hands,
          serial,    \* the next xmr_deposit_address_index
          addresses, \* how many addresses the wallet has made
          \* Observed only:
          owed,      \* what each account should own: gift, deposits and results
          stale,     \* accounts whose balance was written from an outdated read
          torn       \* accounts one of whose transfers was interrupted or failed

lobbyVars == <<players, joined, inHand, task, joins, hands>>
ghosts == <<owed, stale, torn>>
accountVars == <<running, crashes, serial, addresses, lobbyVars, ghosts>>

Idle == [op |-> "none"]
AtRest == task = Idle

Player(a, amount) == [account |-> a, entrance |-> amount, chips |-> amount, left |-> FALSE]
Places == DOMAIN players
\* pkrsrv_poker_players_getby_id: the first one in the list.
PlaceOf(a) == IF \E i \in Places : players[i].account = a
                THEN CHOOSE i \in Places : /\ players[i].account = a
                                           /\ \A j \in 1 .. i - 1 : players[j].account # a
                ELSE 0
Leaving(list) == Without(list, {p \in Members(list) : p.left})

AccountsInit ==
  /\ DatabaseInit
  /\ running = TRUE
  /\ players = << >> /\ joined = {} /\ inHand = FALSE /\ task = Idle
  /\ joins = 0 /\ crashes = 0 /\ hands = 0
  /\ serial = 1 /\ addresses = 0
  /\ owed = [a \in Accounts |-> 0] /\ stale = {} /\ torn = {}

Doing(op) == running /\ task.op = op

-----------------------------------------------------------------------------
\* pkrsrv_account_create: one transaction with a call of the wallet inside.
\* The serial number is used up even when the transaction is rolled back, and
\* the address is made even when the update after it fails.
SignUp(a) ==
  /\ Doing("none")
  /\ ~rows[a].exists
  /\ rows' = [rows EXCEPT ![a] = [NoRow EXCEPT !.exists = TRUE, !.balance = InitialBalance,
                                               !.index = serial, !.address = addresses + 1]]
  /\ serial' = serial + 1 /\ addresses' = addresses + 1
  /\ owed' = [owed EXCEPT ![a] = InitialBalance]
  /\ UNCHANGED <<records, open, failures, running, crashes, lobbyVars, stale, torn>>

SignUpFails(a) ==
  /\ Doing("none")
  /\ ~rows[a].exists
  /\ Failing
  /\ serial' = serial + 1
  /\ addresses' \in {addresses, addresses + 1}
  /\ UNCHANGED <<rows, records, open, running, crashes, lobbyVars, ghosts>>

-----------------------------------------------------------------------------
\* pkrsrv_account_fetch, and what on_client_join and join_session test.
FetchToJoin(a, amount) ==
  /\ Doing("none")
  /\ joins < MaxJoins /\ joins' = joins + 1
  /\ rows[a].exists /\ rows[a].balance >= amount
  /\ a \notin joined
  /\ ReturnsInHand \/ PlaceOf(a) = 0
  /\ joined' = joined \cup {a}
  /\ task' = [op |-> "lock", account |-> a, amount |-> amount,
              balance |-> rows[a].balance, locked |-> rows[a].locked]
  /\ UNCHANGED <<dbVars, running, crashes, serial, addresses, players, inHand, hands, ghosts>>

\* pkrsrv_account_lock_balance, its first update.
LockBalance ==
  /\ Doing("lock")
  /\ LET row == RowFor("lobby", task.account)
     IN /\ UpdateRow("lobby", task.account, [row EXCEPT !.balance = task.balance - task.amount])
        /\ stale' = IF row.balance # task.balance THEN stale \cup {task.account} ELSE stale
  /\ task' = [task EXCEPT !.op = "lock2"]
  /\ UNCHANGED <<records, failures, running, crashes, serial, addresses,
                 players, joined, inHand, joins, hands, owed, torn>>

\* Whatever the result, the player sits down with what he asked for.
SitDown(a, amount) == players' = Append(players, Player(a, amount))

LockLocked ==
  /\ Doing("lock2")
  /\ LET row == RowFor("lobby", task.account)
     IN UpdateRow("lobby", task.account, [row EXCEPT !.locked = task.locked + task.amount])
  /\ SitDown(task.account, task.amount)
  /\ task' = Idle
  /\ UNCHANGED <<records, failures, running, crashes, serial, addresses,
                 joined, inHand, joins, hands, ghosts>>

\* Either update fails; pkrsrv_account_lock_balance still returns true.
LockFails ==
  /\ Doing("lock") \/ Doing("lock2")
  /\ Failing
  /\ SitDown(task.account, task.amount)
  /\ torn' = torn \cup {task.account}
  /\ task' = Idle
  /\ UNCHANGED <<rows, records, open, running, crashes, serial, addresses, joined, inHand, joins,
                 hands, owed, stale>>

-----------------------------------------------------------------------------
\* pkrsrv_lobby_client_unjoin_session up to its fetch; without a player, it
\* only marks the client as not joined.
FetchToUnjoin(a) ==
  /\ Doing("none")
  /\ a \in joined
  /\ joined' = joined \ {a}
  /\ IF PlaceOf(a) = 0
       THEN UNCHANGED <<players, task>>
       ELSE /\ players' = [players EXCEPT ![PlaceOf(a)].left = TRUE]
            /\ task' = [op |-> "unlock", account |-> a, place |-> PlaceOf(a),
                        balance |-> rows[a].balance, locked |-> rows[a].locked]
  /\ UNCHANGED <<dbVars, running, crashes, serial, addresses, inHand, joins, hands, ghosts>>

Leaver == players[task.place]

\* Between hands the player is removed, in a hand he stays as one who left.
StandUp ==
  players' = IF inHand THEN players
             ELSE [i \in 1 .. Len(players) - 1 |->
                     IF i < task.place THEN players[i] ELSE players[i + 1]]

(* A mutant of RemoveLocked: what he has now instead of what he brought.   *)
RemoveLockedChips ==
  /\ Doing("unlock")
  /\ task.locked >= Leaver.chips
  /\ Unlocked("lobby", task.account)
  /\ open' = [open EXCEPT !["lobby"] =
                [@ EXCEPT !.on = TRUE,
                          !.rows = Only(task.account,
                            [rows[task.account] EXCEPT !.locked = task.locked - Leaver.chips])]]
  /\ task' = [task EXCEPT !.op = "pay"]
  /\ UNCHANGED <<rows, records, failures, running, crashes, serial, addresses,
                 players, joined, inHand, joins, hands, ghosts>>

\* Begin, and pkrsrv_account_remove_locked_balance.
RemoveLocked ==
  /\ Doing("unlock")
  /\ task.locked >= Leaver.entrance
  /\ Unlocked("lobby", task.account)
  /\ open' = [open EXCEPT !["lobby"] =
                [@ EXCEPT !.on = TRUE,
                          !.rows = Only(task.account,
                            [rows[task.account] EXCEPT !.locked = task.locked - Leaver.entrance])]]
  /\ task' = [task EXCEPT !.op = "pay"]
  /\ UNCHANGED <<rows, records, failures, running, crashes, serial, addresses,
                 players, joined, inHand, joins, hands, ghosts>>

\* Less is locked than he brought: the result is false, rolled back, nothing is
\* paid, and the player goes all the same.
NothingLocked ==
  /\ Doing("unlock")
  /\ task.locked < Leaver.entrance
  /\ StandUp
  /\ torn' = torn \cup {task.account}
  /\ task' = Idle
  /\ UNCHANGED <<dbVars, running, crashes, serial, addresses, joined, inHand, joins, hands, owed, stale>>

\* pkrsrv_account_add_balance
AddBalance ==
  /\ Doing("pay")
  /\ LET row == RowFor("lobby", task.account)
     IN /\ UpdateRow("lobby", task.account, [row EXCEPT !.balance = task.balance + Leaver.chips])
        /\ stale' = IF row.balance # task.balance THEN stale \cup {task.account} ELSE stale
  /\ task' = [task EXCEPT !.op = "commit"]
  /\ UNCHANGED <<records, failures, running, crashes, serial, addresses,
                 players, joined, inHand, joins, hands, owed, torn>>

\* Either update fails: both functions return true nevertheless, and the commit
\* of the aborted transaction writes nothing.
UnlockFails ==
  /\ Doing("unlock") \/ Doing("pay")
  /\ Failing
  /\ RollbackOn("lobby")
  /\ StandUp
  /\ torn' = torn \cup {task.account}
  /\ task' = Idle
  /\ UNCHANGED <<running, crashes, serial, addresses, joined, inHand, joins, hands, owed, stale>>

CommitUnjoin ==
  /\ Doing("commit")
  /\ CommitOn("lobby")
  /\ owed' = [owed EXCEPT ![task.account] = @ + Leaver.chips - Leaver.entrance]
  /\ StandUp
  /\ task' = Idle
  /\ UNCHANGED <<failures, running, crashes, serial, addresses, joined, inHand, joins, hands,
                 stale, torn>>

-----------------------------------------------------------------------------
\* The table: a hand begins, chips move from one player to another, it ends and
\* those who left are removed (poker.c; in detail in Poker and Session).
BeginHand ==
  /\ Doing("none") /\ ~inHand /\ Len(players) >= 2
  /\ hands < MaxHands /\ hands' = hands + 1
  /\ inHand' = TRUE
  /\ UNCHANGED <<dbVars, running, crashes, serial, addresses, players, joined, task, joins, ghosts>>

MoveChips(i, j, amount) ==
  /\ Doing("none") /\ inHand
  /\ i # j /\ players[i].chips >= amount
  /\ players' = [players EXCEPT ![i].chips = @ - amount, ![j].chips = @ + amount]
  /\ UNCHANGED <<dbVars, running, crashes, serial, addresses, joined, inHand, task, joins, hands, ghosts>>

EndHand ==
  /\ Doing("none") /\ inHand
  /\ inHand' = FALSE
  /\ players' = Leaving(players)
  /\ UNCHANGED <<dbVars, running, crashes, serial, addresses, joined, task, joins, hands, ghosts>>

-----------------------------------------------------------------------------
\* The process dies: what is in memory and what is not committed is gone.
LobbyDies ==
  /\ running /\ crashes < MaxCrashes
  /\ running' = FALSE /\ crashes' = crashes + 1
  /\ open' = [c \in Connections |-> NoTransaction]
  /\ players' = << >> /\ joined' = {} /\ inHand' = FALSE /\ task' = Idle
  /\ torn' = IF task.op = "lock2" THEN torn \cup {task.account} ELSE torn
  /\ UNCHANGED <<rows, records, failures, serial, addresses, joins, hands, owed, stale>>

(* A mutant of RevertLocked: paid back and still locked.                   *)
RevertLockedKeeps ==
  /\ ~running
  /\ rows' = [a \in Accounts |-> IF rows[a].locked > 0
                THEN [rows[a] EXCEPT !.balance = @ + rows[a].locked]
                ELSE rows[a]]
  /\ running' = TRUE
  /\ UNCHANGED <<records, open, failures, crashes, serial, addresses, lobbyVars, ghosts>>

\* pkrsrv_account_revert_locked_balanes, before anything else runs.
RevertLocked ==
  /\ ~running
  /\ rows' = [a \in Accounts |-> IF rows[a].locked > 0
                THEN [rows[a] EXCEPT !.balance = @ + rows[a].locked, !.locked = 0]
                ELSE rows[a]]
  /\ running' = TRUE
  /\ UNCHANGED <<records, open, failures, crashes, serial, addresses, lobbyVars, ghosts>>

LobbyNext ==
  \/ \E a \in Accounts : \/ SignUp(a) \/ SignUpFails(a) \/ FetchToUnjoin(a)
                         \/ \E n \in Stakes : FetchToJoin(a, n)
  \/ LockBalance \/ LockLocked \/ LockFails
  \/ RemoveLocked \/ NothingLocked \/ AddBalance \/ UnlockFails \/ CommitUnjoin
  \/ BeginHand \/ EndHand
  \/ \E i, j \in Places, n \in Stakes : MoveChips(i, j, n)
=============================================================================
