------------------------------- MODULE Deposits -------------------------------
(***************************************************************************)
(* The deposit thread (deposit.c:78): every ten seconds it asks the wallet *)
(* for the chain's height, and for each account with an address for the    *)
(* transactions above the account's own height; it credits what is new.    *)
(* Composed with Accounts: both threads write the same rows.  The chain    *)
(* and the wallet are external.                                            *)
(***************************************************************************)
EXTENDS Accounts, FiniteSetsExt

CONSTANTS Amount,         \* what every transaction pays
          MaxBlocks,      \* bound: blocks of the chain
          InBlockOrder    \* the wallet lists transactions in the chain's order

ASSUME DepositsAssumption == /\ Amount \in Nat \ {0} /\ InBlockOrder \in BOOLEAN
                             /\ MaxBlocks \in Nat \ {0}

VARIABLES tip,        \* number of blocks
          mined,      \* for each transaction, its block and the address it pays
          service,    \* what the deposit thread is doing
          \* Observed only:
          credited,   \* how often each transaction was added to a balance
          wasPending, \* transactions whose record began as pending
          abandoned   \* transactions given up after a failed statement

depositVars == <<tip, mined, service, credited, wasPending, abandoned>>
vars == <<dbVars, accountVars, depositVars>>

Asleep == [pc |-> "sleep"]
NotMined == [height |-> 0, to |-> 0]
IsMined(t) == mined[t] # NotMined

Init ==
  /\ AccountsInit
  /\ tip = 1 /\ mined = [t \in Txs |-> NotMined]
  /\ service = Asleep
  /\ credited = [t \in Txs |-> 0] /\ wasPending = {} /\ abandoned = {}

-----------------------------------------------------------------------------
\* The next block, with some transactions to addresses the wallet has made.
Mine(block) ==
  /\ tip < MaxBlocks
  /\ tip' = tip + 1
  /\ \E to \in [block -> 1 .. addresses] :
       mined' = [t \in Txs |-> IF t \in block THEN [height |-> tip, to |-> to[t]] ELSE mined[t]]
  /\ UNCHANGED <<dbVars, accountVars, service, credited, wasPending, abandoned>>

\* Only the latest block may lack the one confirmation that is asked for.
IsConfirmed(t) == IF mined[t].height = tip - 1 THEN BOOLEAN ELSE {TRUE}

At(pc) == running /\ service.pc = pc
OnlyService == UNCHANGED <<accountVars, tip, mined, credited, wasPending, abandoned>>

\* getheight, which gives 0 when the call fails, and the query of all accounts.
Poll(height) ==
  /\ At("sleep")
  /\ IF height = tip THEN UNCHANGED failures ELSE height = 0 /\ Failing
  /\ service' = [pc |-> "next", height |-> height,
                 todo |-> [a \in {b \in Accounts : rows[b].exists} |-> rows[a]]]
  /\ OnlyService /\ UNCHANGED <<rows, records, open>>

\* get_transfers: transactions of the subaddress above the account's height.
Listed(account) == {t \in Txs : /\ IsMined(t)
                                /\ mined[t].to = account.index
                                /\ mined[t].height > account.height}

Others(a) == [b \in DOMAIN service.todo \ {a} |-> service.todo[b]]

NextAccount(a) ==
  /\ At("next") /\ a \in DOMAIN service.todo
  /\ \/ /\ service' = [pc |-> "txs", height |-> service.height, todo |-> Others(a),
                       account |-> a, mem |-> service.todo[a],
                       txs |-> Listed(service.todo[a])]
        /\ UNCHANGED failures
     \/ /\ Failing
        /\ service' = [pc |-> "next", height |-> service.height, todo |-> Others(a)]
  /\ OnlyService /\ UNCHANGED <<rows, records, open>>

Sleep ==
  /\ At("next") /\ DOMAIN service.todo = {}
  /\ service' = Asleep
  /\ OnlyService /\ UNCHANGED dbVars

-----------------------------------------------------------------------------
NextTx(t) ==
  /\ At("txs") /\ t \in service.txs
  /\ InBlockOrder => \A u \in service.txs : mined[t].height <= mined[u].height

\* The service goes over the transactions of an account, and handles one.
Looking(txs) == [pc |-> "txs", height |-> service.height, todo |-> service.todo,
                 account |-> service.account, mem |-> service.mem, txs |-> txs]
Handling(pc, t, status, mem, txs) ==
  [pc |-> pc, height |-> service.height, todo |-> service.todo, account |-> service.account,
   mem |-> mem, txs |-> txs, tx |-> t, status |-> status]
Stage(pc) == Handling(pc, service.tx, service.status, service.mem, service.txs)

ToOther(t) == mined[t].to # service.mem.address
TooLow(t) == mined[t].height < service.mem.height

SkipTx(t) ==
  /\ NextTx(t)
  /\ \/ ToOther(t)
     \/ TooLow(t)
     \/ records[t] = "confirmed"
     \/ records[t] = "pending" /\ FALSE \in IsConfirmed(t)
  /\ service' = Looking(service.txs \ {t})
  /\ OnlyService /\ UNCHANGED dbVars

\* A transaction of the database begins: with the new status of a record that
\* was pending, and with reading the account again.
BeginTx(t, confirmed) ==
  /\ NextTx(t)
  /\ ~ToOther(t) /\ ~TooLow(t)
  /\ confirmed \in IsConfirmed(t)
  /\ \/ records[t] = "none"
     \/ records[t] = "pending" /\ confirmed
  /\ open' = [open EXCEPT !["service"] =
                [@ EXCEPT !.on = TRUE,
                          !.records = IF records[t] = "none" THEN << >> ELSE Only(t, "confirmed")]]
  /\ service' = Handling("credit", t, IF confirmed THEN "confirmed" ELSE "pending",
                         rows[service.account], service.txs \ {t})
  /\ OnlyService /\ UNCHANGED <<rows, records, failures>>

Current == service.account

Credit ==
  /\ At("credit")
  /\ LET row == RowFor("service", Current)
     IN /\ UpdateRow("service", Current, [row EXCEPT !.balance = service.mem.balance + Amount])
        /\ stale' = IF row.balance # service.mem.balance THEN stale \cup {Current} ELSE stale
  /\ service' = Stage(IF records[service.tx] = "none" THEN "record" ELSE "height")
  /\ UNCHANGED <<records, failures, running, crashes, serial, addresses, lobbyVars, owed, torn,
                 tip, mined, credited, wasPending, abandoned>>

(* A mutant of Record: outside of the transaction.                         *)
RecordOutside ==
  /\ At("record")
  /\ records' = [records EXCEPT ![service.tx] = service.status]
  /\ service' = Stage("height")
  /\ OnlyService /\ UNCHANGED <<rows, open, failures>>

\* pkrsrv_deposit_monero_deposit_create
Record ==
  /\ At("record")
  /\ WriteRecord("service", service.tx, service.status)
  /\ service' = Stage("height")
  /\ OnlyService /\ UNCHANGED <<rows, records, failures>>

(* A mutant of MoveHeight: the transaction's own height.                   *)
MoveHeightPast ==
  /\ At("height")
  /\ UpdateRow("service", Current,
               [RowFor("service", Current) EXCEPT !.height = mined[service.tx].height])
  /\ service' = Stage("commit")
  /\ OnlyService /\ UNCHANGED <<records, failures>>

MoveHeight ==
  /\ At("height")
  /\ UpdateRow("service", Current,
               [RowFor("service", Current) EXCEPT !.height = mined[service.tx].height - 1])
  /\ service' = Stage("commit")
  /\ OnlyService /\ UNCHANGED <<records, failures>>

Commit ==
  /\ At("commit")
  /\ CommitOn("service")
  /\ service' = Looking(service.txs)
  /\ owed' = [owed EXCEPT ![Current] = @ + Amount]
  /\ credited' = [credited EXCEPT ![service.tx] = @ + 1]
  /\ wasPending' = IF records'[service.tx] = "pending" THEN wasPending \cup {service.tx}
                   ELSE wasPending
  /\ UNCHANGED <<failures, running, crashes, serial, addresses, lobbyVars, stale, torn,
                 tip, mined, abandoned>>

\* A statement fails: rolled back, and on to the next transaction.
DepositFails ==
  /\ At("credit") \/ At("record") \/ At("height")
  /\ Failing
  /\ RollbackOn("service")
  /\ service' = Looking(service.txs)
  /\ abandoned' = abandoned \cup {service.tx}
  /\ UNCHANGED <<accountVars, tip, mined, credited, wasPending>>

(* A mutant of FinishAccount: one block too high.                          *)
FinishAccountPast ==
  /\ At("txs") /\ service.txs = {}
  /\ \/ /\ service.height > 0 /\ service.mem.height < service.height - 1
        /\ UpdateRow("service", Current, [rows[Current] EXCEPT !.height = service.height])
        /\ UNCHANGED failures
     \/ /\ service.height > 0 => service.mem.height >= service.height - 1
        /\ UNCHANGED <<rows, open, failures>>
     \/ /\ Failing
        /\ UNCHANGED <<rows, open>>
  /\ service' = [pc |-> "next", height |-> service.height, todo |-> service.todo]
  /\ OnlyService /\ UNCHANGED records

\* The account's height moves up to the chain's, compared with the copy in
\* memory; height - 1 of a failed call wraps, and the column refuses it.
FinishAccount ==
  /\ At("txs") /\ service.txs = {}
  /\ \/ /\ service.height > 0 /\ service.mem.height < service.height - 1
        /\ UpdateRow("service", Current, [rows[Current] EXCEPT !.height = service.height - 1])
        /\ UNCHANGED failures
     \/ /\ service.height > 0 => service.mem.height >= service.height - 1
        /\ UNCHANGED <<rows, open, failures>>
     \/ /\ Failing
        /\ UNCHANGED <<rows, open>>
  /\ service' = [pc |-> "next", height |-> service.height, todo |-> service.todo]
  /\ OnlyService /\ UNCHANGED records

-----------------------------------------------------------------------------
ServiceStep ==
  \/ Poll(tip) \/ Poll(0) \/ Sleep
  \/ \E a \in Accounts : NextAccount(a)
  \/ \E t \in Txs : SkipTx(t) \/ \E confirmed \in BOOLEAN : BeginTx(t, confirmed)
  \/ Credit \/ Record \/ MoveHeight \/ Commit \/ DepositFails \/ FinishAccount

LobbyStep == LobbyNext /\ UNCHANGED depositVars

\* Both threads die, and both begin again after the reversion.
Crash == LobbyDies /\ service' = Asleep
         /\ UNCHANGED <<tip, mined, credited, wasPending, abandoned>>
Restart == RevertLocked /\ UNCHANGED depositVars

Next ==
  \/ LobbyStep \/ ServiceStep \/ Crash \/ Restart
  \/ \E block \in SUBSET {t \in Txs : ~IsMined(t)} : Mine(block)

Spec == Init /\ [][Next]_vars
FairSpec ==
  /\ Spec
  /\ WF_vars(ServiceStep) /\ WF_vars(Restart)
  /\ WF_vars(LobbyStep /\ ~AtRest)

-----------------------------------------------------------------------------
TypeOK ==
  /\ DatabaseTypeOK
  /\ running \in BOOLEAN /\ inHand \in BOOLEAN /\ joined \subseteq Accounts
  /\ \A i \in Places : players[i].account \in Accounts /\ players[i].chips \in Nat
  /\ owed \in [Accounts -> Int]
  /\ stale \subseteq Accounts /\ torn \subseteq Accounts
  /\ tip \in 1 .. MaxBlocks
  /\ credited \in [Txs -> 0 .. 2]
  /\ wasPending \subseteq Txs /\ abandoned \subseteq Txs

BroughtBy(a) == LET of == {i \in Places : players[i].account = a /\ ~players[i].left}
                IN MapThenSumSet(LAMBDA i : players[i].entrance, of)

\* What is locked in the row of an account is what its players at the table
\* brought, whenever the event loop is between two tasks: no join or unjoin
\* locks twice, forgets to unlock, or unlocks what another join locked, before
\* and after a crash.  Only a transfer that failed half way is excepted.
LockedIsAtTables ==
  running /\ AtRest => \A a \in Accounts \ torn : rows[a].locked = BroughtBy(a)

\* The money of an account, free and locked, is its gift, its deposits and what
\* it won and lost, through joins, unjoins, deposits and crashes in any order.
\* What may break it is named: an update from an outdated read (account.c:258
\* locks the row after the balance was read) and a transfer that failed.
OwedIsOwned ==
  AtRest => \A a \in Accounts \ (stale \cup torn) : rows[a].balance + rows[a].locked = owed[a]

\* The record of a transaction and the number of times it was credited always
\* agree, across failed statements and crashes: never without a record, once
\* with one, and twice exactly when it was pending first (deposit.c:140-184
\* adds the amount again on confirmation).
CreditedAsRecorded ==
  \A t \in Txs : /\ records[t] = "none" => credited[t] = 0
                 /\ records[t] = "pending" => credited[t] = 1
                 /\ records[t] = "confirmed" =>
                      credited[t] = IF t \in wasPending THEN 2 ELSE 1

\* The height of an account, below which transactions are never listed again,
\* passes no transaction that is not recorded, but those the service gave up
\* after a failed statement: not by a block mined during the poll, by a failed
\* height call, nor by a crash between the transactions of an account.
NoDepositPassedOver ==
  \A a \in Accounts, t \in Txs :
    /\ rows[a].exists /\ IsMined(t)
    /\ mined[t].to = rows[a].address /\ rows[a].index = rows[a].address
    /\ rows[a].height >= mined[t].height
    => records[t] # "none" \/ t \in abandoned

\* A transaction to an account that signed up in order is recorded and credited
\* in the end, or given up, in spite of crashes and failed calls.
DepositsArrive ==
  \A a \in Accounts, t \in Txs :
    (/\ rows[a].exists /\ IsMined(t)
     /\ mined[t].to = rows[a].address /\ rows[a].index = rows[a].address)
      ~> (records[t] # "none" \/ t \in abandoned)

\* The assertion of lobby.c:1516: taking the entrance out of the locked balance
\* never fails for want of locked money, while no statement failed.
EntranceIsLocked ==
  Doing("unlock") /\ task.account \notin torn => task.locked >= Leaver.entrance
=============================================================================
