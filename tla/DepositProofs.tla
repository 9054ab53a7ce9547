----------------------------- MODULE DepositProofs -----------------------------
(***************************************************************************)
(* The money of the accounts, for every number of accounts, transactions,  *)
(* blocks, crashes and failing statements.  Each layer is an invariant of  *)
(* its own, which the next one uses:                                       *)
(*   CreditInv  what the deposit thread's open transaction holds: a record *)
(*              and its credit come together;                              *)
(*   TypeInv    what the variables hold at each place of both threads;     *)
(*   MoneyInv   how a row that a transaction wrote differs from the        *)
(*              committed one: no money is made or lost;                   *)
(*   HeightInv  what is handled below the height that is about to be       *)
(*              written: no deposit is passed over;                        *)
(*   SeatInv    who sits at the table with what: it is what is locked.     *)
(***************************************************************************)
EXTENDS Deposits, CommonProofs

Written == open["service"].records
Stored == {"pending", "confirmed"}

\* The record of the transaction in hand, before and after its commit.
Moves(from, to) == \/ from = "none" /\ to \in Stored
                   \/ from = "pending" /\ to = "confirmed"

Holds(status) == DOMAIN Written = {service.tx} /\ Written[service.tx] = status
HoldsNothing == DOMAIN Written = {}

RecordsTyped == records \in [Txs -> Statuses] /\ credited \in [Txs -> Nat]

BegunAsPending == \A t \in Txs : /\ records[t] = "pending" => t \in wasPending
                                 /\ records[t] = "none" => t \notin wasPending

OpenTyped == /\ DOMAIN open = Connections
             /\ \A c \in Connections : DOMAIN open[c] = {"on", "rows", "records"}
             /\ DOMAIN open["lobby"].records = {}

ServiceHolds ==
  \/ service.pc \in {"sleep", "next", "txs"} /\ HoldsNothing
  \/ /\ service.pc = "credit" /\ service.tx \in Txs
     /\ \/ records[service.tx] = "none" /\ HoldsNothing /\ service.status \in Stored
        \/ records[service.tx] = "pending" /\ Holds("confirmed")
  \/ /\ service.pc = "record" /\ service.tx \in Txs
     /\ records[service.tx] = "none" /\ HoldsNothing /\ service.status \in Stored
  \/ /\ service.pc \in {"height", "commit"} /\ service.tx \in Txs
     /\ \E to \in Stored : Holds(to) /\ Moves(records[service.tx], to)

CreditInv == /\ RecordsTyped
             /\ CreditedAsRecorded
             /\ BegunAsPending
             /\ OpenTyped
             /\ ServiceHolds

-----------------------------------------------------------------------------
LEMMA NoTransactionIsEmpty ==
  /\ DOMAIN NoTransaction = {"on", "rows", "records"}
  /\ DOMAIN NoTransaction.records = {}
BY DEF NoTransaction

LEMMA InitCredit == Init => CreditInv
<1> SUFFICES ASSUME Init PROVE CreditInv
  OBVIOUS
<1> USE DEF Init, AccountsInit, DatabaseInit
<1>1. RecordsTyped /\ CreditedAsRecorded /\ BegunAsPending
  BY DEF RecordsTyped, CreditedAsRecorded, BegunAsPending, Statuses
<1>2. OpenTyped /\ HoldsNothing
  BY NoTransactionIsEmpty DEF OpenTyped, HoldsNothing, Written, Connections
<1>3. ServiceHolds
  BY <1>2 DEF ServiceHolds, Asleep
<1>4. QED
  BY <1>1, <1>2, <1>3 DEF CreditInv

-----------------------------------------------------------------------------
\* What a step that is not about records leaves alone.
OpenKept == /\ DOMAIN open' = Connections
            /\ \A c \in Connections : DOMAIN open'[c] = {"on", "rows", "records"}
            /\ DOMAIN open'["lobby"].records = {}
            /\ open'["service"].records = open["service"].records

LEMMA Frame ==
  ASSUME CreditInv, OpenKept, UNCHANGED <<records, credited, wasPending, service>>
  PROVE  CreditInv'
BY DEF CreditInv, RecordsTyped, CreditedAsRecorded, BegunAsPending, OpenTyped, ServiceHolds,
       Holds, HoldsNothing, Written, OpenKept, Connections

LEMMA UnchangedKeeps ==
  ASSUME OpenTyped, UNCHANGED open PROVE OpenKept
BY DEF OpenTyped, OpenKept

LEMMA UpdateRowKeeps ==
  ASSUME OpenTyped, NEW c \in Connections, NEW a, NEW row, UpdateRow(c, a, row)
  PROVE  OpenKept
BY DEF OpenTyped, OpenKept, UpdateRow, Connections

LEMMA RollbackKeeps ==
  ASSUME OpenTyped, RollbackOn("lobby") PROVE OpenKept /\ UNCHANGED records
BY NoTransactionIsEmpty DEF OpenTyped, OpenKept, RollbackOn, Connections

LEMMA CommitKeeps ==
  ASSUME OpenTyped, RecordsTyped, CommitOn("lobby") PROVE OpenKept /\ UNCHANGED records
<1>1. OpenKept
  BY NoTransactionIsEmpty DEF OpenTyped, OpenKept, CommitOn, Connections
<1>2. records' = Over(open["lobby"].records, records) /\ DOMAIN open["lobby"].records = {}
  BY DEF CommitOn, OpenTyped
<1>3. records' = [t \in Txs |-> records[t]]
  BY <1>2 DEF RecordsTyped, Over
<1>4. QED
  BY <1>1, <1>3 DEF RecordsTyped

LEMMA RemoveLockedKeeps ==
  ASSUME OpenTyped, RemoveLocked PROVE OpenKept
BY DEF OpenTyped, OpenKept, RemoveLocked, Connections

-----------------------------------------------------------------------------
LEMMA LobbyKeeps ==
  ASSUME CreditInv, LobbyStep PROVE CreditInv'
<1> USE DEF LobbyStep, depositVars
<1>o. OpenTyped /\ RecordsTyped
  BY DEF CreditInv
<1>c. "lobby" \in Connections
  BY DEF Connections
<1>f. ASSUME OpenKept, UNCHANGED records PROVE CreditInv'
  BY <1>f, Frame
<1>1. CASE \E a \in Accounts : SignUp(a) \/ SignUpFails(a) \/ FetchToUnjoin(a)
                               \/ \E n \in Stakes : FetchToJoin(a, n)
  <2>1. UNCHANGED <<open, records>>
    BY <1>1 DEF SignUp, SignUpFails, FetchToUnjoin, FetchToJoin, dbVars
  <2>2. QED
    BY <2>1, <1>o, <1>f, UnchangedKeeps
<1>2. CASE LockBalance \/ LockLocked \/ AddBalance
  <2>1. UNCHANGED records
    BY <1>2 DEF LockBalance, LockLocked, AddBalance
  <2>2. PICK row : UpdateRow("lobby", task.account, row)
    BY <1>2 DEF LockBalance, LockLocked, AddBalance
  <2>3. OpenKept
    BY <2>2, <1>o, <1>c, UpdateRowKeeps
  <2>4. QED
    BY <2>1, <2>3, <1>f
<1>3. CASE LockFails \/ NothingLocked \/ BeginHand \/ EndHand
           \/ \E i, j \in Places, n \in Stakes : MoveChips(i, j, n)
  <2>1. UNCHANGED <<open, records>>
    BY <1>3 DEF LockFails, NothingLocked, BeginHand, EndHand, MoveChips, dbVars
  <2>2. QED
    BY <2>1, <1>o, <1>f, UnchangedKeeps
<1>4. CASE RemoveLocked
  <2>1. UNCHANGED records
    BY <1>4 DEF RemoveLocked
  <2>2. QED
    BY <2>1, <1>4, <1>o, <1>f, RemoveLockedKeeps
<1>5. CASE UnlockFails
  BY <1>5, <1>o, <1>f, RollbackKeeps DEF UnlockFails
<1>6. CASE CommitUnjoin
  BY <1>6, <1>o, <1>f, CommitKeeps DEF CommitUnjoin
<1>7. QED
  BY <1>1, <1>2, <1>3, <1>4, <1>5, <1>6 DEF LobbyNext

-----------------------------------------------------------------------------
\* While the deposit thread works on no transaction, its steps are frames too.
Idling == service.pc \in {"sleep", "next", "txs"} /\ HoldsNothing

LEMMA PlacesOfStages ==
  ASSUME NEW pc, NEW t, NEW status, NEW mem, NEW txs
  PROVE  /\ Handling(pc, t, status, mem, txs).pc = pc
         /\ Handling(pc, t, status, mem, txs).tx = t
         /\ Handling(pc, t, status, mem, txs).status = status
         /\ Looking(txs).pc = "txs"
BY DEF Handling, Looking

LEMMA IdleKeeps ==
  ASSUME CreditInv, OpenKept, UNCHANGED <<records, credited, wasPending>>,
         HoldsNothing, service'.pc \in {"sleep", "next", "txs"}
  PROVE  CreditInv'
<1>1. (RecordsTyped /\ CreditedAsRecorded /\ BegunAsPending)'
  BY DEF CreditInv, RecordsTyped, CreditedAsRecorded, BegunAsPending
<1>2. OpenTyped' /\ HoldsNothing'
  BY DEF CreditInv, OpenTyped, OpenKept, HoldsNothing, Written, Connections
<1>3. QED
  BY <1>1, <1>2 DEF CreditInv, ServiceHolds

LEMMA ServiceIdleKeeps ==
  ASSUME CreditInv,
         \/ Poll(tip) \/ Poll(0) \/ Sleep \/ FinishAccount
         \/ \E a \in Accounts : NextAccount(a)
         \/ \E t \in Txs : SkipTx(t)
  PROVE  CreditInv'
<1>o. OpenTyped /\ ServiceHolds
  BY DEF CreditInv
<1>1. service.pc \in {"sleep", "next", "txs"}
  BY DEF Poll, Sleep, FinishAccount, NextAccount, SkipTx, NextTx, At
<1>2. HoldsNothing
  BY <1>o, <1>1 DEF ServiceHolds
<1>3. service'.pc \in {"sleep", "next", "txs"}
  <2>1. CASE Poll(tip) \/ Poll(0)
    BY <2>1 DEF Poll
  <2>2. CASE Sleep \/ FinishAccount
    BY <2>2 DEF Sleep, FinishAccount, Asleep
  <2>3. CASE \E a \in Accounts : NextAccount(a)
    BY <2>3 DEF NextAccount
  <2>4. CASE \E t \in Txs : SkipTx(t)
    BY <2>4, PlacesOfStages DEF SkipTx
  <2>5. QED
    BY <2>1, <2>2, <2>3, <2>4
<1>4. UNCHANGED <<records, credited, wasPending>>
  BY DEF Poll, Sleep, FinishAccount, NextAccount, SkipTx, OnlyService, dbVars
<1>5. CASE UNCHANGED open
  BY <1>2, <1>3, <1>4, <1>5, <1>o, UnchangedKeeps, IdleKeeps
<1>6. CASE \E row : UpdateRow("service", Current, row)
  <2>1. "service" \in Connections
    BY DEF Connections
  <2>2. OpenKept
    BY <1>6, <1>o, <2>1, UpdateRowKeeps
  <2>3. QED
    BY <2>2, <1>2, <1>3, <1>4, IdleKeeps
<1>7. UNCHANGED open \/ \E row : UpdateRow("service", Current, row)
  BY DEF Poll, Sleep, FinishAccount, NextAccount, SkipTx, dbVars
<1>8. QED
  BY <1>5, <1>6, <1>7

LEMMA BeginTxKeeps ==
  ASSUME CreditInv, NEW t \in Txs, NEW confirmed \in BOOLEAN, BeginTx(t, confirmed)
  PROVE  CreditInv'
<1>1. (RecordsTyped /\ CreditedAsRecorded /\ BegunAsPending)'
  BY DEF CreditInv, RecordsTyped, CreditedAsRecorded, BegunAsPending, BeginTx, OnlyService
<1>2. OpenTyped'
  BY DEF CreditInv, OpenTyped, BeginTx, Connections
<1>3. /\ service'.pc = "credit" /\ service'.tx = t
      /\ service'.status \in Stored
      /\ UNCHANGED records
  BY PlacesOfStages DEF BeginTx, Stored
<1>4. open'["service"].records = IF records[t] = "none" THEN << >> ELSE Only(t, "confirmed")
  BY DEF CreditInv, OpenTyped, BeginTx, Connections
<1>5. records[t] = "none" \/ records[t] = "pending"
  BY DEF BeginTx
<1>6. CASE records[t] = "none"
  <2>1. DOMAIN open'["service"].records = {}
    BY <1>4, <1>6
  <2>2. ServiceHolds'
    BY <1>3, <1>6, <2>1 DEF ServiceHolds, HoldsNothing, Written
  <2>3. QED
    BY <1>1, <1>2, <2>2 DEF CreditInv
<1>7. CASE records[t] = "pending"
  <2>1. open'["service"].records = [y \in {t} |-> "confirmed"]
    BY <1>4, <1>7 DEF Only
  <2>2. Holds("confirmed")'
    BY <1>3, <2>1 DEF Holds, Written
  <2>3. ServiceHolds'
    BY <1>3, <1>7, <2>2 DEF ServiceHolds
  <2>4. QED
    BY <1>1, <1>2, <2>3 DEF CreditInv
<1>8. QED
  BY <1>5, <1>6, <1>7

LEMMA CreditKeeps ==
  ASSUME CreditInv, Credit PROVE CreditInv'
<1>1. OpenTyped /\ ServiceHolds /\ service.pc = "credit" /\ "service" \in Connections
  BY DEF CreditInv, Credit, At, Connections
<1>2. PICK row : UpdateRow("service", Current, row)
  BY DEF Credit
<1>3. OpenKept
  BY <1>1, <1>2, UpdateRowKeeps
<1>4. UNCHANGED <<records, credited, wasPending>>
  BY DEF Credit
<1>5. /\ service'.pc = IF records[service.tx] = "none" THEN "record" ELSE "height"
      /\ service'.tx = service.tx /\ service'.status = service.status
  BY PlacesOfStages DEF Credit, Stage
<1>6. (RecordsTyped /\ CreditedAsRecorded /\ BegunAsPending)'
  BY <1>4 DEF CreditInv, RecordsTyped, CreditedAsRecorded, BegunAsPending
<1>7. OpenTyped' /\ Written' = Written
  BY <1>3 DEF OpenTyped, OpenKept, Written
<1>8. ServiceHolds'
  BY <1>1, <1>4, <1>5, <1>7 DEF ServiceHolds, Holds, HoldsNothing, Stored, Moves
<1>9. QED
  BY <1>6, <1>7, <1>8 DEF CreditInv

LEMMA RecordKeeps ==
  ASSUME CreditInv, Record PROVE CreditInv'
<1>1. /\ OpenTyped /\ service.pc = "record" /\ service.tx \in Txs
      /\ records[service.tx] = "none" /\ HoldsNothing /\ service.status \in Stored
  BY DEF CreditInv, Record, At, ServiceHolds
<1>2. UNCHANGED <<records, credited, wasPending>>
  BY DEF Record, OnlyService
<1>3. service'.pc = "height" /\ service'.tx = service.tx
  BY PlacesOfStages DEF Record, Stage
<1>4. (RecordsTyped /\ CreditedAsRecorded /\ BegunAsPending)'
  BY <1>2 DEF CreditInv, RecordsTyped, CreditedAsRecorded, BegunAsPending
<1>5. OpenTyped' /\ Written' = Over(Only(service.tx, service.status), Written)
  BY <1>1 DEF OpenTyped, Record, WriteRecord, Connections, Written
<1>6. DOMAIN Written' = {service'.tx} /\ Written'[service'.tx] = service.status
  BY <1>1, <1>3, <1>5 DEF HoldsNothing, Over, Only
<1>7. records'[service'.tx] = "none"
  BY <1>1, <1>2, <1>3
<1>8. ServiceHolds'
  BY <1>1, <1>3, <1>6, <1>7 DEF ServiceHolds, Holds, Moves
<1>9. QED
  BY <1>4, <1>5, <1>8 DEF CreditInv

LEMMA MoveHeightKeeps ==
  ASSUME CreditInv, MoveHeight PROVE CreditInv'
<1>1. OpenTyped /\ ServiceHolds /\ service.pc = "height" /\ "service" \in Connections
  BY DEF CreditInv, MoveHeight, At, Connections
<1>2. PICK row : UpdateRow("service", Current, row)
  BY DEF MoveHeight
<1>3. OpenKept
  BY <1>1, <1>2, UpdateRowKeeps
<1>4. UNCHANGED <<records, credited, wasPending>>
  BY DEF MoveHeight, OnlyService
<1>5. service'.pc = "commit" /\ service'.tx = service.tx
  BY PlacesOfStages DEF MoveHeight, Stage
<1>6. (RecordsTyped /\ CreditedAsRecorded /\ BegunAsPending)'
  BY <1>4 DEF CreditInv, RecordsTyped, CreditedAsRecorded, BegunAsPending
<1>7. OpenTyped' /\ Written' = Written
  BY <1>3 DEF OpenTyped, OpenKept, Written
<1>8. ServiceHolds'
  BY <1>1, <1>4, <1>5, <1>7 DEF ServiceHolds, Holds, HoldsNothing, Moves
<1>9. QED
  BY <1>6, <1>7, <1>8 DEF CreditInv

\* The one step that changes a record: it moves together with the credit.
LEMMA CommitDepositKeeps ==
  ASSUME CreditInv, Commit PROVE CreditInv'
<1> DEFINE t == service.tx
<1>1. /\ RecordsTyped /\ CreditedAsRecorded /\ BegunAsPending /\ OpenTyped /\ t \in Txs
  BY DEF CreditInv, Commit, At, ServiceHolds
<1>2. PICK to \in Stored : Holds(to) /\ Moves(records[t], to)
  BY DEF CreditInv, Commit, At, ServiceHolds
<1>3. records' = Over(Written, records)
  BY DEF Commit, CommitOn, Written
<1>4. records' = [u \in Txs |-> IF u = t THEN to ELSE records[u]]
  <2>1. DOMAIN Written \cup DOMAIN records = Txs
    BY <1>1, <1>2 DEF Holds, RecordsTyped
  <2>2. records' = [u \in Txs |-> IF u \in DOMAIN Written THEN Written[u] ELSE records[u]]
    BY <1>3, <2>1 DEF Over
  <2>3. QED
    BY <2>2, <1>2 DEF Holds
<1>5. credited' = [credited EXCEPT ![t] = @ + 1]
  BY DEF Commit
<1>6. wasPending' = IF to = "pending" THEN wasPending \cup {t} ELSE wasPending
  BY <1>1, <1>4 DEF Commit
<1>7. RecordsTyped'
  BY <1>1, <1>4, <1>5 DEF RecordsTyped, Stored, Statuses
<1>8. ASSUME NEW u \in Txs
      PROVE  /\ records'[u] = "none" => credited'[u] = 0 /\ u \notin wasPending'
             /\ records'[u] = "pending" => credited'[u] = 1 /\ u \in wasPending'
             /\ records'[u] = "confirmed" => credited'[u] = IF u \in wasPending' THEN 2 ELSE 1
  <2>1. CASE u # t
    BY <2>1, <1>1, <1>4, <1>5, <1>6 DEF RecordsTyped, CreditedAsRecorded, BegunAsPending
  <2>2. CASE u = t /\ records[t] = "none"
    BY <2>2, <1>1, <1>2, <1>4, <1>5, <1>6
       DEF RecordsTyped, CreditedAsRecorded, BegunAsPending, Stored
  <2>3. CASE u = t /\ records[t] = "pending" /\ to = "confirmed"
    BY <2>3, <1>1, <1>4, <1>5, <1>6 DEF RecordsTyped, CreditedAsRecorded, BegunAsPending
  <2>4. QED
    BY <2>1, <2>2, <2>3, <1>2 DEF Moves
<1>9. CreditedAsRecorded' /\ BegunAsPending'
  BY <1>8 DEF CreditedAsRecorded, BegunAsPending
<1>10. OpenTyped' /\ HoldsNothing'
  BY <1>1, NoTransactionIsEmpty
     DEF OpenTyped, HoldsNothing, Written, Commit, CommitOn, Connections
<1>11. service'.pc = "txs"
  BY PlacesOfStages DEF Commit
<1>12. QED
  BY <1>7, <1>9, <1>10, <1>11 DEF CreditInv, ServiceHolds

LEMMA DepositFailsKeeps ==
  ASSUME CreditInv, DepositFails PROVE CreditInv'
<1>1. (RecordsTyped /\ CreditedAsRecorded /\ BegunAsPending)'
  BY DEF CreditInv, RecordsTyped, CreditedAsRecorded, BegunAsPending, DepositFails, RollbackOn
<1>2. OpenTyped' /\ HoldsNothing'
  BY NoTransactionIsEmpty
     DEF CreditInv, OpenTyped, HoldsNothing, Written, DepositFails, RollbackOn, Connections
<1>3. service'.pc = "txs"
  BY PlacesOfStages DEF DepositFails
<1>4. QED
  BY <1>1, <1>2, <1>3 DEF CreditInv, ServiceHolds

LEMMA CrashKeeps ==
  ASSUME CreditInv, Crash PROVE CreditInv'
<1>1. (RecordsTyped /\ CreditedAsRecorded /\ BegunAsPending)'
  BY DEF CreditInv, RecordsTyped, CreditedAsRecorded, BegunAsPending, Crash, LobbyDies
<1>2. OpenTyped' /\ HoldsNothing'
  BY NoTransactionIsEmpty
     DEF CreditInv, OpenTyped, HoldsNothing, Written, Crash, LobbyDies, Connections
<1>3. service'.pc = "sleep"
  BY DEF Crash, Asleep
<1>4. QED
  BY <1>1, <1>2, <1>3 DEF CreditInv, ServiceHolds

-----------------------------------------------------------------------------
LEMMA StepKeepsCredit == CreditInv /\ [Next]_vars => CreditInv'
<1> SUFFICES ASSUME CreditInv, [Next]_vars PROVE CreditInv'
  OBVIOUS
<1>o. OpenTyped
  BY DEF CreditInv
<1>1. CASE LobbyStep
  BY <1>1, LobbyKeeps
<1>2. CASE ServiceStep
  BY <1>2, ServiceIdleKeeps, BeginTxKeeps, CreditKeeps, RecordKeeps, MoveHeightKeeps,
     CommitDepositKeeps, DepositFailsKeeps DEF ServiceStep
<1>3. CASE Crash
  BY <1>3, CrashKeeps
<1>4. CASE Restart \/ (\E block \in SUBSET {t \in Txs : ~IsMined(t)} : Mine(block))
           \/ UNCHANGED vars
  <2>1. UNCHANGED <<records, credited, wasPending, service, open>>
    BY <1>4 DEF Restart, RevertLocked, depositVars, Mine, dbVars, vars
  <2>2. QED
    BY <2>1, <1>o, UnchangedKeeps, Frame
<1>5. QED
  BY <1>1, <1>2, <1>3, <1>4 DEF Next

\* Each transaction has been credited exactly as often as its record says:
\* the deposit thread commits the record and the credit in one transaction
\* (deposit.c:140-232), and nothing else on either connection, failing or
\* crashing anywhere, comes between them.
THEOREM CreditedAsOftenAsRecorded == Spec => []CreditedAsRecorded
<1>1. CreditInv => CreditedAsRecorded
  BY DEF CreditInv
<1>2. QED
  BY InitCredit, StepKeepsCredit, <1>1, PTL DEF Spec
------------------------------------------------------------------------------
\* What the variables hold, for every step that computes with them.
Row == [exists : BOOLEAN, balance : Nat, locked : Nat, index : Nat, address : Nat, height : Nat]
Seat == [account : Accounts, entrance : Nat, chips : Nat, left : BOOLEAN]
Joining == [op : {"lock", "lock2"}, account : Accounts, amount : Nat, balance : Nat, locked : Nat]
Unjoining == [op : {"unlock", "pay", "commit"}, account : Accounts, place : Nat,
              balance : Nat, locked : Nat]
InHand == {"credit", "record", "height", "commit"}

RowsTyped == /\ rows \in [Accounts -> Row]
             /\ \A c \in Connections : \A a \in DOMAIN open[c].rows :
                  a \in Accounts /\ open[c].rows[a] \in Row

TaskTyped == \/ task = Idle
             \/ task \in Joining /\ task.balance >= task.amount
             \/ task \in Unjoining /\ task.place \in Places

\* A transaction is open exactly while its thread is inside of it.
Transactions ==
  /\ \A c \in Connections : open[c].on \in BOOLEAN /\ (~open[c].on => open[c] = NoTransaction)
  /\ open["lobby"].on <=> task.op \in {"pay", "commit"}
  /\ open["service"].on <=> service.pc \in InHand
  /\ ~running => task = Idle /\ service = Asleep

TableTyped == /\ players \in Seq(Seat) /\ joined \subseteq Accounts
              /\ running \in BOOLEAN /\ inHand \in BOOLEAN
              /\ serial \in Nat /\ addresses \in Nat /\ failures \in 0 .. MaxFailures
              /\ owed \in [Accounts -> Int]
              /\ stale \subseteq Accounts /\ torn \subseteq Accounts

ChainTyped == /\ tip \in 1 .. MaxBlocks
              /\ mined \in [Txs -> [height : Nat, to : Nat]]
              /\ \A t \in Txs : IsMined(t) => mined[t].height >= 1
              /\ wasPending \subseteq Txs /\ abandoned \subseteq Txs

ServiceTyped ==
  \/ service = Asleep
  \/ /\ service.pc \in {"next", "txs"} \cup InHand
     /\ service.height \in Nat
     /\ \A a \in DOMAIN service.todo : a \in Accounts /\ service.todo[a] \in Row
     /\ service.pc # "next" => /\ service.account \in Accounts /\ service.mem \in Row
                               /\ service.txs \subseteq {t \in Txs : IsMined(t)}
     /\ service.pc \in InHand => service.tx \in Txs /\ IsMined(service.tx)

TypeInv == /\ RowsTyped /\ TaskTyped /\ Transactions
           /\ TableTyped /\ ChainTyped /\ ServiceTyped
------------------------------------------------------------------------------
LEMMA NoRowsInNoTransaction ==
  /\ DOMAIN NoTransaction.rows = {} /\ NoTransaction.on = FALSE
BY DEF NoTransaction

LEMMA NoRowTyped == NoRow \in Row
BY DEF NoRow, Row

LEMMA InitTyped == Init => TypeInv
<1> SUFFICES ASSUME Init PROVE TypeInv
  OBVIOUS
<1> USE DEF Init, AccountsInit, DatabaseInit
<1>1. RowsTyped
  BY NoRowTyped, NoRowsInNoTransaction DEF RowsTyped
<1>2. TaskTyped /\ Transactions
  BY NoRowsInNoTransaction DEF TaskTyped, Transactions, Connections, Asleep, InHand, Idle
<1>3. TableTyped
  <2>1. players \in Seq(Seat) /\ failures \in 0 .. MaxFailures /\ owed \in [Accounts -> Int]
    BY EmptySeq, MaxFailuresAssumption
  <2>2. running \in BOOLEAN /\ inHand \in BOOLEAN
    OBVIOUS
  <2>3. QED
    BY <2>1, <2>2 DEF TableTyped
<1>4. ChainTyped /\ ServiceTyped
  BY DepositsAssumption DEF ChainTyped, ServiceTyped, IsMined, NotMined
<1>5. QED
  BY <1>1, <1>2, <1>3, <1>4 DEF TypeInv

\* What statements do to the rows and to the open transactions.
LEMMA UpdateRowTyped ==
  ASSUME OpenTyped, RowsTyped, NEW c \in Connections, NEW a \in Accounts, NEW row \in Row,
         UpdateRow(c, a, row)
  PROVE  /\ RowsTyped'
         /\ \A d \in Connections : /\ open'[d].on = open[d].on
                                   /\ ~open[d].on => open'[d] = open[d]
<1>1. CASE open[c].on
  <2>1. open' = [open EXCEPT ![c].rows = Over(Only(a, row), open[c].rows)] /\ UNCHANGED rows
    BY <1>1 DEF UpdateRow
  <2>2. /\ open'[c].rows = Over(Only(a, row), open[c].rows)
        /\ open'[c].on = open[c].on
        /\ \A d \in Connections \ {c} : open'[d] = open[d]
    BY <2>1 DEF OpenTyped
  <2>3. \A b \in DOMAIN open'[c].rows : b \in Accounts /\ open'[c].rows[b] \in Row
    BY <2>2 DEF Over, Only, RowsTyped
  <2>4. RowsTyped'
    BY <2>1, <2>2, <2>3 DEF RowsTyped
  <2>5. QED
    BY <1>1, <2>2, <2>4
<1>2. CASE ~open[c].on
  BY <1>2 DEF UpdateRow, RowsTyped
<1>3. QED
  BY <1>1, <1>2

LEMMA CommitTyped ==
  ASSUME OpenTyped, RowsTyped, NEW c \in Connections, CommitOn(c)
  PROVE  RowsTyped'
<1>1. rows' = [a \in Accounts |-> IF a \in DOMAIN open[c].rows THEN open[c].rows[a] ELSE rows[a]]
  <2>1. DOMAIN open[c].rows \cup DOMAIN rows = Accounts
    BY DEF RowsTyped
  <2>2. QED
    BY <2>1 DEF CommitOn, Over
<1>2. rows' \in [Accounts -> Row]
  BY <1>1 DEF RowsTyped
<1>3. \A d \in Connections : open'[d] = IF d = c THEN NoTransaction ELSE open[d]
  BY DEF CommitOn, OpenTyped
<1>4. QED
  BY <1>2, <1>3, NoRowsInNoTransaction DEF RowsTyped

LEMMA RollbackTyped ==
  ASSUME OpenTyped, RowsTyped, NEW c \in Connections, RollbackOn(c)
  PROVE  RowsTyped'
<1>1. \A d \in Connections : open'[d] = IF d = c THEN NoTransaction ELSE open[d]
  BY DEF RollbackOn, OpenTyped
<1>2. QED
  BY <1>1, NoRowsInNoTransaction DEF RowsTyped, RollbackOn

\* An open transaction ends.
LEMMA EndTransaction ==
  ASSUME OpenTyped, NEW c \in Connections, CommitOn(c) \/ RollbackOn(c)
  PROVE  \A d \in Connections : open'[d] = IF d = c THEN NoTransaction ELSE open[d]
BY DEF CommitOn, RollbackOn, OpenTyped
------------------------------------------------------------------------------
LEMMA ChainKept ==
  ASSUME TypeInv, UNCHANGED <<tip, mined, service, wasPending, abandoned>>
  PROVE  ChainTyped' /\ ServiceTyped'
BY DEF TypeInv, ChainTyped, ServiceTyped, IsMined

LEMMA TransactionsKept ==
  ASSUME TypeInv,
         \A d \in Connections : /\ open'[d].on = open[d].on
                                /\ ~open[d].on => open'[d] = open[d],
         task.op \in {"pay", "commit"} <=> task'.op \in {"pay", "commit"},
         service.pc \in InHand <=> service'.pc \in InHand,
         running /\ running'
  PROVE  Transactions'
BY DEF TypeInv, Transactions, Connections

LEMMA IdleOp == Idle.op = "none"
BY DEF Idle

LEMMA SignUpTyped ==
  ASSUME TypeInv, NEW a \in Accounts, SignUp(a) \/ SignUpFails(a), UNCHANGED depositVars
  PROVE  TypeInv'
<1> USE DEF depositVars
<1>1. RowsTyped'
  <2>1. CASE SignUp(a)
    <3>1. [NoRow EXCEPT !.exists = TRUE, !.balance = InitialBalance,
                        !.index = serial, !.address = addresses + 1] \in Row
      <4>1. InitialBalance \in Nat /\ serial \in Nat /\ addresses + 1 \in Nat
        BY AmountsAssumption DEF TypeInv, TableTyped
      <4>2. QED
        BY <4>1 DEF NoRow, Row
    <3>2. QED
      BY <2>1, <3>1 DEF SignUp, TypeInv, RowsTyped
  <2>2. CASE SignUpFails(a)
    BY <2>2 DEF SignUpFails, TypeInv, RowsTyped
  <2>3. QED
    BY <2>1, <2>2
<1>2. UNCHANGED <<task, players, running, open, inHand, joined, stale, torn>>
  BY DEF SignUp, SignUpFails, lobbyVars, ghosts
<1>3. TaskTyped' /\ Transactions'
  BY <1>2 DEF TypeInv, TaskTyped, Transactions, Places
<1>4. TableTyped'
  <2>1. serial' \in Nat /\ addresses' \in Nat
    BY DEF SignUp, SignUpFails, TypeInv, TableTyped
  <2>2. failures' \in 0 .. MaxFailures
    BY MaxFailuresAssumption DEF SignUp, SignUpFails, TypeInv, TableTyped, Failing
  <2>3. owed' \in [Accounts -> Int]
    BY AmountsAssumption DEF SignUp, SignUpFails, TypeInv, TableTyped, ghosts
  <2>4. QED
    BY <1>2, <2>1, <2>2, <2>3 DEF TypeInv, TableTyped
<1>5. ChainTyped' /\ ServiceTyped'
  BY ChainKept
<1>6. QED
  BY <1>1, <1>3, <1>4, <1>5 DEF TypeInv

LEMMA FetchToJoinTyped ==
  ASSUME TypeInv, NEW a \in Accounts, NEW n \in Stakes, FetchToJoin(a, n), UNCHANGED depositVars
  PROVE  TypeInv'
<1> USE DEF depositVars
<1>1. UNCHANGED <<rows, open, players, running, inHand, serial, addresses, failures,
                  owed, stale, torn>>
  BY DEF FetchToJoin, dbVars, ghosts
<1>2. RowsTyped' /\ TableTyped'
  BY <1>1 DEF FetchToJoin, TypeInv, RowsTyped, TableTyped
<1>3. task' \in Joining /\ task'.balance >= task'.amount
  BY AmountsAssumption DEF FetchToJoin, TypeInv, RowsTyped, Row, Joining
<1>4. TaskTyped'
  BY <1>3 DEF TaskTyped
<1>5. Transactions'
  BY <1>1, IdleOp DEF FetchToJoin, TypeInv, Transactions, Doing
<1>6. ChainTyped' /\ ServiceTyped'
  BY ChainKept
<1>7. QED
  BY <1>2, <1>4, <1>5, <1>6 DEF TypeInv

\* The list of players as members sit down, are marked and removed.
LEMMA SitDownTyped ==
  ASSUME TypeInv, NEW a \in Accounts, NEW n \in Nat, SitDown(a, n)
  PROVE  players' \in Seq(Seat)
<1>1. Player(a, n) \in Seat /\ players \in Seq(Seat)
  BY DEF Player, Seat, TypeInv, TableTyped
<1>2. QED
  BY <1>1, AppendProperties DEF SitDown

LEMMA PlaceOfTyped ==
  ASSUME TypeInv, NEW a \in Accounts, PlaceOf(a) # 0
  PROVE  PlaceOf(a) \in Places /\ players[PlaceOf(a)].account = a
<1> DEFINE SeatAt(i) == players[i].account = a
           First(i) == SeatAt(i) /\ \A j \in 1 .. i - 1 : ~SeatAt(j)
           S == {i \in Places : SeatAt(i)}
<1>1. \E i \in Places : SeatAt(i)
  BY DEF PlaceOf
<1>2. Places = 1 .. Len(players) /\ Len(players) \in Nat
  BY LenProperties DEF TypeInv, TableTyped, Places
<1>3. PICK i \in S : \A j \in S : i <= j
  <2>1. S \in SUBSET Nat /\ S # {}
    BY <1>1, <1>2
  <2>2. QED
    BY <2>1, LeastNat
<1>4. i \in Places /\ First(i)
  BY <1>2, <1>3
<1>5. PlaceOf(a) = CHOOSE k \in Places : First(k)
  BY <1>1 DEF PlaceOf
<1>6. QED
  <2> HIDE DEF First
  <2>1. PlaceOf(a) \in Places /\ First(PlaceOf(a))
    BY <1>4, <1>5
  <2>2. QED
    BY <2>1 DEF First

LEMMA LenOfPlayers ==
  ASSUME TypeInv
  PROVE  /\ Places = 1 .. Len(players) /\ Len(players) \in Nat
         /\ \A i \in Places : players[i] \in Seat
BY LenProperties, ElementOfSeq DEF TypeInv, TableTyped, Places

LEMMA StandUpTyped ==
  ASSUME TypeInv, task \in Unjoining, StandUp
  PROVE  players' \in Seq(Seat)
<1>1. task.place \in 1 .. Len(players) /\ Len(players) \in Nat
      /\ \A i \in 1 .. Len(players) : players[i] \in Seat
  BY LenOfPlayers, IdleOp DEF TypeInv, TaskTyped, Joining, Unjoining
<1>2. CASE inHand
  BY <1>2 DEF StandUp, TypeInv, TableTyped
<1>3. CASE ~inHand
  <2> DEFINE n == Len(players) - 1
             f == [i \in 1 .. n |-> IF i < task.place THEN players[i] ELSE players[i + 1]]
  <2>1. n \in Nat /\ \A i \in 1 .. n : f[i] \in Seat
    BY <1>1
  <2>2. f \in Seq(Seat)
    BY <2>1, SeqDef
  <2>3. QED
    BY <1>3, <2>2 DEF StandUp
<1>4. QED
  BY <1>2, <1>3
------------------------------------------------------------------------------
\* The fields of a row that a statement writes.
LEMMA RowWith ==
  ASSUME NEW r \in Row, NEW n \in Nat
  PROVE  /\ [r EXCEPT !.balance = n] \in Row
         /\ [r EXCEPT !.locked = n] \in Row
         /\ [r EXCEPT !.height = n] \in Row
BY DEF Row

LEMMA RowForTyped ==
  ASSUME RowsTyped, NEW c \in Connections, NEW a \in Accounts PROVE RowFor(c, a) \in Row
BY DEF RowsTyped, RowFor

\* A step of the event loop that leaves the table's counters alone.
LEMMA TableKept ==
  ASSUME TypeInv, players' \in Seq(Seat), joined' \subseteq Accounts, inHand' \in BOOLEAN,
         UNCHANGED <<running, serial, addresses, owed>>,
         failures' \in 0 .. MaxFailures,
         stale' \subseteq Accounts, torn' \subseteq Accounts
  PROVE  TableTyped'
BY DEF TypeInv, TableTyped

LEMMA TableParts ==
  ASSUME TypeInv
  PROVE  /\ players \in Seq(Seat) /\ joined \subseteq Accounts /\ inHand \in BOOLEAN
         /\ failures \in 0 .. MaxFailures /\ stale \subseteq Accounts /\ torn \subseteq Accounts
BY DEF TypeInv, TableTyped

LEMMA FailingTyped ==
  ASSUME TypeInv, Failing PROVE failures' \in 0 .. MaxFailures
BY MaxFailuresAssumption DEF TypeInv, TableTyped, Failing

LEMMA TaskByOp ==
  ASSUME TypeInv
  PROVE  /\ task.op \in {"lock", "lock2"} => /\ task \in Joining /\ task.account \in Accounts
                                             /\ task.balance - task.amount \in Nat
                                             /\ task.locked + task.amount \in Nat
                                             /\ task.amount \in Nat
         /\ task.op \in {"unlock", "pay", "commit"} =>
              /\ task \in Unjoining /\ task.account \in Accounts /\ task.place \in Places
              /\ task.balance \in Nat /\ task.locked \in Nat
              /\ Leaver \in Seat /\ Leaver.chips \in Nat /\ Leaver.entrance \in Nat
<1>1. CASE task.op \in {"lock", "lock2"}
  <2>1. task \in Joining /\ task.balance >= task.amount
    BY <1>1, IdleOp DEF TypeInv, TaskTyped, Unjoining
  <2>2. QED
    BY <1>1, <2>1 DEF Joining
<1>2. CASE task.op \in {"unlock", "pay", "commit"}
  <2>1. task \in Unjoining /\ task.place \in Places
    BY <1>2, IdleOp DEF TypeInv, TaskTyped, Joining
  <2>2. Leaver \in Seat
    BY <2>1, LenOfPlayers DEF Leaver
  <2>3. QED
    BY <1>2, <2>1, <2>2 DEF Unjoining, Seat
<1>3. QED
  BY <1>1, <1>2

LEMMA LockTyped ==
  ASSUME CreditInv, TypeInv, LockBalance \/ LockLocked, UNCHANGED depositVars
  PROVE  TypeInv'
<1> USE DEF depositVars
<1>o. OpenTyped /\ RowsTyped /\ "lobby" \in Connections
  BY DEF CreditInv, TypeInv, Connections
<1>1. /\ task.op \in {"lock", "lock2"} /\ task \in Joining /\ task.account \in Accounts
      /\ task.balance - task.amount \in Nat /\ task.locked + task.amount \in Nat
      /\ task.amount \in Nat /\ running /\ running'
  BY TaskByOp DEF LockBalance, LockLocked, Doing
<1>2. PICK row \in Row : UpdateRow("lobby", task.account, row)
  <2>1. RowFor("lobby", task.account) \in Row
    BY <1>o, <1>1, RowForTyped
  <2>2. CASE LockBalance
    BY <1>1, <2>1, <2>2, RowWith DEF LockBalance
  <2>3. CASE LockLocked
    BY <1>1, <2>1, <2>3, RowWith DEF LockLocked
  <2>4. QED
    BY <2>2, <2>3
<1>3. /\ RowsTyped'
      /\ \A d \in Connections : /\ open'[d].on = open[d].on
                                /\ ~open[d].on => open'[d] = open[d]
  BY <1>o, <1>1, <1>2, UpdateRowTyped
<1>4. TaskTyped' /\ task'.op \notin {"pay", "commit"}
  <2>1. CASE LockBalance
    <3>1. task' \in Joining /\ task'.balance >= task'.amount /\ task'.op = "lock2"
      BY <2>1, <1>1 DEF LockBalance, Joining, Doing
    <3>2. QED
      BY <3>1 DEF TaskTyped
  <2>2. CASE LockLocked
    BY <2>2, IdleOp DEF LockLocked, TaskTyped
  <2>3. QED
    BY <2>1, <2>2
<1>5. Transactions'
  BY <1>1, <1>3, <1>4, TransactionsKept
<1>6. TableTyped'
  <2>1. CASE LockBalance
    <3>1. stale' \subseteq Accounts
      BY <2>1, <1>1, TableParts DEF LockBalance
    <3>2. UNCHANGED <<running, serial, addresses, owed, players, joined, inHand, failures, torn>>
      BY <2>1 DEF LockBalance
    <3>3. QED
      BY <3>1, <3>2, TableKept, TableParts
  <2>2. CASE LockLocked
    <3>1. players' \in Seq(Seat)
      BY <2>2, <1>1, SitDownTyped DEF LockLocked
    <3>2. UNCHANGED <<running, serial, addresses, owed, joined, inHand, failures, stale, torn>>
      BY <2>2 DEF LockLocked, ghosts
    <3>3. QED
      BY <3>1, <3>2, TableKept, TableParts
  <2>3. QED
    BY <2>1, <2>2
<1>7. ChainTyped' /\ ServiceTyped'
  BY ChainKept
<1>8. QED
  BY <1>3, <1>4, <1>5, <1>6, <1>7 DEF TypeInv

LEMMA LockFailsTyped ==
  ASSUME TypeInv, LockFails, UNCHANGED depositVars PROVE TypeInv'
<1> USE DEF depositVars
<1>1. /\ task.op \in {"lock", "lock2"} /\ task.account \in Accounts /\ task.amount \in Nat
      /\ UNCHANGED <<rows, open, running>> /\ running /\ task' = Idle
  BY TaskByOp DEF LockFails, Doing
<1>2. RowsTyped' /\ TaskTyped'
  BY <1>1 DEF TypeInv, RowsTyped, TaskTyped
<1>3. Transactions'
  BY <1>1, IdleOp DEF TypeInv, Transactions
<1>4. TableTyped'
  <2>1. players' \in Seq(Seat) /\ failures' \in 0 .. MaxFailures
    BY <1>1, SitDownTyped, FailingTyped DEF LockFails
  <2>2. torn' \subseteq Accounts /\ UNCHANGED <<running, serial, addresses, owed, joined, inHand, stale>>
    BY <1>1, TableParts DEF LockFails
  <2>3. QED
    BY <2>1, <2>2, TableKept, TableParts
<1>5. ChainTyped' /\ ServiceTyped'
  BY ChainKept
<1>6. QED
  BY <1>2, <1>3, <1>4, <1>5 DEF TypeInv

LEMMA SeatWith ==
  ASSUME NEW list \in Seq(Seat), NEW i \in DOMAIN list, NEW s \in Seat
  PROVE  [list EXCEPT ![i] = s] \in Seq(Seat)
BY ExceptSeq

LEMMA FetchToUnjoinTyped ==
  ASSUME TypeInv, NEW a \in Accounts, FetchToUnjoin(a), UNCHANGED depositVars
  PROVE  TypeInv'
<1> USE DEF depositVars
<1>1. /\ UNCHANGED <<rows, open, running, serial, addresses, inHand, failures, owed, stale, torn>>
      /\ running /\ task.op = "none" /\ joined' \subseteq Accounts
  BY TableParts DEF FetchToUnjoin, Doing, dbVars, ghosts
<1>2. players' \in Seq(Seat) /\ DOMAIN players' = Places
  <2>1. CASE PlaceOf(a) = 0
    BY <2>1, TableParts DEF FetchToUnjoin, Places
  <2>2. CASE PlaceOf(a) # 0
    <3>1. PlaceOf(a) \in Places /\ players[PlaceOf(a)] \in Seat
      BY <2>2, PlaceOfTyped, LenOfPlayers
    <3>2. players' = [players EXCEPT ![PlaceOf(a)] = [players[PlaceOf(a)] EXCEPT !.left = TRUE]]
      BY <2>2 DEF FetchToUnjoin
    <3>3. [players[PlaceOf(a)] EXCEPT !.left = TRUE] \in Seat
      BY <3>1 DEF Seat
    <3>4. QED
      BY <3>1, <3>2, <3>3, SeatWith, TableParts DEF Places
  <2>3. QED
    BY <2>1, <2>2
<1>3. TaskTyped' /\ task'.op \notin {"pay", "commit"}
  <2>1. CASE PlaceOf(a) = 0
    BY <2>1, <1>1, <1>2 DEF FetchToUnjoin, TypeInv, TaskTyped, Places
  <2>2. CASE PlaceOf(a) # 0
    <3>1. PlaceOf(a) \in Places /\ PlaceOf(a) \in Nat
      BY <2>2, PlaceOfTyped, LenOfPlayers
    <3>2. task' = [op |-> "unlock", account |-> a, place |-> PlaceOf(a),
                   balance |-> rows[a].balance, locked |-> rows[a].locked]
      BY <2>2 DEF FetchToUnjoin
    <3>3. rows[a].balance \in Nat /\ rows[a].locked \in Nat
      BY DEF TypeInv, RowsTyped, Row
    <3>4. task' \in Unjoining /\ task'.op = "unlock"
      BY <3>1, <3>2, <3>3 DEF Unjoining
    <3>5. QED
      BY <3>1, <3>2, <3>4, <1>2 DEF TaskTyped, Places
  <2>3. QED
    BY <2>1, <2>2
<1>4. RowsTyped' /\ Transactions'
  BY <1>1, <1>3 DEF TypeInv, RowsTyped, Transactions
<1>5. TableTyped'
  BY <1>1, <1>2, TableKept, TableParts
<1>6. ChainTyped' /\ ServiceTyped'
  BY ChainKept
<1>7. QED
  BY <1>3, <1>4, <1>5, <1>6 DEF TypeInv
------------------------------------------------------------------------------
LEMMA RemoveLockedTyped ==
  ASSUME CreditInv, TypeInv, RemoveLocked, UNCHANGED depositVars PROVE TypeInv'
<1> USE DEF depositVars
<1>1. /\ task.op = "unlock" /\ task \in Unjoining /\ task.account \in Accounts
      /\ task.place \in Places /\ task.locked \in Nat /\ Leaver.entrance \in Nat
      /\ running /\ running' /\ task.locked >= Leaver.entrance
  BY TaskByOp DEF RemoveLocked, Doing
<1>2. UNCHANGED <<rows, players, serial, addresses, joined, inHand, failures, owed, stale, torn>>
  BY DEF RemoveLocked, ghosts
<1> DEFINE row == [rows[task.account] EXCEPT !.locked = task.locked - Leaver.entrance]
<1>3. row \in Row
  <2>1. task.locked - Leaver.entrance \in Nat /\ rows[task.account] \in Row
    BY <1>1 DEF TypeInv, RowsTyped
  <2>2. QED
    BY <2>1, RowWith
<1> HIDE DEF row
<1>4. /\ open'["lobby"] = [open["lobby"] EXCEPT !.on = TRUE, !.rows = Only(task.account, row)]
      /\ open'["service"] = open["service"]
  BY DEF RemoveLocked, CreditInv, OpenTyped, Connections, row
<1>5. open'["lobby"].on = TRUE /\ open'["lobby"].rows = Only(task.account, row)
  BY <1>4 DEF CreditInv, OpenTyped, Connections
<1>6. RowsTyped'
  <2>1. \A a \in DOMAIN open'["lobby"].rows : a \in Accounts /\ open'["lobby"].rows[a] \in Row
    BY <1>1, <1>3, <1>5 DEF Only
  <2>2. QED
    BY <1>2, <1>4, <2>1 DEF TypeInv, RowsTyped, Connections
<1>7. task'.op = "pay" /\ task' \in Unjoining /\ task'.place = task.place
  BY <1>1 DEF RemoveLocked, Unjoining
<1>8. TaskTyped' /\ Transactions'
  BY <1>1, <1>2, <1>4, <1>5, <1>7 DEF TypeInv, TaskTyped, Transactions, Places, Connections
<1>9. TableTyped' /\ ChainTyped' /\ ServiceTyped'
  BY <1>1, <1>2, TableParts, TableKept, ChainKept DEF RemoveLocked
<1>10. QED
  BY <1>6, <1>8, <1>9 DEF TypeInv

LEMMA AddBalanceTyped ==
  ASSUME CreditInv, TypeInv, AddBalance, UNCHANGED depositVars PROVE TypeInv'
<1> USE DEF depositVars
<1>o. OpenTyped /\ RowsTyped /\ "lobby" \in Connections
  BY DEF CreditInv, TypeInv, Connections
<1>1. /\ task.op = "pay" /\ task \in Unjoining /\ task.account \in Accounts
      /\ task.place \in Places /\ task.balance + Leaver.chips \in Nat
      /\ running /\ running'
  BY TaskByOp DEF AddBalance, Doing
<1>2. UNCHANGED <<players, serial, addresses, joined, inHand, failures, owed, torn>>
  BY DEF AddBalance
<1>3. PICK row \in Row : UpdateRow("lobby", task.account, row)
  <2>1. RowFor("lobby", task.account) \in Row
    BY <1>o, <1>1, RowForTyped
  <2>2. QED
    BY <1>1, <2>1, RowWith DEF AddBalance
<1>4. /\ RowsTyped'
      /\ \A d \in Connections : /\ open'[d].on = open[d].on
                                /\ ~open[d].on => open'[d] = open[d]
  BY <1>o, <1>1, <1>3, UpdateRowTyped
<1>5. task'.op = "commit" /\ task' \in Unjoining /\ task'.place = task.place
  BY <1>1 DEF AddBalance, Unjoining
<1>6. TaskTyped' /\ Transactions'
  BY <1>1, <1>2, <1>4, <1>5, TransactionsKept DEF TaskTyped, Places
<1>7. stale' \subseteq Accounts
  BY <1>1, TableParts DEF AddBalance
<1>8. TableTyped' /\ ChainTyped' /\ ServiceTyped'
  BY <1>1, <1>2, <1>7, TableParts, TableKept, ChainKept DEF AddBalance
<1>9. QED
  BY <1>4, <1>6, <1>8 DEF TypeInv

LEMMA NothingLockedTyped ==
  ASSUME TypeInv, NothingLocked, UNCHANGED depositVars PROVE TypeInv'
<1> USE DEF depositVars
<1>1. /\ task.op = "unlock" /\ task \in Unjoining /\ task.account \in Accounts
      /\ running /\ task' = Idle
      /\ UNCHANGED <<rows, open, running, serial, addresses, joined, inHand, failures, owed, stale>>
  BY TaskByOp DEF NothingLocked, Doing, dbVars
<1>2. RowsTyped' /\ TaskTyped' /\ Transactions'
  BY <1>1, IdleOp DEF TypeInv, RowsTyped, TaskTyped, Transactions
<1>3. players' \in Seq(Seat) /\ torn' \subseteq Accounts
  BY <1>1, StandUpTyped, TableParts DEF NothingLocked
<1>4. TableTyped' /\ ChainTyped' /\ ServiceTyped'
  BY <1>1, <1>3, TableParts, TableKept, ChainKept
<1>5. QED
  BY <1>2, <1>4 DEF TypeInv

\* The unjoin's transaction ends, committed or not.
LEMMA UnjoinEndsTyped ==
  ASSUME CreditInv, TypeInv, UnlockFails \/ CommitUnjoin, UNCHANGED depositVars PROVE TypeInv'
<1> USE DEF depositVars
<1>o. OpenTyped /\ RowsTyped /\ "lobby" \in Connections
  BY DEF CreditInv, TypeInv, Connections
<1>1. /\ task \in Unjoining /\ task.account \in Accounts /\ running /\ task' = Idle
      /\ Leaver.chips \in Nat /\ Leaver.entrance \in Nat
      /\ UNCHANGED <<running, serial, addresses, joined, inHand, stale>>
  BY TaskByOp DEF UnlockFails, CommitUnjoin, Doing
<1>2. RowsTyped'
  BY <1>o, RollbackTyped, CommitTyped DEF UnlockFails, CommitUnjoin
<1>3. open'["lobby"] = NoTransaction /\ open'["service"] = open["service"]
  BY <1>o, EndTransaction DEF UnlockFails, CommitUnjoin, Connections
<1>4. TaskTyped' /\ Transactions'
  BY <1>1, <1>3, IdleOp, NoRowsInNoTransaction DEF TypeInv, TaskTyped, Transactions, Connections
<1>5. players' \in Seq(Seat)
  BY <1>1, StandUpTyped DEF UnlockFails, CommitUnjoin
<1>6. failures' \in 0 .. MaxFailures /\ torn' \subseteq Accounts
  BY <1>1, FailingTyped, TableParts DEF UnlockFails, CommitUnjoin
<1>7. owed' \in [Accounts -> Int]
  <2>1. owed \in [Accounts -> Int]
    BY DEF TypeInv, TableTyped
  <2>2. CASE UnlockFails
    BY <2>1, <2>2 DEF UnlockFails
  <2>3. CASE CommitUnjoin
    BY <2>1, <2>3, <1>1 DEF CommitUnjoin
  <2>4. QED
    BY <2>2, <2>3
<1>8. TableTyped'
  BY <1>1, <1>5, <1>6, <1>7 DEF TypeInv, TableTyped
<1>9. ChainTyped' /\ ServiceTyped'
  BY ChainKept
<1>10. QED
  BY <1>2, <1>4, <1>8, <1>9 DEF TypeInv

LEMMA HandTyped ==
  ASSUME TypeInv,
         \/ BeginHand \/ EndHand
         \/ \E i, j \in Places, n \in Stakes : MoveChips(i, j, n),
         UNCHANGED depositVars
  PROVE  TypeInv'
<1> USE DEF depositVars
<1>1. /\ UNCHANGED <<rows, open, running, task, serial, addresses, joined, failures,
                     owed, stale, torn>>
      /\ running /\ task.op = "none"
  BY DEF BeginHand, EndHand, MoveChips, Doing, dbVars, ghosts
<1>2. players' \in Seq(Seat) /\ inHand' \in BOOLEAN
  <2>1. CASE BeginHand
    BY <2>1, TableParts DEF BeginHand
  <2>2. CASE EndHand
    BY <2>2, TableParts, WithoutType DEF EndHand, Leaving
  <2>3. ASSUME NEW i \in Places, NEW j \in Places, NEW n \in Stakes, MoveChips(i, j, n)
        PROVE  players' \in Seq(Seat) /\ inHand' \in BOOLEAN
    <3>1. /\ players[i] \in Seat /\ players[j] \in Seat /\ i # j
          /\ players[i].chips - n \in Nat /\ players[j].chips + n \in Nat
      BY <2>3, LenOfPlayers, AmountsAssumption DEF MoveChips, Seat
    <3>2. /\ [players[i] EXCEPT !.chips = players[i].chips - n] \in Seat
          /\ [players[j] EXCEPT !.chips = players[j].chips + n] \in Seat
      BY <3>1 DEF Seat
    <3>3. players' = [[players EXCEPT ![i] = [players[i] EXCEPT !.chips = players[i].chips - n]]
                              EXCEPT ![j] = [players[j] EXCEPT !.chips = players[j].chips + n]]
      BY <2>3, <3>1 DEF MoveChips, Places
    <3> DEFINE list == [players EXCEPT ![i] = [players[i] EXCEPT !.chips = players[i].chips - n]]
    <3>4. list \in Seq(Seat) /\ DOMAIN list = Places
      BY <3>2, SeatWith, TableParts DEF Places
    <3>5. players' \in Seq(Seat)
      <4> HIDE DEF list
      <4>1. [list EXCEPT ![j] = [players[j] EXCEPT !.chips = players[j].chips + n]] \in Seq(Seat)
        BY <3>2, <3>4, SeatWith
      <4>2. QED
        BY <4>1, <3>3 DEF list
    <3>6. QED
      BY <2>3, <3>5, TableParts DEF MoveChips
  <2>4. QED
    BY <2>1, <2>2, <2>3
<1>3. RowsTyped' /\ TaskTyped' /\ Transactions'
  BY <1>1, IdleOp DEF TypeInv, RowsTyped, TaskTyped, Transactions, Joining, Unjoining
<1>4. TableTyped' /\ ChainTyped' /\ ServiceTyped'
  BY <1>1, <1>2, TableParts, TableKept, ChainKept
<1>5. QED
  BY <1>3, <1>4 DEF TypeInv

LEMMA LobbyTyped ==
  ASSUME CreditInv, TypeInv, LobbyStep PROVE TypeInv'
BY SignUpTyped, FetchToJoinTyped, LockTyped, LockFailsTyped, FetchToUnjoinTyped, RemoveLockedTyped,
   AddBalanceTyped, NothingLockedTyped, UnjoinEndsTyped, HandTyped DEF LobbyStep, LobbyNext
-----------------------------------------------------------------------------
\* What the deposit thread's steps leave to the event loop.
LEMMA LobbyKept ==
  ASSUME TypeInv, OnlyService \/ UNCHANGED <<running, serial, addresses, lobbyVars, torn, tip, mined>>,
         owed' \in [Accounts -> Int], stale' \subseteq Accounts, failures' \in 0 .. MaxFailures,
         wasPending' \subseteq Txs, abandoned' \subseteq Txs
  PROVE  TaskTyped' /\ TableTyped' /\ ChainTyped' /\ UNCHANGED <<task, running>>
BY DEF TypeInv, OnlyService, TaskTyped, TableTyped, ChainTyped, IsMined, Places, accountVars,
       lobbyVars, ghosts

LEMMA ServiceParts ==
  ASSUME TypeInv
  PROVE  /\ owed \in [Accounts -> Int] /\ stale \subseteq Accounts
         /\ failures \in 0 .. MaxFailures /\ wasPending \subseteq Txs /\ abandoned \subseteq Txs
         /\ tip \in Nat
         /\ service.pc # "sleep" =>
              /\ service.height \in Nat
              /\ \A a \in DOMAIN service.todo : a \in Accounts /\ service.todo[a] \in Row
         /\ service.pc \notin {"sleep", "next"} =>
              /\ service.account \in Accounts /\ service.mem \in Row
              /\ service.txs \subseteq {t \in Txs : IsMined(t)}
         /\ service.pc \in InHand => service.tx \in Txs /\ IsMined(service.tx)
BY DEF TypeInv, TableTyped, ChainTyped, ServiceTyped, Asleep, InHand

\* A statement of the service's transaction, or outside of one.
LEMMA ServiceTransactions ==
  ASSUME TypeInv, UNCHANGED <<task, running>>, At(service.pc),
         \A d \in Connections : /\ open'[d].on = open[d].on
                                /\ ~open[d].on => open'[d] = open[d],
         service.pc \in InHand <=> service'.pc \in InHand
  PROVE  Transactions'
BY DEF TypeInv, Transactions, Connections, At

LEMMA OpenUnchanged ==
  ASSUME OpenTyped, UNCHANGED open
  PROVE  \A d \in Connections : /\ open'[d].on = open[d].on
                                /\ ~open[d].on => open'[d] = open[d]
OBVIOUS

LEMMA StageTyped ==
  ASSUME TypeInv, service.pc \in InHand, NEW pc \in InHand, service' = Stage(pc), UNCHANGED mined
  PROVE  ServiceTyped' /\ service'.pc = pc
<1>1. /\ service'.pc = pc /\ service'.height = service.height /\ service'.todo = service.todo
      /\ service'.account = service.account /\ service'.mem = service.mem
      /\ service'.txs = service.txs /\ service'.tx = service.tx
  BY DEF Stage, Handling
<1>2. pc # "next" /\ service.pc \notin {"sleep", "next"}
  BY DEF InHand
<1>3. QED
  BY <1>1, <1>2, ServiceParts DEF ServiceTyped, IsMined

LEMMA LookingTyped ==
  ASSUME TypeInv, service.pc \in {"txs"} \cup InHand, NEW txs \in SUBSET service.txs,
         service' = Looking(txs), UNCHANGED mined
  PROVE  ServiceTyped' /\ service'.pc = "txs"
<1>1. /\ service'.pc = "txs" /\ service'.height = service.height /\ service'.todo = service.todo
      /\ service'.account = service.account /\ service'.mem = service.mem
      /\ service'.txs = txs
  BY DEF Looking
<1>2. service.pc \notin {"sleep", "next"} /\ "txs" \notin InHand
  BY DEF InHand
<1>3. QED
  BY <1>1, <1>2, ServiceParts DEF ServiceTyped, IsMined

LEMMA PollTyped ==
  ASSUME CreditInv, TypeInv, Poll(tip) \/ Poll(0) PROVE TypeInv'
<1>1. /\ UNCHANGED <<rows, records, open>> /\ OnlyService /\ At("sleep") /\ At(service.pc)
      /\ failures' \in 0 .. MaxFailures
  BY ServiceParts, FailingTyped DEF Poll, At
<1>2. service'.pc = "next" /\ service'.height \in {tip, 0}
      /\ service'.todo = [a \in {b \in Accounts : rows[b].exists} |-> rows[a]]
  BY DEF Poll
<1>3. ServiceTyped'
  BY <1>2, ServiceParts DEF ServiceTyped, TypeInv, RowsTyped, InHand
<1>4. TaskTyped' /\ TableTyped' /\ ChainTyped' /\ UNCHANGED <<task, running>>
  BY <1>1, LobbyKept, ServiceParts DEF OnlyService, accountVars, ghosts
<1>5. RowsTyped' /\ Transactions'
  BY <1>1, <1>2, <1>4 DEF TypeInv, RowsTyped, Transactions, At, InHand
<1>6. QED
  BY <1>3, <1>4, <1>5 DEF TypeInv

LEMMA IdleTyped ==
  ASSUME CreditInv, TypeInv,
         \/ Sleep
         \/ \E a \in Accounts : NextAccount(a)
         \/ \E t \in Txs : SkipTx(t)
  PROVE  TypeInv'
<1>1. /\ UNCHANGED <<rows, records, open>> /\ OnlyService /\ At(service.pc)
      /\ service.pc \in {"next", "txs"} /\ failures' \in 0 .. MaxFailures
  BY ServiceParts, FailingTyped DEF Sleep, NextAccount, SkipTx, NextTx, At, dbVars
<1>2. ServiceTyped' /\ service'.pc \notin InHand
  <2>1. CASE Sleep
    BY <2>1 DEF Sleep, ServiceTyped, Asleep, InHand
  <2>2. ASSUME NEW a \in Accounts, NextAccount(a) PROVE ServiceTyped' /\ service'.pc \notin InHand
    <3>1. /\ service.height \in Nat /\ a \in DOMAIN service.todo
          /\ \A b \in DOMAIN service.todo : b \in Accounts /\ service.todo[b] \in Row
          /\ UNCHANGED mined
      BY <2>2, ServiceParts DEF NextAccount, At, OnlyService
    <3>2. \A b \in DOMAIN Others(a) : b \in Accounts /\ Others(a)[b] \in Row
      BY <3>1 DEF Others
    <3>3. Listed(service.todo[a]) \subseteq {t \in Txs : IsMined(t)}
      BY DEF Listed
    <3>4. CASE service' = [pc |-> "next", height |-> service.height, todo |-> Others(a)]
      BY <3>1, <3>2, <3>4 DEF ServiceTyped, InHand
    <3>5. CASE service' = [pc |-> "txs", height |-> service.height, todo |-> Others(a),
                           account |-> a, mem |-> service.todo[a],
                           txs |-> Listed(service.todo[a])]
      BY <3>1, <3>2, <3>3, <3>5 DEF ServiceTyped, InHand, IsMined
    <3>6. QED
      BY <2>2, <3>4, <3>5 DEF NextAccount
  <2>3. ASSUME NEW t \in Txs, SkipTx(t) PROVE ServiceTyped' /\ service'.pc \notin InHand
    <3>1. service' = Looking(service.txs \ {t}) /\ service.pc = "txs" /\ UNCHANGED mined
      BY <2>3 DEF SkipTx, NextTx, At, OnlyService
    <3>2. QED
      BY <3>1, LookingTyped DEF InHand
  <2>4. QED
    BY <2>1, <2>2, <2>3
<1>3. TaskTyped' /\ TableTyped' /\ ChainTyped' /\ UNCHANGED <<task, running>>
  BY <1>1, LobbyKept, ServiceParts DEF OnlyService, accountVars, ghosts
<1>4. RowsTyped' /\ Transactions'
  BY <1>1, <1>2, <1>3 DEF TypeInv, RowsTyped, Transactions, At, InHand
<1>5. QED
  BY <1>2, <1>3, <1>4 DEF TypeInv

LEMMA FinishAccountTyped ==
  ASSUME CreditInv, TypeInv, FinishAccount PROVE TypeInv'
<1>o. OpenTyped /\ RowsTyped /\ "service" \in Connections
  BY DEF CreditInv, TypeInv, Connections
<1>1. /\ OnlyService /\ At("txs") /\ At(service.pc) /\ failures' \in 0 .. MaxFailures
  BY ServiceParts, FailingTyped DEF FinishAccount, At
<1>2. /\ RowsTyped'
      /\ \A d \in Connections : /\ open'[d].on = open[d].on
                                /\ ~open[d].on => open'[d] = open[d]
  <2>1. CASE UNCHANGED <<rows, open>>
    BY <2>1, <1>o, OpenUnchanged DEF RowsTyped
  <2>2. CASE /\ service.height > 0
             /\ UpdateRow("service", Current, [rows[Current] EXCEPT !.height = service.height - 1])
    <3>1. service.height - 1 \in Nat /\ Current \in Accounts /\ rows[Current] \in Row
      BY <2>2, <1>1, ServiceParts DEF At, Current, TypeInv, RowsTyped
    <3>2. QED
      BY <2>2, <3>1, <1>o, RowWith, UpdateRowTyped
  <2>3. QED
    BY <2>1, <2>2 DEF FinishAccount
<1>3. ServiceTyped' /\ service'.pc = "next"
  BY <1>1, ServiceParts DEF FinishAccount, ServiceTyped, InHand, At
<1>4. TaskTyped' /\ TableTyped' /\ ChainTyped' /\ UNCHANGED <<task, running>>
  BY <1>1, LobbyKept, ServiceParts DEF OnlyService, accountVars, ghosts
<1>5. Transactions'
  BY <1>1, <1>2, <1>3, <1>4, ServiceTransactions DEF At, InHand
<1>6. QED
  BY <1>2, <1>3, <1>4, <1>5 DEF TypeInv
------------------------------------------------------------------------------
LEMMA BeginTxTyped ==
  ASSUME CreditInv, TypeInv, NEW t \in Txs, NEW confirmed \in BOOLEAN, BeginTx(t, confirmed)
  PROVE  TypeInv'
<1>1. /\ OnlyService /\ service.pc = "txs" /\ running /\ t \in service.txs
      /\ UNCHANGED <<rows, records, failures, mined>>
  BY DEF BeginTx, NextTx, At, OnlyService
<1>2. service.account \in Accounts /\ rows[service.account] \in Row /\ IsMined(t)
      /\ open["service"] = NoTransaction
  BY <1>1, ServiceParts DEF TypeInv, RowsTyped, Transactions, InHand, Connections
<1>3. /\ open'["service"].on = TRUE /\ open'["service"].rows = open["service"].rows
      /\ open'["lobby"] = open["lobby"]
  BY DEF BeginTx, CreditInv, OpenTyped, Connections
<1>4. RowsTyped'
  BY <1>1, <1>3 DEF TypeInv, RowsTyped, Connections
<1>5. /\ service'.pc = "credit" /\ service'.height = service.height
      /\ service'.todo = service.todo /\ service'.account = service.account
      /\ service'.mem = rows[service.account] /\ service'.txs = service.txs \ {t}
      /\ service'.tx = t
  BY DEF BeginTx, Handling
<1>6. ServiceTyped'
  BY <1>1, <1>2, <1>5, ServiceParts DEF ServiceTyped, InHand, IsMined
<1>7. TaskTyped' /\ TableTyped' /\ ChainTyped' /\ UNCHANGED <<task, running>>
  BY <1>1, LobbyKept, ServiceParts DEF OnlyService, accountVars, ghosts
<1>8. Transactions'
  BY <1>1, <1>3, <1>5, <1>7 DEF TypeInv, Transactions, Connections, InHand
<1>9. QED
  BY <1>4, <1>6, <1>7, <1>8 DEF TypeInv

LEMMA StatementTyped ==
  ASSUME CreditInv, TypeInv, Credit \/ MoveHeight PROVE TypeInv'
<1>o. OpenTyped /\ RowsTyped /\ "service" \in Connections
  BY DEF CreditInv, TypeInv, Connections
<1>1. /\ service.pc \in InHand /\ running /\ At(service.pc)
      /\ Current \in Accounts /\ service.mem \in Row /\ service.tx \in Txs
      /\ RowFor("service", Current) \in Row
  <2>1. service.pc \in {"credit", "height"} /\ running
    BY DEF Credit, MoveHeight, At
  <2>2. Current \in Accounts
    BY <2>1, ServiceParts DEF Current
  <2>3. QED
    BY <1>o, <2>1, <2>2, ServiceParts, RowForTyped DEF InHand, At
<1>2. PICK row \in Row : UpdateRow("service", Current, row)
  <2>1. CASE Credit
    <3>1. service.mem.balance + Amount \in Nat
      BY <1>1, DepositsAssumption DEF Row
    <3>2. QED
      BY <2>1, <3>1, <1>1, RowWith DEF Credit
  <2>2. CASE MoveHeight
    <3>1. mined[service.tx].height - 1 \in Nat
      BY <1>1, ServiceParts DEF TypeInv, ChainTyped
    <3>2. QED
      BY <2>2, <3>1, <1>1, RowWith DEF MoveHeight
  <2>3. QED
    BY <2>1, <2>2
<1>3. /\ RowsTyped'
      /\ \A d \in Connections : /\ open'[d].on = open[d].on
                                /\ ~open[d].on => open'[d] = open[d]
  BY <1>o, <1>1, <1>2, UpdateRowTyped
<1>4. UNCHANGED <<owed, failures, mined, wasPending, abandoned>>
      /\ (OnlyService \/ UNCHANGED <<running, serial, addresses, lobbyVars, torn, tip, mined>>)
  BY DEF Credit, MoveHeight, OnlyService, accountVars, ghosts
<1>5. stale' \subseteq Accounts
  BY <1>1, ServiceParts DEF Credit, MoveHeight, OnlyService, accountVars, ghosts
<1>6. TaskTyped' /\ TableTyped' /\ ChainTyped' /\ UNCHANGED <<task, running>>
  BY <1>4, <1>5, LobbyKept, ServiceParts
<1>7. ServiceTyped' /\ service'.pc \in InHand
  <2>1. PICK pc \in InHand : service' = Stage(pc)
    BY DEF Credit, MoveHeight, InHand
  <2>2. QED
    BY <2>1, <1>1, <1>4, StageTyped
<1>8. Transactions'
  BY <1>1, <1>3, <1>6, <1>7, ServiceTransactions
<1>9. QED
  BY <1>3, <1>6, <1>7, <1>8 DEF TypeInv

LEMMA RecordTyped ==
  ASSUME CreditInv, TypeInv, Record PROVE TypeInv'
<1>1. /\ OnlyService /\ service.pc = "record" /\ running /\ UNCHANGED <<rows, failures, mined>>
      /\ service' = Stage("height") /\ open["service"].on
  BY DEF Record, At, OnlyService, TypeInv, Transactions, InHand
<1>2. /\ open'["service"].on = open["service"].on /\ open'["service"].rows = open["service"].rows
      /\ open'["lobby"] = open["lobby"]
  BY DEF Record, WriteRecord, CreditInv, OpenTyped, Connections
<1>3. RowsTyped'
  BY <1>1, <1>2 DEF TypeInv, RowsTyped, Connections
<1>4. ServiceTyped' /\ service'.pc = "height"
  BY <1>1, StageTyped DEF InHand
<1>5. TaskTyped' /\ TableTyped' /\ ChainTyped' /\ UNCHANGED <<task, running>>
  BY <1>1, LobbyKept, ServiceParts DEF OnlyService, accountVars, ghosts
<1>6. Transactions'
  BY <1>1, <1>2, <1>4, <1>5 DEF TypeInv, Transactions, Connections, InHand
<1>7. QED
  BY <1>3, <1>4, <1>5, <1>6 DEF TypeInv

LEMMA DepositEndsTyped ==
  ASSUME CreditInv, TypeInv, Commit \/ DepositFails PROVE TypeInv'
<1>o. OpenTyped /\ RowsTyped /\ "service" \in Connections
  BY DEF CreditInv, TypeInv, Connections
<1>1. /\ service.pc \in InHand /\ running /\ service' = Looking(service.txs)
      /\ Current \in Accounts /\ service.tx \in Txs
      /\ UNCHANGED <<running, serial, addresses, lobbyVars, stale, torn, tip, mined>>
  <2>1. service.pc \in {"credit", "record", "height", "commit"} /\ running
    BY DEF Commit, DepositFails, At
  <2>2. QED
    BY <2>1, ServiceParts DEF InHand, Current, Commit, DepositFails, accountVars, ghosts
<1>2. RowsTyped'
  BY <1>o, RollbackTyped, CommitTyped DEF Commit, DepositFails
<1>3. open'["service"] = NoTransaction /\ open'["lobby"] = open["lobby"]
  BY <1>o, EndTransaction DEF Commit, DepositFails, Connections
<1>4. ServiceTyped' /\ service'.pc = "txs"
  BY <1>1, LookingTyped
<1>5. owed' \in [Accounts -> Int]
  <2>1. owed \in [Accounts -> Int]
    BY ServiceParts
  <2>2. CASE Commit
    BY <2>1, <2>2, <1>1, DepositsAssumption DEF Commit
  <2>3. CASE DepositFails
    BY <2>1, <2>3 DEF DepositFails, accountVars, ghosts
  <2>4. QED
    BY <2>2, <2>3
<1>6. failures' \in 0 .. MaxFailures /\ wasPending' \subseteq Txs /\ abandoned' \subseteq Txs
  BY <1>1, ServiceParts, FailingTyped DEF Commit, DepositFails
<1>7. TaskTyped' /\ TableTyped' /\ ChainTyped' /\ UNCHANGED <<task, running>>
  BY <1>1, <1>5, <1>6, LobbyKept, ServiceParts
<1>8. Transactions'
  <2>1. \A d \in Connections : open'[d].on \in BOOLEAN /\ (~open'[d].on => open'[d] = NoTransaction)
    BY <1>3, NoRowsInNoTransaction DEF TypeInv, Transactions, Connections
  <2>2. open'["lobby"].on <=> task'.op \in {"pay", "commit"}
    BY <1>3, <1>7 DEF TypeInv, Transactions
  <2>3. open'["service"].on <=> service'.pc \in InHand
    BY <1>3, <1>4, NoRowsInNoTransaction DEF InHand
  <2>4. QED
    BY <1>1, <2>1, <2>2, <2>3 DEF Transactions
<1>9. QED
  BY <1>2, <1>4, <1>7, <1>8 DEF TypeInv

LEMMA CrashTyped ==
  ASSUME CreditInv, TypeInv, Crash PROVE TypeInv'
<1>1. open' = [c \in Connections |-> NoTransaction] /\ task' = Idle /\ service' = Asleep
      /\ running' = FALSE /\ players' = << >> /\ inHand' = FALSE /\ joined' = {}
      /\ UNCHANGED <<rows, failures, serial, addresses, owed, stale, tip, mined, wasPending, abandoned>>
  BY DEF Crash, LobbyDies
<1>2. RowsTyped'
  BY <1>1, NoRowsInNoTransaction DEF TypeInv, RowsTyped
<1>3. TaskTyped' /\ Transactions'
  BY <1>1, IdleOp, NoRowsInNoTransaction DEF TaskTyped, Transactions, Connections, Asleep, InHand
<1>4. torn' \subseteq Accounts
  BY TableParts, TaskByOp DEF Crash, LobbyDies
<1>5. TableTyped'
  <2>1. players' \in Seq(Seat) /\ running' \in BOOLEAN /\ inHand' \in BOOLEAN
    BY <1>1, EmptySeq
  <2>2. QED
    BY <1>1, <1>4, <2>1 DEF TypeInv, TableTyped
<1>6. ChainTyped' /\ ServiceTyped'
  BY <1>1 DEF TypeInv, ChainTyped, ServiceTyped, IsMined
<1>7. QED
  BY <1>2, <1>3, <1>5, <1>6 DEF TypeInv

LEMMA RestartTyped ==
  ASSUME CreditInv, TypeInv, Restart PROVE TypeInv'
<1> USE DEF depositVars
<1>1. /\ running' = TRUE /\ ~running
      /\ UNCHANGED <<open, failures, serial, addresses, players, joined, inHand, task,
                     owed, stale, torn, tip, mined, service, wasPending, abandoned>>
  BY DEF Restart, RevertLocked, lobbyVars, ghosts
<1>2. rows' \in [Accounts -> Row]
  <2>1. ASSUME NEW a \in Accounts
        PROVE  [rows[a] EXCEPT !.balance = @ + rows[a].locked, !.locked = 0] \in Row
    <3>1. rows[a] \in Row /\ rows[a].balance + rows[a].locked \in Nat
      BY DEF TypeInv, RowsTyped, Row
    <3>2. QED
      BY <3>1 DEF Row
  <2>2. QED
    BY <2>1 DEF Restart, RevertLocked, TypeInv, RowsTyped
<1>3. RowsTyped' /\ TaskTyped' /\ Transactions'
  BY <1>1, <1>2 DEF TypeInv, RowsTyped, TaskTyped, Transactions, Places
<1>4. TableTyped'
  BY <1>1 DEF TypeInv, TableTyped
<1>5. ChainTyped' /\ ServiceTyped'
  BY <1>1, ChainKept
<1>6. QED
  BY <1>3, <1>4, <1>5 DEF TypeInv

LEMMA MineTyped ==
  ASSUME CreditInv, TypeInv, NEW block \in SUBSET {t \in Txs : ~IsMined(t)}, Mine(block)
  PROVE  TypeInv'
<1>1. UNCHANGED <<dbVars, accountVars, service, wasPending, abandoned>>
  BY DEF Mine
<1>2. tip \in Nat \ {0} /\ tip' = tip + 1 /\ tip' \in 1 .. MaxBlocks
  BY DepositsAssumption DEF Mine, TypeInv, ChainTyped
<1>3. PICK to \in [block -> 1 .. addresses] :
        mined' = [t \in Txs |-> IF t \in block THEN [height |-> tip, to |-> to[t]] ELSE mined[t]]
  BY DEF Mine
<1>4. \A t \in block : to[t] \in Nat
  BY DEF TypeInv, TableTyped
<1>5. ChainTyped'
  <2>1. mined' \in [Txs -> [height : Nat, to : Nat]]
    BY <1>2, <1>3, <1>4 DEF TypeInv, ChainTyped
  <2>2. \A t \in Txs : mined'[t] # NotMined => mined'[t].height >= 1
    BY <1>2, <1>3 DEF TypeInv, ChainTyped, IsMined
  <2>3. QED
    BY <1>1, <1>2, <2>1, <2>2 DEF TypeInv, ChainTyped, IsMined
<1>6. \A t \in Txs : IsMined(t) => IsMined(t)'
  BY <1>2, <1>3 DEF IsMined
<1>7. ServiceTyped'
  BY <1>1, <1>6 DEF TypeInv, ServiceTyped
<1>8. RowsTyped' /\ TaskTyped' /\ Transactions' /\ TableTyped'
  BY <1>1 DEF TypeInv, RowsTyped, TaskTyped, Transactions, TableTyped, dbVars, accountVars,
     lobbyVars, ghosts, Places
<1>9. QED
  BY <1>5, <1>7, <1>8 DEF TypeInv

LEMMA StepTyped == CreditInv /\ TypeInv /\ [Next]_vars => TypeInv'
<1> SUFFICES ASSUME CreditInv, TypeInv, [Next]_vars PROVE TypeInv'
  OBVIOUS
<1>1. CASE LobbyStep
  BY <1>1, LobbyTyped
<1>2. CASE ServiceStep
  BY <1>2, PollTyped, IdleTyped, BeginTxTyped, StatementTyped, RecordTyped, DepositEndsTyped,
     FinishAccountTyped DEF ServiceStep
<1>3. CASE Crash \/ Restart
  BY <1>3, CrashTyped, RestartTyped
<1>4. CASE \E block \in SUBSET {t \in Txs : ~IsMined(t)} : Mine(block)
  BY <1>4, MineTyped
<1>5. CASE UNCHANGED vars
  BY <1>5 DEF vars, dbVars, accountVars, lobbyVars, ghosts, depositVars, TypeInv, RowsTyped,
     TaskTyped, Transactions, TableTyped, ChainTyped, ServiceTyped, Places, IsMined
<1>6. QED
  BY <1>1, <1>2, <1>3, <1>4, <1>5 DEF Next

\* What is typed of the records follows from what the deposit thread holds.
LEMMA TypeOKFollows == CreditInv /\ TypeInv => TypeOK
<1> SUFFICES ASSUME CreditInv, TypeInv PROVE TypeOK
  OBVIOUS
<1>1. \A a \in Accounts : /\ DOMAIN rows[a] = DOMAIN NoRow
                          /\ rows[a].balance \in Nat /\ rows[a].locked \in Nat
                          /\ rows[a].height \in Nat
  BY DEF TypeInv, RowsTyped, Row, NoRow
<1>2. DOMAIN open["lobby"].records \subseteq Txs /\ DOMAIN open["service"].records \subseteq Txs
  BY DEF CreditInv, OpenTyped, ServiceHolds, HoldsNothing, Holds, Written
<1>3. DatabaseTypeOK
  <2>1. \A c \in Connections : /\ DOMAIN open[c].rows \subseteq Accounts
                               /\ ~open[c].on => open[c] = NoTransaction
    BY DEF TypeInv, RowsTyped, Transactions
  <2>2. records \in [Txs -> Statuses] /\ failures \in 0 .. MaxFailures
    BY DEF CreditInv, RecordsTyped, TypeInv, TableTyped
  <2>3. QED
    BY <1>1, <1>2, <2>1, <2>2 DEF DatabaseTypeOK, Connections
<1>4. \A i \in Places : players[i].account \in Accounts /\ players[i].chips \in Nat
  BY LenOfPlayers DEF Seat
<1>5. credited \in [Txs -> 0 .. 2]
  <2>1. \A t \in Txs : credited[t] \in 0 .. 2
    <3>1. \A t \in Txs : records[t] \in Statuses
      BY DEF CreditInv, RecordsTyped
    <3>2. QED
      BY <3>1 DEF CreditInv, CreditedAsRecorded, Statuses
  <2>2. QED
    BY <2>1 DEF CreditInv, RecordsTyped
<1>6. QED
  BY <1>3, <1>4, <1>5 DEF TypeOK, TypeInv, TableTyped, ChainTyped

\* No statement on either connection, computed from copies that may be
\* outdated, makes a balance, what is locked or a height negative, or a row
\* anything but a row; and a thread has a transaction open only while it is
\* inside of one.
THEOREM RowsStayTyped == Spec => []TypeOK
<1>1. Init => CreditInv /\ TypeInv
  BY InitCredit, InitTyped
<1>2. CreditInv /\ TypeInv /\ [Next]_vars => (CreditInv /\ TypeInv)'
  BY StepKeepsCredit, StepTyped
<1>3. QED
  BY <1>1, <1>2, TypeOKFollows, PTL DEF Spec
-----------------------------------------------------------------------------
\* The money of an account, wherever the two threads are with its row.  A row
\* that an open transaction wrote is the committed one but for what its
\* statements changed, because nobody else can write the row until the end.
SameIdentity(r, q) == r.exists = q.exists /\ r.index = q.index /\ r.address = q.address

Paying == {"pay", "commit"}
Wrote == {"record", "height", "commit"}

LobbyWrote ==
  task.op \in Paying =>
    LET a == task.account
        r == open["lobby"].rows[a]
    IN /\ DOMAIN open["lobby"].rows = {a} /\ task.locked >= Leaver.entrance
       /\ SameIdentity(r, rows[a]) /\ r.height = rows[a].height
       /\ r.locked = rows[a].locked - Leaver.entrance
       /\ \/ a \in stale
          \/ task.op = "pay" /\ r.balance = rows[a].balance
          \/ task.op = "commit" /\ r.balance = rows[a].balance + Leaver.chips

ServiceWrote ==
  /\ service.pc \notin Wrote => DOMAIN open["service"].rows = {}
  /\ service.pc \in Wrote =>
       LET a == service.account
           r == open["service"].rows[a]
       IN /\ DOMAIN open["service"].rows = {a}
          /\ SameIdentity(r, rows[a]) /\ r.locked = rows[a].locked
          /\ a \in stale \/ r.balance = rows[a].balance + Amount

RowLocks == DOMAIN open["lobby"].rows \cap DOMAIN open["service"].rows = {}

\* Nobody but the event loop changes what is locked.
LockedAsRead == task # Idle => task.locked = rows[task.account].locked

\* The deposit thread only knows accounts that have signed up.
Known == /\ service.pc # "sleep" => \A a \in DOMAIN service.todo : rows[a].exists
         /\ service.pc \notin {"sleep", "next"} => rows[service.account].exists

Brings(a) == IF task.op = "lock2" /\ task.account = a THEN task.amount ELSE 0

Owes(a) == rows[a].balance + rows[a].locked + Brings(a) = owed[a]
OwedInv == \A a \in Accounts \ (stale \cup torn) : Owes(a)

MoneyInv == LobbyWrote /\ ServiceWrote /\ RowLocks /\ LockedAsRead /\ Known /\ OwedInv

\* An account that has signed up keeps its addresses.
IdentityKept == \A a \in Accounts : rows[a].exists => SameIdentity(rows'[a], rows[a])
-----------------------------------------------------------------------------
LEMMA InitMoney == Init => MoneyInv
<1> SUFFICES ASSUME Init PROVE MoneyInv
  OBVIOUS
<1> USE DEF Init, AccountsInit, DatabaseInit
<1>1. DOMAIN open["lobby"].rows = {} /\ DOMAIN open["service"].rows = {}
  BY NoRowsInNoTransaction DEF Connections
<1>2. LobbyWrote /\ ServiceWrote /\ RowLocks /\ LockedAsRead /\ Known
  BY <1>1, IdleOp DEF LobbyWrote, ServiceWrote, RowLocks, LockedAsRead, Known, Paying, Wrote, Asleep
<1>3. OwedInv
  BY IdleOp DEF OwedInv, Owes, Brings, NoRow
<1>4. QED
  BY <1>2, <1>3 DEF MoneyInv

LEMMA TaskCases ==
  ASSUME TypeInv
  PROVE  /\ task.op = "none" => task = Idle
         /\ task # Idle => task.op # "none" /\ task.account \in Accounts
         /\ task.op \in Paying <=> open["lobby"].on
         /\ ~open["lobby"].on => DOMAIN open["lobby"].rows = {}
         /\ ~open["service"].on => DOMAIN open["service"].rows = {}
         /\ service.pc \in Wrote => open["service"].on
<1>1. task = Idle \/ task \in Joining \/ task \in Unjoining
  BY DEF TypeInv, TaskTyped
<1>2. QED
  BY <1>1, IdleOp, NoRowsInNoTransaction
     DEF TypeInv, Transactions, Connections, Joining, Unjoining, Paying, Wrote, InHand

\* What a statement that updates a row does, in and out of a transaction.
LEMMA UpdateRowFacts ==
  ASSUME OpenTyped, RowsTyped, NEW c \in Connections, NEW a \in Accounts, NEW row,
         UpdateRow(c, a, row)
  PROVE  /\ \A d \in Connections \ {c} : open'[d] = open[d] /\ a \notin DOMAIN open[d].rows
         /\ open[c].on => /\ UNCHANGED rows
                          /\ DOMAIN open'[c].rows = {a} \cup DOMAIN open[c].rows
                          /\ open'[c].rows[a] = row
         /\ ~open[c].on => /\ UNCHANGED open
                           /\ rows' = [rows EXCEPT ![a] = row]
<1>1. Unlocked(c, a)
  BY DEF UpdateRow
<1>2. CASE open[c].on
  <2>1. open' = [open EXCEPT ![c].rows = Over(Only(a, row), open[c].rows)] /\ UNCHANGED rows
    BY <1>2 DEF UpdateRow
  <2>2. /\ open'[c].rows = Over(Only(a, row), open[c].rows)
        /\ \A d \in Connections \ {c} : open'[d] = open[d]
    BY <2>1 DEF OpenTyped
  <2>3. QED
    BY <1>1, <1>2, <2>1, <2>2 DEF Unlocked, Over, Only
<1>3. CASE ~open[c].on
  BY <1>1, <1>3 DEF UpdateRow, Unlocked
<1>4. QED
  BY <1>2, <1>3

LEMMA CommitFacts ==
  ASSUME OpenTyped, RowsTyped, NEW c \in Connections, CommitOn(c)
  PROVE  /\ open'[c] = NoTransaction /\ \A d \in Connections \ {c} : open'[d] = open[d]
         /\ \A a \in Accounts : rows'[a] = IF a \in DOMAIN open[c].rows THEN open[c].rows[a]
                                           ELSE rows[a]
<1>1. DOMAIN open[c].rows \cup DOMAIN rows = Accounts
  BY DEF RowsTyped
<1>2. QED
  BY <1>1, EndTransaction DEF CommitOn, Over

-----------------------------------------------------------------------------
\* The event loop's side of a step of the deposit thread, and the reverse.
LEMMA LobbySide ==
  ASSUME CreditInv, TypeInv, MoneyInv, UNCHANGED <<task, players>>, open'["lobby"] = open["lobby"],
         stale \subseteq stale',
         \A a \in Accounts : rows'[a].locked = rows[a].locked,
         \A a \in DOMAIN open["lobby"].rows : rows'[a] = rows[a]
  PROVE  LobbyWrote' /\ LockedAsRead'
<1>1. LockedAsRead'
  BY TaskCases DEF MoneyInv, LockedAsRead
<1>2. LobbyWrote'
  <2>1. task.op \in Paying => rows'[task.account] = rows[task.account]
    BY DEF MoneyInv, LobbyWrote
  <2>2. QED
    BY <2>1 DEF MoneyInv, LobbyWrote, Leaver
<1>3. QED
  BY <1>1, <1>2

LEMMA ServiceSide ==
  ASSUME CreditInv, TypeInv, MoneyInv, UNCHANGED service, open'["service"] = open["service"],
         stale \subseteq stale',
         \A a \in DOMAIN open["service"].rows : rows'[a] = rows[a]
  PROVE  ServiceWrote'
<1>1. service.pc \in Wrote => rows'[service.account] = rows[service.account]
  BY DEF MoneyInv, ServiceWrote
<1>2. QED
  BY <1>1 DEF MoneyInv, ServiceWrote

LEMMA KnownKept ==
  ASSUME TypeInv, MoneyInv, UNCHANGED service, IdentityKept PROVE Known'
BY ServiceParts DEF MoneyInv, Known, IdentityKept, SameIdentity

\* A step that moves no money.
LEMMA OwedKept ==
  ASSUME TypeInv, MoneyInv,
         \A a \in Accounts : rows'[a].balance = rows[a].balance /\ rows'[a].locked = rows[a].locked,
         UNCHANGED owed, stale \subseteq stale', torn \subseteq torn',
         \A a \in Accounts \ torn' : Brings(a)' = Brings(a)
  PROVE  OwedInv'
BY DEF MoneyInv, OwedInv, Owes

LEMMA RowsSame ==
  ASSUME UNCHANGED rows
  PROVE  /\ IdentityKept
         /\ \A a \in Accounts : rows'[a].balance = rows[a].balance /\ rows'[a].locked = rows[a].locked
BY DEF IdentityKept, SameIdentity
-----------------------------------------------------------------------------
\* Every step preserves the invariant and the accounts' addresses.
LEMMA SignUpMoney ==
  ASSUME CreditInv, TypeInv, MoneyInv, NEW a \in Accounts, SignUp(a), UNCHANGED depositVars
  PROVE  MoneyInv' /\ IdentityKept
<1> USE DEF depositVars
<1>1. /\ task = Idle /\ task.op = "none" /\ ~rows[a].exists
      /\ UNCHANGED <<open, task, players, stale, torn, service>>
  BY TaskCases DEF SignUp, Doing, lobbyVars
<1> DEFINE new == [NoRow EXCEPT !.exists = TRUE, !.balance = InitialBalance,
                                !.index = serial, !.address = addresses + 1]
<1>2. rows' = [rows EXCEPT ![a] = new] /\ owed' = [owed EXCEPT ![a] = InitialBalance]
  BY DEF SignUp
<1>3. new.balance = InitialBalance /\ new.locked = 0
  BY DEF NoRow
<1> HIDE DEF new
<1>4. rows \in [Accounts -> Row] /\ owed \in [Accounts -> Int]
  BY DEF TypeInv, RowsTyped, TableTyped
<1>5. IdentityKept
  BY <1>1, <1>2, <1>4 DEF IdentityKept, SameIdentity
<1>6. \A b \in DOMAIN open["service"].rows : rows'[b] = rows[b]
  <2>1. a \notin DOMAIN open["service"].rows
    <3>1. service.pc \in Wrote => DOMAIN open["service"].rows = {service.account}
      BY DEF MoneyInv, ServiceWrote
    <3>2. service.pc \in Wrote => service.pc \notin {"sleep", "next"}
      BY DEF Wrote
    <3>3. QED
      BY <1>1, <3>1, <3>2 DEF MoneyInv, ServiceWrote, Known
  <2>2. QED
    BY <1>2, <1>4, <2>1 DEF TypeInv, RowsTyped, Connections
<1>7. ServiceWrote' /\ Known'
  BY <1>1, <1>5, <1>6, ServiceSide, KnownKept
<1>8. LobbyWrote' /\ RowLocks' /\ LockedAsRead'
  BY <1>1 DEF MoneyInv, LobbyWrote, RowLocks, LockedAsRead, Paying
<1>9. OwedInv'
  <2>1. ASSUME NEW b \in Accounts \ (stale \cup torn) PROVE Owes(b)'
    <3>1. CASE b = a
      BY <3>1, <1>1, <1>2, <1>3, <1>4, AmountsAssumption DEF Owes, Brings
    <3>2. CASE b # a
      BY <3>2, <1>1, <1>2, <1>4 DEF MoneyInv, OwedInv, Owes, Brings
    <3>3. QED
      BY <3>1, <3>2
  <2>2. QED
    BY <1>1, <2>1 DEF OwedInv
<1>10. QED
  BY <1>5, <1>7, <1>8, <1>9 DEF MoneyInv

\* The event loop is between tasks, and stays there or begins one.
LEMMA FetchMoney ==
  ASSUME CreditInv, TypeInv, MoneyInv, UNCHANGED depositVars,
         \/ \E a \in Accounts : \/ SignUpFails(a) \/ FetchToUnjoin(a)
                                \/ \E n \in Stakes : FetchToJoin(a, n)
         \/ BeginHand \/ EndHand
         \/ \E i, j \in Places, n \in Stakes : MoveChips(i, j, n)
  PROVE  MoneyInv' /\ IdentityKept
<1> USE DEF depositVars
<1>1. /\ task = Idle /\ task.op = "none" /\ UNCHANGED <<rows, open, owed, stale, torn, service>>
  BY TaskCases DEF SignUpFails, FetchToUnjoin, FetchToJoin, BeginHand, EndHand, MoveChips, Doing,
     dbVars, ghosts
<1>2. \/ UNCHANGED task
      \/ /\ task'.op \in {"lock", "unlock"} /\ task'.account \in Accounts
         /\ task'.locked = rows[task'.account].locked
  <2>1. CASE \E a \in Accounts : SignUpFails(a)
    BY <2>1 DEF SignUpFails, lobbyVars
  <2>2. CASE \E a \in Accounts : FetchToUnjoin(a)
    BY <2>2 DEF FetchToUnjoin
  <2>3. CASE \E a \in Accounts, n \in Stakes : FetchToJoin(a, n)
    BY <2>3 DEF FetchToJoin
  <2>4. CASE BeginHand \/ EndHand \/ \E i, j \in Places, n \in Stakes : MoveChips(i, j, n)
    BY <2>4 DEF BeginHand, EndHand, MoveChips
  <2>5. QED
    BY <2>1, <2>2, <2>3, <2>4
<1>3. task'.op \notin Paying /\ task'.op # "lock2" /\ task.op # "lock2"
  BY <1>1, <1>2 DEF Paying
<1>4. LobbyWrote' /\ LockedAsRead' /\ RowLocks'
  BY <1>1, <1>2, <1>3 DEF MoneyInv, LobbyWrote, LockedAsRead, RowLocks
<1>5. IdentityKept /\ ServiceWrote' /\ Known'
  BY <1>1, RowsSame, ServiceSide, KnownKept
<1>6. OwedInv'
  <2>1. \A a \in Accounts : Brings(a)' = Brings(a)
    BY <1>3 DEF Brings
  <2>2. QED
    BY <2>1, <1>1, RowsSame, OwedKept
<1>7. QED
  BY <1>4, <1>5, <1>6 DEF MoneyInv

\* The two statements of a join, which are outside of a transaction.
LEMMA LockMoney ==
  ASSUME CreditInv, TypeInv, MoneyInv, LockBalance \/ LockLocked, UNCHANGED depositVars
  PROVE  MoneyInv' /\ IdentityKept
<1> USE DEF depositVars
<1>0. PICK a \in Accounts : a = task.account
  BY TaskByOp DEF LockBalance, LockLocked, Doing
<1> DEFINE row == IF task.op = "lock" THEN [rows[a] EXCEPT !.balance = task.balance - task.amount]
                  ELSE [rows[a] EXCEPT !.locked = task.locked + task.amount]
<1>1. /\ task.op \in {"lock", "lock2"} /\ task \in Joining
      /\ task.balance - task.amount \in Nat /\ task.locked + task.amount \in Nat
      /\ task.amount \in Nat
      /\ task.op = "lock" => LockBalance
      /\ task.op = "lock2" => LockLocked
  BY TaskByOp DEF LockBalance, LockLocked, Doing
<1>2. /\ OpenTyped /\ RowsTyped /\ "lobby" \in Connections /\ "service" \in Connections \ {"lobby"}
      /\ ~open["lobby"].on /\ DOMAIN open["lobby"].rows = {}
  BY <1>1, TaskCases DEF CreditInv, TypeInv, Connections, Paying
<1>3. UpdateRow("lobby", a, row)
  <2>1. RowFor("lobby", a) = rows[a]
    BY <1>2 DEF RowFor
  <2>2. CASE task.op = "lock"
    BY <2>1, <2>2, <1>0, <1>1 DEF LockBalance
  <2>3. CASE task.op = "lock2"
    BY <2>1, <2>3, <1>0, <1>1 DEF LockLocked
  <2>4. QED
    BY <1>1, <2>2, <2>3
<1>r. /\ rows[a] \in Row /\ SameIdentity(row, rows[a])
      /\ task.op = "lock" => row.balance = task.balance - task.amount /\ row.locked = rows[a].locked
      /\ task.op = "lock2" => row.balance = rows[a].balance /\ row.locked = task.locked + task.amount
  BY <1>1 DEF Row, TypeInv, RowsTyped, SameIdentity
<1> HIDE DEF row
<1>4. /\ UNCHANGED open /\ rows' = [rows EXCEPT ![a] = row]
      /\ a \notin DOMAIN open["service"].rows
  BY <1>1, <1>2, <1>3, UpdateRowFacts
<1>5. /\ rows'[a] = row /\ \A b \in Accounts \ {a} : rows'[b] = rows[b]
      /\ UNCHANGED <<service, owed, torn>> /\ stale \subseteq stale'
  BY <1>0, <1>1, <1>4 DEF TypeInv, RowsTyped, LockBalance, LockLocked, ghosts
<1>6. IdentityKept
  BY <1>5, <1>r DEF IdentityKept, SameIdentity
<1>7. ServiceWrote' /\ Known' /\ RowLocks'
  <2>1. \A b \in DOMAIN open["service"].rows : b \in Accounts
    BY <1>2 DEF RowsTyped
  <2>2. QED
    BY <2>1, <1>4, <1>5, <1>6, ServiceSide, KnownKept DEF MoneyInv, RowLocks
<1>8. /\ task.op = "lock" => task' = [task EXCEPT !.op = "lock2"]
      /\ task.op = "lock2" => task' = Idle
  BY <1>1 DEF LockBalance, LockLocked
<1>9. /\ task.op = "lock" => /\ task'.op = "lock2" /\ task'.account = a
                             /\ task'.locked = task.locked /\ task'.amount = task.amount
      /\ task'.op \notin Paying
  BY <1>0, <1>1, <1>8, IdleOp DEF Joining, Paying
<1>10. task # Idle /\ task.locked = rows[a].locked
  BY <1>0, <1>1, IdleOp DEF MoneyInv, LockedAsRead
<1>11. LobbyWrote' /\ LockedAsRead'
  BY <1>0, <1>1, <1>5, <1>8, <1>9, <1>10, <1>r DEF LobbyWrote, LockedAsRead
<1>12. OwedInv'
  <2>0. /\ \A b \in Accounts : rows[b].balance \in Nat /\ rows[b].locked \in Nat /\ owed[b] \in Int
        /\ task.balance \in Nat /\ task.locked \in Nat
    BY <1>1 DEF TypeInv, RowsTyped, TableTyped, Row, Joining
  <2>1. ASSUME a \notin stale' \cup torn' PROVE Owes(a)'
    <3>1. Owes(a)
      BY <2>1, <1>1, <1>5 DEF MoneyInv, OwedInv
    <3>2. CASE task.op = "lock"
      <4>1. task.balance = rows[a].balance
        <5>1. RowFor("lobby", a) = rows[a]
          BY <1>2 DEF RowFor
        <5>2. QED
          BY <5>1, <2>1, <3>2, <1>0, <1>1 DEF LockBalance
      <4>2. Brings(a) = 0 /\ Brings(a)' = task.amount
        BY <3>2, <1>0, <1>9 DEF Brings
      <4>3. QED
        BY <4>1, <4>2, <3>1, <3>2, <2>0, <1>1, <1>5, <1>r DEF Owes
    <3>3. CASE task.op = "lock2"
      <4>1. Brings(a) = task.amount /\ Brings(a)' = 0
        BY <3>3, <1>0, <1>8, IdleOp DEF Brings
      <4>2. QED
        BY <4>1, <3>1, <3>3, <2>0, <1>1, <1>5, <1>10, <1>r DEF Owes
    <3>4. QED
      BY <1>1, <3>2, <3>3
  <2>2. ASSUME NEW b \in Accounts \ (stale' \cup torn'), b # a PROVE Owes(b)'
    <3>1. Owes(b) /\ rows'[b] = rows[b]
      BY <2>2, <1>5 DEF MoneyInv, OwedInv
    <3>2. Brings(b) = 0 /\ Brings(b)' = 0
      BY <2>2, <1>0, <1>1, <1>8, <1>9, IdleOp DEF Brings
    <3>3. QED
      BY <3>1, <3>2, <1>5 DEF Owes
  <2>3. QED
    BY <2>1, <2>2 DEF OwedInv
<1>13. QED
  BY <1>6, <1>7, <1>11, <1>12 DEF MoneyInv
-----------------------------------------------------------------------------
\* The event loop's task ends and has written nothing, or nothing that stays:
\* what the account owns is uncertain only if it was half way.
LEMMA GivingUpMoney ==
  ASSUME CreditInv, TypeInv, MoneyInv, LockFails \/ NothingLocked \/ UnlockFails,
         UNCHANGED depositVars
  PROVE  MoneyInv' /\ IdentityKept
<1> USE DEF depositVars
<1>1. /\ UNCHANGED <<rows, owed, stale, service>> /\ task' = Idle
      /\ torn' = torn \cup {task.account}
  BY DEF LockFails, NothingLocked, UnlockFails, RollbackOn, dbVars
<1>2. open'["lobby"] = open["lobby"] \/ open'["lobby"] = NoTransaction
  BY EndTransaction DEF LockFails, NothingLocked, UnlockFails, dbVars, CreditInv, Connections
<1>3. open'["service"] = open["service"]
  BY EndTransaction DEF LockFails, NothingLocked, UnlockFails, dbVars, CreditInv, Connections
<1>4. LobbyWrote' /\ LockedAsRead' /\ RowLocks'
  BY <1>1, <1>2, <1>3, IdleOp, NoRowsInNoTransaction
     DEF MoneyInv, LobbyWrote, LockedAsRead, RowLocks, Paying
<1>5. IdentityKept /\ ServiceWrote' /\ Known'
  BY <1>1, <1>3, RowsSame, ServiceSide, KnownKept
<1>6. OwedInv'
  <2>1. \A a \in Accounts \ torn' : Brings(a)' = Brings(a)
    BY <1>1, IdleOp DEF Brings
  <2>2. QED
    BY <2>1, <1>1, RowsSame, OwedKept
<1>7. QED
  BY <1>4, <1>5, <1>6 DEF MoneyInv

LEMMA RemoveLockedMoney ==
  ASSUME CreditInv, TypeInv, MoneyInv, RemoveLocked, UNCHANGED depositVars
  PROVE  MoneyInv' /\ IdentityKept
<1> USE DEF depositVars
<1>0. PICK a \in Accounts : a = task.account
  BY TaskByOp DEF RemoveLocked, Doing
<1>1. /\ task.op = "unlock" /\ task \in Unjoining /\ task.locked >= Leaver.entrance
      /\ a \notin DOMAIN open["service"].rows
      /\ UNCHANGED <<rows, players, owed, stale, torn, service>>
  BY <1>0, TaskByOp DEF RemoveLocked, Doing, Unlocked, Connections, ghosts
<1> DEFINE row == [rows[a] EXCEPT !.locked = task.locked - Leaver.entrance]
<1>2. /\ SameIdentity(row, rows[a]) /\ row.height = rows[a].height
      /\ row.balance = rows[a].balance /\ row.locked = task.locked - Leaver.entrance
  BY DEF TypeInv, RowsTyped, Row, SameIdentity
<1>3. open'["lobby"].rows = Only(a, row) /\ open'["service"] = open["service"]
  BY <1>0 DEF RemoveLocked, CreditInv, OpenTyped, Connections
<1> HIDE DEF row
<1>4. DOMAIN open'["lobby"].rows = {a} /\ open'["lobby"].rows[a] = row
  BY <1>3 DEF Only
<1>5. /\ task'.op = "pay" /\ task'.account = a /\ task'.place = task.place
      /\ task'.locked = task.locked
  BY <1>0, <1>1 DEF RemoveLocked, Unjoining
<1>6. task.locked = rows[a].locked
  BY <1>0, <1>1, IdleOp DEF MoneyInv, LockedAsRead
<1>7. LobbyWrote' /\ LockedAsRead' /\ RowLocks'
  BY <1>1, <1>2, <1>3, <1>4, <1>5, <1>6 DEF LobbyWrote, LockedAsRead, RowLocks, Leaver, Paying
<1>8. IdentityKept /\ ServiceWrote' /\ Known'
  BY <1>1, <1>3, RowsSame, ServiceSide, KnownKept
<1>9. OwedInv'
  <2>1. \A b \in Accounts : Brings(b)' = Brings(b)
    BY <1>1, <1>5 DEF Brings
  <2>2. QED
    BY <2>1, <1>1, RowsSame, OwedKept
<1>10. QED
  BY <1>7, <1>8, <1>9 DEF MoneyInv

LEMMA AddBalanceMoney ==
  ASSUME CreditInv, TypeInv, MoneyInv, AddBalance, UNCHANGED depositVars
  PROVE  MoneyInv' /\ IdentityKept
<1> USE DEF depositVars
<1>0. PICK a \in Accounts : a = task.account
  BY TaskByOp DEF AddBalance, Doing
<1>1. /\ task.op = "pay" /\ task \in Unjoining
      /\ UNCHANGED <<players, owed, torn, service>>
  BY TaskByOp DEF AddBalance, Doing
<1> DEFINE old == open["lobby"].rows[a]
           row == [old EXCEPT !.balance = task.balance + Leaver.chips]
<1>2. /\ OpenTyped /\ RowsTyped /\ "lobby" \in Connections /\ "service" \in Connections \ {"lobby"}
      /\ open["lobby"].on /\ DOMAIN open["lobby"].rows = {a} /\ old \in Row
  BY <1>0, <1>1, TaskCases
     DEF CreditInv, TypeInv, RowsTyped, Connections, Paying, MoneyInv, LobbyWrote
<1>3. /\ SameIdentity(old, rows[a]) /\ old.height = rows[a].height
      /\ old.locked = rows[a].locked - Leaver.entrance /\ task.locked >= Leaver.entrance
      /\ a \in stale \/ old.balance = rows[a].balance
  BY <1>0, <1>1 DEF MoneyInv, LobbyWrote, Paying
<1>4. RowFor("lobby", a) = old
  BY <1>2 DEF RowFor
<1>5. UpdateRow("lobby", a, row) /\ stale' = IF old.balance # task.balance THEN stale \cup {a} ELSE stale
  BY <1>0, <1>4 DEF AddBalance
<1>6. /\ SameIdentity(row, rows[a]) /\ row.height = rows[a].height
      /\ row.locked = rows[a].locked - Leaver.entrance
      /\ row.balance = task.balance + Leaver.chips
  BY <1>2, <1>3 DEF Row, SameIdentity
<1> HIDE DEF row, old
<1>7. /\ UNCHANGED rows /\ open'["service"] = open["service"]
      /\ DOMAIN open'["lobby"].rows = {a} /\ open'["lobby"].rows[a] = row
  BY <1>2, <1>5, UpdateRowFacts
<1>8. /\ task'.op = "commit" /\ task'.account = a /\ task'.place = task.place
      /\ task'.locked = task.locked
  BY <1>0, <1>1 DEF AddBalance, Unjoining
<1>9. a \in stale' \/ row.balance = rows[a].balance + Leaver.chips
  BY <1>3, <1>5, <1>6
<1>10. Leaver' = Leaver
  BY <1>1, <1>8 DEF Leaver
<1>11. LobbyWrote'
  BY <1>3, <1>6, <1>7, <1>8, <1>9, <1>10 DEF LobbyWrote
<1>12. LockedAsRead' /\ RowLocks'
  BY <1>0, <1>1, <1>2, <1>7, <1>8, IdleOp DEF MoneyInv, LockedAsRead, RowLocks
<1>13. IdentityKept /\ ServiceWrote' /\ Known'
  BY <1>1, <1>5, <1>7, RowsSame, ServiceSide, KnownKept
<1>14. OwedInv'
  <2>1. \A b \in Accounts : Brings(b)' = Brings(b)
    BY <1>1, <1>8 DEF Brings
  <2>2. QED
    BY <2>1, <1>1, <1>5, <1>7, RowsSame, OwedKept
<1>15. QED
  BY <1>11, <1>12, <1>13, <1>14 DEF MoneyInv

LEMMA CommitUnjoinMoney ==
  ASSUME CreditInv, TypeInv, MoneyInv, CommitUnjoin, UNCHANGED depositVars
  PROVE  MoneyInv' /\ IdentityKept
<1> USE DEF depositVars
<1>0. PICK a \in Accounts : a = task.account
  BY TaskByOp DEF CommitUnjoin, Doing
<1>1. /\ task.op = "commit" /\ task' = Idle
      /\ Leaver.chips \in Nat /\ Leaver.entrance \in Nat
      /\ UNCHANGED <<stale, torn, service>>
      /\ owed' = [owed EXCEPT ![a] = owed[a] + Leaver.chips - Leaver.entrance]
  BY <1>0, TaskByOp DEF CommitUnjoin, Doing
<1> DEFINE row == open["lobby"].rows[a]
<1>2. /\ OpenTyped /\ RowsTyped /\ "lobby" \in Connections /\ "service" \in Connections \ {"lobby"}
      /\ DOMAIN open["lobby"].rows = {a}
  BY <1>0, <1>1 DEF CreditInv, TypeInv, Connections, Paying, MoneyInv, LobbyWrote
<1>3. /\ SameIdentity(row, rows[a]) /\ row.locked = rows[a].locked - Leaver.entrance
      /\ a \in stale \/ row.balance = rows[a].balance + Leaver.chips
  BY <1>0, <1>1 DEF MoneyInv, LobbyWrote, Paying
<1> HIDE DEF row
<1>4. /\ open'["lobby"] = NoTransaction /\ open'["service"] = open["service"]
      /\ \A b \in Accounts : rows'[b] = IF b = a THEN row ELSE rows[b]
  BY <1>2, CommitFacts DEF CommitUnjoin, row
<1>5. IdentityKept
  BY <1>3, <1>4 DEF IdentityKept, SameIdentity
<1>6. LobbyWrote' /\ LockedAsRead' /\ RowLocks'
  BY <1>1, <1>4, IdleOp, NoRowsInNoTransaction DEF LobbyWrote, LockedAsRead, RowLocks, Paying
<1>7. ServiceWrote' /\ Known'
  <2>1. \A b \in DOMAIN open["service"].rows : b \in Accounts \ {a}
    BY <1>2 DEF RowsTyped, MoneyInv, RowLocks
  <2>2. QED
    BY <2>1, <1>1, <1>4, <1>5, ServiceSide, KnownKept
<1>8. OwedInv'
  <2>1. /\ \A b \in Accounts : rows[b].balance \in Nat /\ rows[b].locked \in Nat
        /\ owed \in [Accounts -> Int]
    BY DEF TypeInv, RowsTyped, TableTyped, Row
  <2>2. ASSUME NEW b \in Accounts \ (stale' \cup torn') PROVE Owes(b)'
    <3>1. Owes(b) /\ Brings(b) = 0 /\ Brings(b)' = 0
      BY <1>1, IdleOp DEF MoneyInv, OwedInv, Brings
    <3>2. CASE b = a
      BY <3>1, <3>2, <2>1, <1>1, <1>3, <1>4 DEF Owes
    <3>3. CASE b # a
      BY <3>1, <3>3, <2>1, <1>1, <1>4 DEF Owes
    <3>4. QED
      BY <3>2, <3>3
  <2>3. QED
    BY <2>2 DEF OwedInv
<1>9. QED
  BY <1>5, <1>6, <1>7, <1>8 DEF MoneyInv

LEMMA LobbyMoney ==
  ASSUME CreditInv, TypeInv, MoneyInv, LobbyStep PROVE MoneyInv' /\ IdentityKept
BY SignUpMoney, FetchMoney, LockMoney, GivingUpMoney, RemoveLockedMoney, AddBalanceMoney,
   CommitUnjoinMoney DEF LobbyStep, LobbyNext
-----------------------------------------------------------------------------
LEMMA OnlyServiceKeeps ==
  ASSUME OnlyService
  PROVE  /\ UNCHANGED <<task, players, owed, stale, torn>>
         /\ \A a \in Accounts : Brings(a)' = Brings(a)
BY DEF OnlyService, accountVars, lobbyVars, ghosts, Brings

\* The deposit thread polls, lists, looks and begins without writing a row.
LEMMA ReadingMoney ==
  ASSUME CreditInv, TypeInv, MoneyInv,
         \/ Poll(tip) \/ Poll(0) \/ Sleep \/ Record
         \/ \E a \in Accounts : NextAccount(a)
         \/ \E t \in Txs : SkipTx(t) \/ \E confirmed \in BOOLEAN : BeginTx(t, confirmed)
  PROVE  MoneyInv' /\ IdentityKept
<1>1. OnlyService /\ UNCHANGED rows
  BY DEF Poll, Sleep, Record, NextAccount, SkipTx, BeginTx, dbVars
<1>2. open'["lobby"] = open["lobby"] /\ open'["service"].rows = open["service"].rows
  <2>1. CASE UNCHANGED open
    BY <2>1
  <2>2. CASE Record
    BY <2>2 DEF Record, WriteRecord, CreditInv, OpenTyped, Connections
  <2>3. ASSUME NEW t \in Txs, NEW confirmed \in BOOLEAN, BeginTx(t, confirmed)
        PROVE  open'["lobby"] = open["lobby"] /\ open'["service"].rows = open["service"].rows
    BY <2>3 DEF BeginTx, CreditInv, OpenTyped, Connections
  <2>4. QED
    BY <2>1, <2>2, <2>3 DEF Poll, Sleep, NextAccount, SkipTx, dbVars
<1>3. IdentityKept /\ LobbyWrote' /\ LockedAsRead' /\ RowLocks'
  <2>1. \A a \in DOMAIN open["lobby"].rows : rows'[a] = rows[a]
    BY <1>1
  <2>2. QED
    BY <2>1, <1>1, <1>2, OnlyServiceKeeps, RowsSame, LobbySide DEF MoneyInv, RowLocks
<1>4. OwedInv'
  BY <1>1, OnlyServiceKeeps, RowsSame, OwedKept
<1>5. ServiceWrote' /\ Known'
  <2>1. CASE Poll(tip) \/ Poll(0)
    <3>1. /\ service.pc = "sleep" /\ service'.pc = "next"
          /\ service'.todo = [a \in {b \in Accounts : rows[b].exists} |-> rows[a]]
      BY <2>1 DEF Poll, At
    <3>2. QED
      BY <3>1, <1>1, <1>2 DEF MoneyInv, ServiceWrote, Known, Wrote
  <2>2. CASE Sleep
    BY <2>2, <1>1, <1>2 DEF Sleep, Asleep, At, MoneyInv, ServiceWrote, Known, Wrote
  <2>3. ASSUME NEW a \in Accounts, NextAccount(a) PROVE ServiceWrote' /\ Known'
    <3>1. /\ service.pc = "next" /\ service'.todo = Others(a) /\ a \in DOMAIN service.todo
          /\ service'.pc = "next" \/ (service'.pc = "txs" /\ service'.account = a)
      BY <2>3 DEF NextAccount, At
    <3>2. \A b \in DOMAIN Others(a) : b \in DOMAIN service.todo
      BY DEF Others
    <3>3. QED
      BY <3>1, <3>2, <1>1, <1>2 DEF MoneyInv, ServiceWrote, Known, Wrote
  <2>4. ASSUME NEW t \in Txs, SkipTx(t) PROVE ServiceWrote' /\ Known'
    <3>1. /\ service.pc = "txs" /\ service'.pc = "txs" /\ service'.todo = service.todo
          /\ service'.account = service.account
      BY <2>4 DEF SkipTx, NextTx, At, Looking
    <3>2. QED
      BY <3>1, <1>1, <1>2 DEF MoneyInv, ServiceWrote, Known, Wrote
  <2>5. ASSUME NEW t \in Txs, NEW confirmed \in BOOLEAN, BeginTx(t, confirmed)
        PROVE  ServiceWrote' /\ Known'
    <3>1. /\ service.pc = "txs" /\ service'.pc = "credit" /\ service'.todo = service.todo
          /\ service'.account = service.account
      BY <2>5 DEF BeginTx, NextTx, At, Handling
    <3>2. QED
      BY <3>1, <1>1, <1>2 DEF MoneyInv, ServiceWrote, Known, Wrote
  <2>6. CASE Record
    <3>1. /\ service.pc = "record" /\ service'.pc = "height" /\ service'.todo = service.todo
          /\ service'.account = service.account /\ UNCHANGED stale
      BY <2>6, OnlyServiceKeeps DEF Record, At, Stage, Handling
    <3>2. QED
      BY <3>1, <1>1, <1>2 DEF MoneyInv, ServiceWrote, Known, Wrote
  <2>7. QED
    BY <2>1, <2>2, <2>3, <2>4, <2>5, <2>6
<1>6. QED
  BY <1>3, <1>4, <1>5 DEF MoneyInv

\* The two updates of the row in the deposit's transaction.
LEMMA StatementMoney ==
  ASSUME CreditInv, TypeInv, MoneyInv, Credit \/ MoveHeight PROVE MoneyInv' /\ IdentityKept
<1>0. PICK a \in Accounts : a = service.account
  BY ServiceParts DEF Credit, MoveHeight, At, InHand
<1>1. \/ service.pc = "credit" /\ Credit /\ service'.pc \in Wrote
      \/ service.pc = "height" /\ MoveHeight /\ service'.pc = "commit"
  BY PlacesOfStages DEF Credit, MoveHeight, At, Stage, Wrote
<1>2. /\ service'.account = service.account /\ service'.todo = service.todo
      /\ UNCHANGED <<task, players, owed, torn>> /\ stale \subseteq stale'
      /\ \A b \in Accounts : Brings(b)' = Brings(b)
  BY <1>1, OnlyServiceKeeps DEF Credit, MoveHeight, Stage, Handling, lobbyVars, Brings
<1>3. /\ OpenTyped /\ RowsTyped /\ "service" \in Connections /\ "lobby" \in Connections \ {"service"}
      /\ open["service"].on
  BY <1>1 DEF CreditInv, TypeInv, Transactions, Connections, InHand
<1> DEFINE old == RowFor("service", a)
<1>4. /\ old \in Row /\ SameIdentity(old, rows[a]) /\ old.locked = rows[a].locked
      /\ service.pc = "credit" => old = rows[a]
      /\ service.pc = "height" => a \in stale \/ old.balance = rows[a].balance + Amount
      /\ DOMAIN open["service"].rows \subseteq {a}
  <2>1. CASE service.pc = "credit"
    <3>1. DOMAIN open["service"].rows = {}
      BY <2>1 DEF MoneyInv, ServiceWrote, Wrote
    <3>2. old = rows[a]
      BY <3>1 DEF RowFor
    <3>3. QED
      BY <3>1, <3>2, <2>1, <1>3 DEF RowsTyped, SameIdentity
  <2>2. CASE service.pc = "height"
    <3>1. DOMAIN open["service"].rows = {a} /\ old = open["service"].rows[a]
      BY <2>2, <1>0 DEF MoneyInv, ServiceWrote, Wrote, RowFor
    <3>2. /\ SameIdentity(old, rows[a]) /\ old.locked = rows[a].locked
          /\ a \in stale \/ old.balance = rows[a].balance + Amount
      BY <3>1, <2>2, <1>0 DEF MoneyInv, ServiceWrote, Wrote
    <3>3. QED
      BY <3>1, <3>2, <2>2, <1>3 DEF RowsTyped
  <2>3. QED
    BY <1>1, <2>1, <2>2
<1>5. PICK row : /\ UpdateRow("service", a, row)
                 /\ SameIdentity(row, rows[a]) /\ row.locked = rows[a].locked
                 /\ a \in stale' \/ row.balance = rows[a].balance + Amount
  <2>1. CASE service.pc = "credit"
    <3>1. /\ UpdateRow("service", a, [old EXCEPT !.balance = service.mem.balance + Amount])
          /\ stale' = IF old.balance # service.mem.balance THEN stale \cup {a} ELSE stale
      BY <2>1, <1>0, <1>1 DEF Credit, Current
    <3> DEFINE row == [old EXCEPT !.balance = service.mem.balance + Amount]
    <3>2. /\ SameIdentity(row, rows[a]) /\ row.locked = rows[a].locked
          /\ row.balance = service.mem.balance + Amount
      BY <1>4 DEF Row, SameIdentity
    <3>3. a \in stale' \/ service.mem.balance = rows[a].balance
      BY <3>1, <1>4, <2>1
    <3> HIDE DEF row
    <3>4. QED
      BY <3>1, <3>2, <3>3 DEF row
  <2>2. CASE service.pc = "height"
    <3> DEFINE row == [old EXCEPT !.height = mined[service.tx].height - 1]
    <3>1. UpdateRow("service", a, row)
      BY <2>2, <1>0, <1>1 DEF MoveHeight, Current
    <3>2. /\ SameIdentity(row, rows[a]) /\ row.locked = rows[a].locked
          /\ row.balance = old.balance
      BY <1>4 DEF Row, SameIdentity
    <3> HIDE DEF row, old
    <3>3. QED
      BY <3>1, <3>2, <1>2, <1>4, <2>2
  <2>3. QED
    BY <1>1, <2>1, <2>2
<1> HIDE DEF old
<1>6. /\ UNCHANGED rows /\ open'["lobby"] = open["lobby"] /\ a \notin DOMAIN open["lobby"].rows
      /\ DOMAIN open'["service"].rows = {a} /\ open'["service"].rows[a] = row
  BY <1>3, <1>4, <1>5, UpdateRowFacts
<1>7. IdentityKept /\ LobbyWrote' /\ LockedAsRead'
  BY <1>2, <1>6, RowsSame, LobbySide
<1>8. RowLocks'
  BY <1>6 DEF RowLocks
<1>9. ServiceWrote' /\ Known'
  <2>1. service'.pc \in Wrote
    BY <1>1 DEF Wrote
  <2>2. ServiceWrote'
    BY <2>1, <1>0, <1>2, <1>5, <1>6 DEF ServiceWrote
  <2>3. Known'
    BY <1>1, <1>2, <1>6 DEF MoneyInv, Known
  <2>4. QED
    BY <2>2, <2>3
<1>10. OwedInv'
  BY <1>2, <1>6, RowsSame, OwedKept
<1>11. QED
  BY <1>7, <1>8, <1>9, <1>10 DEF MoneyInv

LEMMA DepositEndsMoney ==
  ASSUME CreditInv, TypeInv, MoneyInv, Commit \/ DepositFails PROVE MoneyInv' /\ IdentityKept
<1>0. PICK a \in Accounts : a = service.account
  BY ServiceParts DEF Commit, DepositFails, At, InHand
<1>1. /\ service'.pc = "txs" /\ service'.account = service.account /\ service'.todo = service.todo
      /\ UNCHANGED <<task, players, stale, torn>>
      /\ service.pc \notin {"sleep", "next"}
      /\ \A b \in Accounts : Brings(b)' = Brings(b)
  BY DEF Commit, DepositFails, Looking, accountVars, lobbyVars, ghosts, At, Brings
<1>2. /\ OpenTyped /\ RowsTyped /\ "service" \in Connections /\ "lobby" \in Connections \ {"service"}
  BY DEF CreditInv, TypeInv, Connections
<1>3. /\ open'["service"] = NoTransaction /\ open'["lobby"] = open["lobby"]
  BY <1>2, EndTransaction DEF Commit, DepositFails
<1>4. CASE DepositFails
  <2>1. UNCHANGED <<rows, owed>>
    BY <1>4 DEF DepositFails, RollbackOn, accountVars, ghosts
  <2>2. IdentityKept /\ LobbyWrote' /\ LockedAsRead'
    BY <2>1, <1>1, <1>3, RowsSame, LobbySide
  <2>3. RowLocks' /\ ServiceWrote' /\ Known'
    BY <2>1, <1>1, <1>3, NoRowsInNoTransaction DEF MoneyInv, RowLocks, ServiceWrote, Known, Wrote
  <2>4. OwedInv'
    BY <2>1, <1>1, RowsSame, OwedKept
  <2>5. QED
    BY <2>2, <2>3, <2>4 DEF MoneyInv
<1>5. CASE Commit
  <2> DEFINE row == open["service"].rows[a]
  <2>1. /\ DOMAIN open["service"].rows = {a}
        /\ SameIdentity(row, rows[a]) /\ row.locked = rows[a].locked
        /\ a \in stale \/ row.balance = rows[a].balance + Amount
    BY <1>0, <1>5 DEF Commit, At, MoneyInv, ServiceWrote, Wrote
  <2> HIDE DEF row
  <2>2. \A b \in Accounts : rows'[b] = IF b = a THEN row ELSE rows[b]
    BY <2>1, <1>2, <1>5, CommitFacts DEF Commit, row
  <2>3. owed' = [owed EXCEPT ![a] = owed[a] + Amount]
    BY <1>0, <1>5 DEF Commit, Current
  <2>4. IdentityKept
    BY <2>1, <2>2 DEF IdentityKept, SameIdentity
  <2>5. LobbyWrote' /\ LockedAsRead'
    <3>1. \A b \in Accounts : rows'[b].locked = rows[b].locked
      BY <2>1, <2>2
    <3>2. \A b \in DOMAIN open["lobby"].rows : b \in Accounts \ {a}
      BY <2>1, <1>2 DEF RowsTyped, MoneyInv, RowLocks
    <3>3. QED
      BY <3>1, <3>2, <2>2, <1>1, <1>3, LobbySide
  <2>6. RowLocks' /\ ServiceWrote'
    BY <1>1, <1>3, NoRowsInNoTransaction DEF RowLocks, ServiceWrote, Wrote
  <2>7. Known'
    BY <1>0, <1>1, <2>4, ServiceParts DEF MoneyInv, Known, IdentityKept, SameIdentity
  <2>8. OwedInv'
    <3>1. /\ \A b \in Accounts : rows[b].balance \in Nat /\ rows[b].locked \in Nat
          /\ owed \in [Accounts -> Int]
          /\ \A b \in Accounts : Brings(b) \in Nat
      BY TaskByOp DEF TypeInv, RowsTyped, TableTyped, Row, Brings
    <3>2. ASSUME NEW b \in Accounts \ (stale' \cup torn') PROVE Owes(b)'
      <4>1. Owes(b) /\ Brings(b)' = Brings(b) /\ Brings(b) \in Nat
        BY <3>1, <1>1 DEF MoneyInv, OwedInv
      <4>2. CASE b = a
        BY <4>1, <4>2, <3>1, <2>1, <2>2, <2>3, <1>1, DepositsAssumption DEF Owes
      <4>3. CASE b # a
        BY <4>1, <4>3, <3>1, <2>2, <2>3 DEF Owes
      <4>4. QED
        BY <4>2, <4>3
    <3>3. QED
      BY <3>2 DEF OwedInv
  <2>9. QED
    BY <2>4, <2>5, <2>6, <2>7, <2>8 DEF MoneyInv
<1>6. QED
  BY <1>4, <1>5

LEMMA FinishAccountMoney ==
  ASSUME CreditInv, TypeInv, MoneyInv, FinishAccount PROVE MoneyInv' /\ IdentityKept
<1>0. PICK a \in Accounts : a = service.account
  BY ServiceParts DEF FinishAccount, At
<1>1. /\ OnlyService /\ service.pc = "txs" /\ service'.pc = "next" /\ service'.todo = service.todo
  BY DEF FinishAccount, At
<1>2. /\ OpenTyped /\ RowsTyped /\ "service" \in Connections /\ "lobby" \in Connections \ {"service"}
      /\ ~open["service"].on
  BY <1>1 DEF CreditInv, TypeInv, Transactions, Connections, InHand
<1>3. /\ UNCHANGED open
      /\ \A b \in Accounts \ {a} : rows'[b] = rows[b]
      /\ rows'[a] = rows[a] \/ /\ a \notin DOMAIN open["lobby"].rows
                               /\ SameIdentity(rows'[a], rows[a])
                               /\ rows'[a].balance = rows[a].balance
                               /\ rows'[a].locked = rows[a].locked
  <2>1. CASE UNCHANGED <<rows, open>>
    BY <2>1
  <2>2. CASE UpdateRow("service", Current, [rows[Current] EXCEPT !.height = service.height - 1])
    <3> DEFINE row == [rows[a] EXCEPT !.height = service.height - 1]
    <3>1. /\ SameIdentity(row, rows[a]) /\ row.balance = rows[a].balance
          /\ row.locked = rows[a].locked
      BY DEF TypeInv, RowsTyped, Row, SameIdentity
    <3>2. UpdateRow("service", a, row)
      BY <2>2, <1>0 DEF Current
    <3> HIDE DEF row
    <3>3. /\ UNCHANGED open /\ rows' = [rows EXCEPT ![a] = row]
          /\ a \notin DOMAIN open["lobby"].rows
      BY <3>2, <1>2, UpdateRowFacts
    <3>4. QED
      BY <3>1, <3>3, <1>2 DEF RowsTyped
  <2>3. QED
    BY <2>1, <2>2 DEF FinishAccount
<1>4. IdentityKept /\ \A b \in Accounts : /\ rows'[b].balance = rows[b].balance
                                         /\ rows'[b].locked = rows[b].locked
  BY <1>3 DEF IdentityKept, SameIdentity
<1>5. LobbyWrote' /\ LockedAsRead'
  <2>1. \A b \in DOMAIN open["lobby"].rows : rows'[b] = rows[b]
    BY <1>2, <1>3 DEF RowsTyped
  <2>2. QED
    BY <2>1, <1>1, <1>3, <1>4, OnlyServiceKeeps, LobbySide
<1>6. RowLocks' /\ ServiceWrote'
  BY <1>1, <1>3 DEF MoneyInv, RowLocks, ServiceWrote, Wrote
<1>7. Known'
  <2>1. \A b \in DOMAIN service.todo : b \in Accounts /\ rows[b].exists
    BY <1>1, ServiceParts DEF MoneyInv, Known
  <2>2. QED
    BY <2>1, <1>1, <1>4 DEF Known, IdentityKept, SameIdentity
<1>8. OwedInv'
  BY <1>1, <1>4, OnlyServiceKeeps, OwedKept
<1>9. QED
  BY <1>4, <1>5, <1>6, <1>7, <1>8 DEF MoneyInv
-----------------------------------------------------------------------------
LEMMA CrashMoney ==
  ASSUME CreditInv, TypeInv, MoneyInv, Crash PROVE MoneyInv' /\ IdentityKept
<1>1. /\ UNCHANGED <<rows, owed, stale>> /\ task' = Idle /\ service' = Asleep
      /\ torn' = IF task.op = "lock2" THEN torn \cup {task.account} ELSE torn
      /\ DOMAIN open'["lobby"].rows = {} /\ DOMAIN open'["service"].rows = {}
  BY NoRowsInNoTransaction DEF Crash, LobbyDies, Connections
<1>2. LobbyWrote' /\ ServiceWrote' /\ RowLocks' /\ LockedAsRead' /\ Known'
  BY <1>1, IdleOp DEF LobbyWrote, ServiceWrote, RowLocks, LockedAsRead, Known, Paying, Wrote, Asleep
<1>3. OwedInv'
  <2>1. \A a \in Accounts \ torn' : Brings(a)' = Brings(a)
    BY <1>1, IdleOp DEF Brings
  <2>2. QED
    BY <2>1, <1>1, RowsSame, OwedKept
<1>4. QED
  BY <1>1, <1>2, <1>3, RowsSame DEF MoneyInv

LEMMA RestartMoney ==
  ASSUME CreditInv, TypeInv, MoneyInv, Restart PROVE MoneyInv' /\ IdentityKept
<1> USE DEF depositVars
<1>1. /\ UNCHANGED <<open, task, players, owed, stale, torn, service>>
      /\ task = Idle /\ service = Asleep
      /\ DOMAIN open["lobby"].rows = {} /\ DOMAIN open["service"].rows = {}
  <2>1. UNCHANGED <<open, task, players, owed, stale, torn, service>>
    BY DEF Restart, RevertLocked, lobbyVars, ghosts
  <2>2. task = Idle /\ service = Asleep
    BY DEF Restart, RevertLocked, TypeInv, Transactions
  <2>3. ~open["lobby"].on /\ ~open["service"].on
    BY <2>2, IdleOp DEF TypeInv, Transactions, Asleep, InHand
  <2>4. QED
    BY <2>1, <2>2, <2>3, TaskCases
<1>2. \A a \in Accounts : /\ SameIdentity(rows'[a], rows[a])
                          /\ rows'[a].balance + rows'[a].locked = rows[a].balance + rows[a].locked
  <2>1. ASSUME NEW a \in Accounts
        PROVE  /\ SameIdentity(rows'[a], rows[a])
               /\ rows'[a].balance + rows'[a].locked = rows[a].balance + rows[a].locked
    <3>1. rows[a] \in Row
      BY DEF TypeInv, RowsTyped
    <3>2. CASE rows[a].locked > 0
      <4>1. rows'[a] = [rows[a] EXCEPT !.balance = rows[a].balance + rows[a].locked, !.locked = 0]
        BY <3>2 DEF Restart, RevertLocked
      <4>2. /\ rows'[a].balance = rows[a].balance + rows[a].locked /\ rows'[a].locked = 0
            /\ SameIdentity(rows'[a], rows[a])
        BY <3>1, <4>1 DEF Row, SameIdentity
      <4>3. QED
        BY <3>1, <4>2 DEF Row
    <3>3. CASE ~(rows[a].locked > 0)
      BY <3>3 DEF Restart, RevertLocked, SameIdentity
    <3>4. QED
      BY <3>2, <3>3
  <2>2. QED
    BY <2>1
<1>3. IdentityKept
  BY <1>2 DEF IdentityKept
<1>4. LobbyWrote' /\ ServiceWrote' /\ RowLocks' /\ LockedAsRead' /\ Known'
  BY <1>1, IdleOp DEF LobbyWrote, ServiceWrote, RowLocks, LockedAsRead, Known, Paying, Wrote, Asleep
<1>5. OwedInv'
  BY <1>1, <1>2, IdleOp DEF MoneyInv, OwedInv, Owes, Brings
<1>6. QED
  BY <1>3, <1>4, <1>5 DEF MoneyInv

LEMMA StillMoney ==
  ASSUME CreditInv, TypeInv, MoneyInv, UNCHANGED <<dbVars, accountVars, service>>
  PROVE  MoneyInv' /\ IdentityKept
<1>1. UNCHANGED <<rows, open, task, players, owed, stale, torn, service>>
  BY DEF dbVars, accountVars, lobbyVars, ghosts
<1>2. IdentityKept /\ LobbyWrote' /\ LockedAsRead' /\ ServiceWrote' /\ Known'
  BY <1>1, RowsSame, LobbySide, ServiceSide, KnownKept
<1>3. RowLocks' /\ OwedInv'
  BY <1>1, RowsSame, OwedKept DEF MoneyInv, RowLocks, Brings
<1>4. QED
  BY <1>2, <1>3 DEF MoneyInv

LEMMA StepMoney ==
  CreditInv /\ TypeInv /\ MoneyInv /\ [Next]_vars => MoneyInv' /\ IdentityKept
<1> SUFFICES ASSUME CreditInv, TypeInv, MoneyInv, [Next]_vars PROVE MoneyInv' /\ IdentityKept
  OBVIOUS
<1>1. CASE LobbyStep
  BY <1>1, LobbyMoney
<1>2. CASE ServiceStep
  BY <1>2, ReadingMoney, StatementMoney, DepositEndsMoney, FinishAccountMoney DEF ServiceStep
<1>3. CASE Crash \/ Restart
  BY <1>3, CrashMoney, RestartMoney
<1>4. CASE (\E block \in SUBSET {t \in Txs : ~IsMined(t)} : Mine(block)) \/ UNCHANGED vars
  BY <1>4, StillMoney DEF Mine, vars, depositVars
<1>5. QED
  BY <1>1, <1>2, <1>3, <1>4 DEF Next

\* No money is made or lost by joins, unjoins, deposits, crashes and the
\* reversion in any order, but through the two ways that are named: a balance
\* computed from an outdated read (account.c:258) and a transfer that failed
\* or was cut off half way.
THEOREM OwedMoneyIsThere == Spec => []OwedIsOwned
<1>1. Init => CreditInv /\ TypeInv /\ MoneyInv
  BY InitCredit, InitTyped, InitMoney
<1>2. CreditInv /\ TypeInv /\ MoneyInv /\ [Next]_vars => (CreditInv /\ TypeInv /\ MoneyInv)'
  BY StepKeepsCredit, StepTyped, StepMoney
<1>3. TypeInv /\ MoneyInv => OwedIsOwned
  BY IdleOp DEF MoneyInv, OwedInv, Owes, Brings, OwedIsOwned, AtRest, TypeInv, RowsTyped, Row
<1>4. QED
  BY <1>1, <1>2, <1>3, PTL DEF Spec
-----------------------------------------------------------------------------
\* No transaction below an account's height is left.  A transaction is handled
\* when it is recorded or given up.
Handled(t) == records[t] # "none" \/ t \in abandoned

Passed(address, height) ==
  \A t \in Txs : IsMined(t) /\ mined[t].to = address /\ mined[t].height <= height => Handled(t)

SoundRow(r) == r.height < tip /\ (r.index = r.address => Passed(r.address, r.height))
CopyOf(r, a) == rows[a].exists /\ SameIdentity(r, rows[a])

RowsSound == \A a \in Accounts : SoundRow(rows[a])
MinedBelow == \A t \in Txs : IsMined(t) => mined[t].height < tip

Working == service.pc \in {"txs"} \cup InHand
ToDo == service.txs \cup (IF service.pc \in InHand THEN {service.tx} ELSE {})

CopiesSound ==
  /\ service.pc # "sleep" =>
       /\ service.height <= tip
       /\ \A a \in DOMAIN service.todo : CopyOf(service.todo[a], a) /\ SoundRow(service.todo[a])
  /\ Working => CopyOf(service.mem, service.account) /\ SoundRow(service.mem)

\* When the wallet listed the account's transactions, the chain was as high as
\* the limit; of those below it, what is not still to do is handled.
ListSound ==
  Working =>
    \E limit \in service.height .. tip :
      /\ \A t \in ToDo : mined[t].height < limit
      /\ \A t \in Txs \ ToDo : /\ IsMined(t) /\ mined[t].height < limit
                               /\ mined[t].to = service.mem.address
                               /\ service.mem.index = service.mem.address
                               => Handled(t)

OrderSound == service.pc \in InHand =>
                \A t \in service.txs : mined[service.tx].height <= mined[t].height

WrittenSound == service.pc = "commit" => SoundRow(open["service"].rows[service.account])

HeightInv == RowsSound /\ MinedBelow /\ CopiesSound /\ ListSound /\ OrderSound /\ WrittenSound

\* A row that is sound after the step.
SoundThen(r) ==
  /\ r.height < tip'
  /\ r.index = r.address =>
       \A t \in Txs : /\ mined'[t] # NotMined /\ mined'[t].to = r.address
                      /\ mined'[t].height <= r.height
                      => records'[t] # "none" \/ t \in abandoned'

\* What is handled stays handled, and new blocks come on top.
Onwards ==
  /\ \A t \in Txs : Handled(t) => records'[t] # "none" \/ t \in abandoned'
  /\ tip' \in Nat /\ tip <= tip'
  /\ \A t \in Txs : IsMined(t) => mined'[t] = mined[t]
  /\ \A t \in Txs : ~IsMined(t) /\ mined'[t] # NotMined => mined'[t].height = tip /\ tip' = tip + 1
-----------------------------------------------------------------------------
LEMMA InitHeight == Init => HeightInv
<1> SUFFICES ASSUME Init PROVE HeightInv
  OBVIOUS
<1> USE DEF Init, AccountsInit, DatabaseInit
<1>1. \A t \in Txs : ~IsMined(t)
  BY DEF IsMined
<1>2. RowsSound /\ MinedBelow
  BY <1>1 DEF RowsSound, MinedBelow, SoundRow, Passed, NoRow
<1>3. CopiesSound /\ ListSound /\ OrderSound /\ WrittenSound
  BY DEF CopiesSound, ListSound, OrderSound, WrittenSound, Working, Asleep, InHand
<1>4. QED
  BY <1>2, <1>3 DEF HeightInv

LEMMA SoundStays ==
  ASSUME TypeInv, Onwards, NEW r, r.height \in Nat, SoundRow(r) PROVE SoundThen(r)
<1>1. tip \in Nat /\ tip' \in Nat /\ tip <= tip'
  BY DEF TypeInv, ChainTyped, Onwards
<1>2. ASSUME NEW t \in Txs, r.index = r.address, mined'[t] # NotMined, mined'[t].to = r.address,
             mined'[t].height <= r.height
      PROVE  records'[t] # "none" \/ t \in abandoned'
  <2>1. CASE IsMined(t)
    BY <2>1, <1>2 DEF Onwards, SoundRow, Passed
  <2>2. CASE ~IsMined(t)
    BY <2>2, <1>1, <1>2 DEF Onwards, SoundRow
  <2>3. QED
    BY <2>1, <2>2
<1>3. r.height < tip'
  BY <1>1 DEF SoundRow
<1>4. QED
  BY <1>2, <1>3 DEF SoundThen

\* Soundness is about a row's addresses and height only.
LEMMA SoundAlike ==
  ASSUME NEW r, NEW q, SameIdentity(q, r), q.height = r.height, SoundThen(r) PROVE SoundThen(q)
BY DEF SameIdentity, SoundThen

LEMMA SoundFromNought ==
  ASSUME TypeInv, Onwards, NEW r, r.height = 0 PROVE SoundThen(r)
<1>1. ASSUME NEW t \in Txs, mined'[t] # NotMined PROVE mined'[t].height >= 1
  BY <1>1 DEF TypeInv, ChainTyped, Onwards, IsMined
<1>2. tip' \in Nat /\ 0 < tip'
  BY DEF TypeInv, ChainTyped, Onwards
<1>3. ASSUME NEW t \in Txs, mined'[t] # NotMined, mined'[t].height <= r.height PROVE FALSE
  <2>1. CASE IsMined(t)
    BY <2>1, <1>1, <1>3 DEF TypeInv, ChainTyped, Onwards
  <2>2. CASE ~IsMined(t)
    BY <2>2, <1>3 DEF TypeInv, ChainTyped, Onwards
  <2>3. QED
    BY <2>1, <2>2
<1>4. QED
  BY <1>2, <1>3 DEF SoundThen

LEMMA RowsSoundThen ==
  ASSUME \A a \in Accounts : SoundThen(rows'[a]) PROVE RowsSound'
BY DEF RowsSound, SoundRow, SoundThen, Passed, Handled, IsMined

\* A step that leaves every row's height, or makes the row.
HeightsKept == \A a \in Accounts : \/ rows'[a].height = 0
                                   \/ /\ SameIdentity(rows'[a], rows[a])
                                      /\ rows'[a].height = rows[a].height

LEMMA RowsStaySound ==
  ASSUME TypeInv, HeightInv, Onwards, HeightsKept PROVE RowsSound'
<1>1. ASSUME NEW a \in Accounts PROVE SoundThen(rows'[a])
  <2>1. SoundThen(rows[a])
    <3>1. SoundRow(rows[a]) /\ rows[a].height \in Nat
      BY DEF HeightInv, RowsSound, TypeInv, RowsTyped, Row
    <3>2. QED
      BY <3>1, SoundStays
  <2>2. CASE rows'[a].height = 0
    BY <2>2, SoundFromNought
  <2>3. CASE SameIdentity(rows'[a], rows[a]) /\ rows'[a].height = rows[a].height
    BY <2>1, <2>3, SoundAlike
  <2>4. QED
    BY <2>2, <2>3 DEF HeightsKept
<1>2. QED
  BY <1>1, RowsSoundThen

LEMMA MinedStaysBelow ==
  ASSUME TypeInv, HeightInv, Onwards PROVE MinedBelow'
<1>1. ASSUME NEW t \in Txs, mined'[t] # NotMined PROVE mined'[t].height < tip'
  BY <1>1 DEF TypeInv, ChainTyped, HeightInv, MinedBelow, Onwards
<1>2. QED
  BY <1>1 DEF MinedBelow, IsMined
-----------------------------------------------------------------------------
CopyThen(r, a) == rows'[a].exists /\ SameIdentity(r, rows'[a])

LEMMA CopyStays ==
  ASSUME IdentityKept, NEW a \in Accounts, NEW r, CopyOf(r, a) PROVE CopyThen(r, a)
BY DEF IdentityKept, CopyOf, CopyThen, SameIdentity

LEMMA CopiesThen ==
  ASSUME service'.pc # "sleep" =>
           /\ service'.height <= tip'
           /\ \A a \in DOMAIN service'.todo : CopyThen(service'.todo[a], a) /\ SoundThen(service'.todo[a]),
         Working' => CopyThen(service'.mem, service'.account) /\ SoundThen(service'.mem)
  PROVE  CopiesSound'
BY DEF CopiesSound, CopyOf, CopyThen, SoundRow, SoundThen, Passed, Handled, IsMined

\* The copies the deposit thread has are sound after the step too.
LEMMA CopiesStay ==
  ASSUME TypeInv, HeightInv, Onwards, IdentityKept
  PROVE  /\ service.pc # "sleep" =>
              /\ service.height <= tip'
              /\ \A a \in DOMAIN service.todo : CopyThen(service.todo[a], a) /\ SoundThen(service.todo[a])
         /\ Working => CopyThen(service.mem, service.account) /\ SoundThen(service.mem)
<1>1. ASSUME service.pc # "sleep" PROVE service.height <= tip'
  BY <1>1, ServiceParts DEF HeightInv, CopiesSound, Onwards
<1>2. ASSUME service.pc # "sleep", NEW a \in DOMAIN service.todo
      PROVE  CopyThen(service.todo[a], a) /\ SoundThen(service.todo[a])
  <2>1. a \in Accounts /\ service.todo[a].height \in Nat
    BY <1>2, ServiceParts DEF Row
  <2>2. CopyOf(service.todo[a], a) /\ SoundRow(service.todo[a])
    BY <1>2 DEF HeightInv, CopiesSound
  <2>3. QED
    BY <2>1, <2>2, CopyStays, SoundStays
<1>3. ASSUME Working PROVE CopyThen(service.mem, service.account) /\ SoundThen(service.mem)
  <2>1. service.account \in Accounts /\ service.mem.height \in Nat
    BY <1>3, ServiceParts DEF Row, Working, InHand
  <2>2. CopyOf(service.mem, service.account) /\ SoundRow(service.mem)
    BY <1>3 DEF HeightInv, CopiesSound
  <2>3. QED
    BY <2>1, <2>2, CopyStays, SoundStays
<1>4. QED
  BY <1>1, <1>2, <1>3

\* The list is done below a limit; for what is to do after the step.
DoneThen(todo, mem, height) ==
  \E limit \in height .. tip' :
    /\ \A t \in todo : mined'[t].height < limit
    /\ \A t \in Txs \ todo : /\ mined'[t] # NotMined /\ mined'[t].height < limit
                             /\ mined'[t].to = mem.address /\ mem.index = mem.address
                             => records'[t] # "none" \/ t \in abandoned'

LEMMA ListThen ==
  ASSUME Working' => DoneThen(ToDo', service'.mem, service'.height) PROVE ListSound'
BY DEF ListSound, DoneThen, Handled, IsMined

LEMMA ListStays ==
  ASSUME TypeInv, HeightInv, Onwards, Working PROVE DoneThen(ToDo, service.mem, service.height)
<1>1. /\ tip \in Nat /\ tip' \in Nat /\ tip <= tip' /\ service.height \in Nat
      /\ \A t \in ToDo : t \in Txs /\ IsMined(t)
  BY ServiceParts DEF Onwards, ToDo, Working, InHand
<1>2. PICK limit \in service.height .. tip :
        /\ \A t \in ToDo : mined[t].height < limit
        /\ \A t \in Txs \ ToDo : /\ IsMined(t) /\ mined[t].height < limit
                                 /\ mined[t].to = service.mem.address
                                 /\ service.mem.index = service.mem.address
                                 => Handled(t)
  BY DEF HeightInv, ListSound
<1>3. limit \in service.height .. tip' /\ limit <= tip
  BY <1>1
<1>4. \A t \in ToDo : mined'[t].height < limit
  BY <1>1, <1>2 DEF Onwards
<1>5. ASSUME NEW t \in Txs \ ToDo, mined'[t] # NotMined, mined'[t].height < limit,
             mined'[t].to = service.mem.address, service.mem.index = service.mem.address
      PROVE  records'[t] # "none" \/ t \in abandoned'
  <2>1. CASE IsMined(t)
    BY <2>1, <1>2, <1>5 DEF Onwards
  <2>2. CASE ~IsMined(t)
    BY <2>2, <1>1, <1>3, <1>5 DEF Onwards
  <2>3. QED
    BY <2>1, <2>2
<1>6. QED
  BY <1>3, <1>4, <1>5 DEF DoneThen

\* A step of another actor.
LEMMA ServiceStays ==
  ASSUME TypeInv, MoneyInv, HeightInv, Onwards, IdentityKept, UNCHANGED service,
         open'["service"].rows = open["service"].rows
  PROVE  CopiesSound' /\ ListSound' /\ OrderSound' /\ WrittenSound'
<1>1. CopiesSound'
  BY CopiesStay, CopiesThen DEF Working
<1>2. ListSound'
  <2>1. ToDo' = ToDo /\ (Working' <=> Working)
    BY DEF ToDo, Working
  <2>2. QED
    BY <2>1, ListStays, ListThen
<1>3. OrderSound'
  <2>1. \A t \in service.txs \cup {service.tx} :
          service.pc \in InHand => mined'[t] = mined[t]
    BY ServiceParts DEF Onwards, InHand
  <2>2. QED
    BY <2>1 DEF HeightInv, OrderSound
<1>4. WrittenSound'
  <2>1. ASSUME service.pc = "commit" PROVE SoundThen(open["service"].rows[service.account])
    <3> DEFINE r == open["service"].rows[service.account]
    <3>1. service.account \in DOMAIN open["service"].rows
      BY <2>1 DEF MoneyInv, ServiceWrote, Wrote
    <3>2. r \in Row
      BY <3>1 DEF TypeInv, RowsTyped, Connections
    <3>3. SoundRow(r) /\ r.height \in Nat
      BY <2>1, <3>2 DEF HeightInv, WrittenSound, Row
    <3> HIDE DEF r
    <3>4. SoundThen(r)
      BY <3>3, SoundStays
    <3>5. QED
      BY <3>4 DEF r
  <2>2. QED
    BY <2>1 DEF WrittenSound, SoundThen, SoundRow, Passed, Handled, IsMined
<1>5. QED
  BY <1>1, <1>2, <1>3, <1>4

-----------------------------------------------------------------------------
LEMMA SameHeights ==
  ASSUME UNCHANGED rows PROVE HeightsKept
BY DEF HeightsKept, SameIdentity

LEMMA LobbyHeights ==
  ASSUME CreditInv, TypeInv, MoneyInv, LobbyStep PROVE HeightsKept
<1>o. /\ OpenTyped /\ RowsTyped /\ "lobby" \in Connections
  BY DEF CreditInv, TypeInv, Connections
<1>1. ASSUME NEW a \in Accounts, SignUp(a) PROVE HeightsKept
  <2>1. [NoRow EXCEPT !.exists = TRUE, !.balance = InitialBalance,
                      !.index = serial, !.address = addresses + 1].height = 0
    BY DEF NoRow
  <2>2. QED
    BY <1>1, <1>o, <2>1 DEF SignUp, RowsTyped, HeightsKept, SameIdentity
<1>2. CASE LockBalance \/ LockLocked \/ AddBalance
  <2>1. task.account \in Accounts
    BY <1>2, TaskByOp DEF LockBalance, LockLocked, AddBalance, Doing
  <2>2. PICK row : UpdateRow("lobby", task.account, row)
    BY <1>2 DEF LockBalance, LockLocked, AddBalance
  <2>3. CASE open["lobby"].on
    BY <2>1, <2>2, <2>3, <1>o, UpdateRowFacts, SameHeights
  <2>4. CASE ~open["lobby"].on
    <3>1. RowFor("lobby", task.account) = rows[task.account]
      BY <2>4, TaskCases DEF RowFor
    <3>2. CASE LockBalance
      <4> DEFINE r == [rows[task.account] EXCEPT !.balance = task.balance - task.amount]
      <4>1. UpdateRow("lobby", task.account, r)
        BY <3>1, <3>2 DEF LockBalance
      <4>2. SameIdentity(r, rows[task.account]) /\ r.height = rows[task.account].height
        BY <2>1, <1>o DEF RowsTyped, Row, SameIdentity
      <4> HIDE DEF r
      <4>3. rows' = [rows EXCEPT ![task.account] = r]
        BY <4>1, <2>1, <2>4, <1>o, UpdateRowFacts
      <4>4. QED
        BY <4>2, <4>3, <2>1, <1>o DEF RowsTyped, HeightsKept, SameIdentity
    <3>3. CASE LockLocked
      <4> DEFINE r == [rows[task.account] EXCEPT !.locked = task.locked + task.amount]
      <4>1. UpdateRow("lobby", task.account, r)
        BY <3>1, <3>3 DEF LockLocked
      <4>2. SameIdentity(r, rows[task.account]) /\ r.height = rows[task.account].height
        BY <2>1, <1>o DEF RowsTyped, Row, SameIdentity
      <4> HIDE DEF r
      <4>3. rows' = [rows EXCEPT ![task.account] = r]
        BY <4>1, <2>1, <2>4, <1>o, UpdateRowFacts
      <4>4. QED
        BY <4>2, <4>3, <2>1, <1>o DEF RowsTyped, HeightsKept, SameIdentity
    <3>4. CASE AddBalance
      BY <3>4, <2>4, TaskCases DEF AddBalance, Doing, Paying
    <3>5. QED
      BY <1>2, <3>2, <3>3, <3>4
  <2>5. QED
    BY <2>3, <2>4
<1>3. CASE CommitUnjoin
  <2>1. task.op = "commit" /\ task.account \in Accounts
    BY <1>3, TaskByOp DEF CommitUnjoin, Doing
  <2>2. /\ DOMAIN open["lobby"].rows = {task.account}
        /\ SameIdentity(open["lobby"].rows[task.account], rows[task.account])
        /\ open["lobby"].rows[task.account].height = rows[task.account].height
    BY <2>1 DEF MoneyInv, LobbyWrote, Paying
  <2>3. QED
    BY <1>3, <1>o, <2>1, <2>2, CommitFacts DEF CommitUnjoin, HeightsKept, SameIdentity
<1>4. CASE UNCHANGED rows
  BY <1>4, SameHeights
<1>5. QED
  <2>1. \/ \E a \in Accounts : SignUp(a)
        \/ LockBalance \/ LockLocked \/ AddBalance \/ CommitUnjoin \/ UNCHANGED rows
    BY DEF LobbyStep, LobbyNext, SignUpFails, FetchToUnjoin, FetchToJoin, LockFails, RemoveLocked,
       NothingLocked, UnlockFails, RollbackOn, BeginHand, EndHand, MoveChips, dbVars
  <2>2. QED
    BY <2>1, <1>1, <1>2, <1>3, <1>4
-----------------------------------------------------------------------------
LEMMA OnwardsSame ==
  ASSUME TypeInv, UNCHANGED <<tip, mined>>,
         \A t \in Txs : Handled(t) => records'[t] # "none" \/ t \in abandoned'
  PROVE  Onwards
BY DEF TypeInv, ChainTyped, Onwards, IsMined

LEMMA ListAsleep ==
  ASSUME service' = Asleep
  PROVE  CopiesSound' /\ ListSound' /\ OrderSound' /\ WrittenSound'
BY DEF CopiesSound, ListSound, OrderSound, WrittenSound, Working, Asleep, InHand

\* The steps of the event loop, of a crash and the reversion, and of the chain.
LEMMA OthersHeight ==
  ASSUME CreditInv, TypeInv, MoneyInv, HeightInv, IdentityKept,
         \/ LobbyStep \/ Crash \/ Restart \/ UNCHANGED vars
         \/ \E block \in SUBSET {t \in Txs : ~IsMined(t)} : Mine(block)
  PROVE  HeightInv'
<1>1. CASE LobbyStep
  <2>1. UNCHANGED <<tip, mined, service, abandoned>>
    BY <1>1 DEF LobbyStep, depositVars
  <2>2. UNCHANGED records /\ open'["service"].rows = open["service"].rows
    <3>1. OpenTyped /\ RecordsTyped /\ RowsTyped
      BY DEF CreditInv, TypeInv
    <3>2. CASE UNCHANGED <<open, records>>
      BY <3>2
    <3>3. CASE UnlockFails \/ CommitUnjoin
      BY <3>1, <3>3, RollbackKeeps, CommitKeeps, EndTransaction DEF UnlockFails, CommitUnjoin, Connections
    <3>4. CASE RemoveLocked
      BY <3>1, <3>4 DEF RemoveLocked, OpenTyped, Connections
    <3>5. CASE LockBalance \/ LockLocked \/ AddBalance
      <4>1. task.account \in Accounts /\ UNCHANGED records
        BY <3>5, TaskByOp DEF LockBalance, LockLocked, AddBalance, Doing
      <4>2. PICK row : UpdateRow("lobby", task.account, row)
        BY <3>5 DEF LockBalance, LockLocked, AddBalance
      <4>3. open'["service"] = open["service"]
        BY <3>1, <4>1, <4>2, UpdateRowFacts DEF Connections
      <4>4. QED
        BY <4>1, <4>3
    <3>6. QED
      BY <1>1, <3>2, <3>3, <3>4, <3>5
         DEF LobbyStep, LobbyNext, SignUp, SignUpFails, FetchToUnjoin, FetchToJoin, LockFails,
             NothingLocked, BeginHand, EndHand, MoveChips, dbVars
  <2>3. Onwards
    BY <2>1, <2>2, OnwardsSame DEF Handled
  <2>4. HeightsKept
    BY <1>1, LobbyHeights
  <2>5. QED
    BY <2>1, <2>2, <2>3, <2>4, RowsStaySound, MinedStaysBelow, ServiceStays DEF HeightInv
<1>2. CASE Crash
  <2>1. UNCHANGED <<rows, records, tip, mined, abandoned>> /\ service' = Asleep
    BY <1>2 DEF Crash, LobbyDies
  <2>2. Onwards /\ HeightsKept
    BY <2>1, OnwardsSame, SameHeights DEF Handled
  <2>3. QED
    BY <2>1, <2>2, RowsStaySound, MinedStaysBelow, ListAsleep DEF HeightInv
<1>3. CASE Restart
  <2>1. UNCHANGED <<open, records, tip, mined, abandoned, service>>
    BY <1>3 DEF Restart, RevertLocked, depositVars
  <2>2. Onwards
    BY <2>1, OnwardsSame DEF Handled
  <2>3. HeightsKept
    <3>1. ASSUME NEW a \in Accounts
          PROVE  SameIdentity(rows'[a], rows[a]) /\ rows'[a].height = rows[a].height
      <4>1. rows[a] \in Row
        BY DEF TypeInv, RowsTyped
      <4>2. rows'[a] = IF rows[a].locked > 0
                         THEN [rows[a] EXCEPT !.balance = rows[a].balance + rows[a].locked, !.locked = 0]
                         ELSE rows[a]
        BY <1>3 DEF Restart, RevertLocked
      <4>3. QED
        BY <4>1, <4>2 DEF Row, SameIdentity
    <3>2. QED
      BY <3>1 DEF HeightsKept
  <2>4. QED
    BY <2>1, <2>2, <2>3, RowsStaySound, MinedStaysBelow, ServiceStays DEF HeightInv
<1>4. ASSUME NEW block \in SUBSET {t \in Txs : ~IsMined(t)}, Mine(block) PROVE HeightInv'
  <2>1. UNCHANGED <<rows, records, open, service, abandoned>> /\ tip' = tip + 1 /\ tip \in Nat
    BY <1>4 DEF Mine, dbVars, TypeInv, ChainTyped
  <2>2. PICK to : mined' = [t \in Txs |-> IF t \in block THEN [height |-> tip, to |-> to[t]]
                                          ELSE mined[t]]
    BY <1>4 DEF Mine
  <2>3. \A t \in Txs : t \in block => ~IsMined(t)
    OBVIOUS
  <2>4. Onwards
    <3>1. \A t \in Txs : t \in block => mined'[t].height = tip
      BY <2>2
    <3>2. \A t \in Txs : t \notin block => mined'[t] = mined[t]
      BY <2>2
    <3>3. QED
      BY <2>1, <2>3, <3>1, <3>2 DEF Onwards, Handled, IsMined
  <2>5. QED
    BY <2>1, <2>4, SameHeights, RowsStaySound, MinedStaysBelow, ServiceStays DEF HeightInv
<1>5. CASE UNCHANGED vars
  <2>1. UNCHANGED <<rows, records, open, service, abandoned, tip, mined>>
    BY <1>5 DEF vars, dbVars, depositVars
  <2>2. Onwards
    BY <2>1, OnwardsSame DEF Handled
  <2>3. QED
    BY <2>1, <2>2, SameHeights, RowsStaySound, MinedStaysBelow, ServiceStays DEF HeightInv
<1>6. QED
  BY <1>1, <1>2, <1>3, <1>4, <1>5

-----------------------------------------------------------------------------
\* The deposit thread's steps: what it has not written yet.
LEMMA ServiceOnwards ==
  ASSUME TypeInv, OnlyService, UNCHANGED records PROVE Onwards
BY OnwardsSame DEF OnlyService, Handled

LEMMA PollHeight ==
  ASSUME CreditInv, TypeInv, MoneyInv, HeightInv, IdentityKept, Poll(tip) \/ Poll(0) \/ Sleep
  PROVE  HeightInv'
<1>1. OnlyService /\ UNCHANGED <<rows, records>>
  BY DEF Poll, Sleep, dbVars
<1>2. Onwards
  BY <1>1, ServiceOnwards
<1>3. RowsSound' /\ MinedBelow'
  BY <1>1, <1>2, SameHeights, RowsStaySound, MinedStaysBelow
<1>4. CASE Sleep
  BY <1>3, <1>4, ListAsleep DEF Sleep, HeightInv
<1>5. CASE Poll(tip) \/ Poll(0)
  <2>1. /\ service'.pc = "next" /\ service'.height \in {tip, 0}
        /\ service'.todo = [a \in {b \in Accounts : rows[b].exists} |-> rows[a]]
    BY <1>5 DEF Poll
  <2>2. service'.height <= tip'
    BY <2>1, <1>2, ServiceParts DEF Onwards
  <2>3. ASSUME NEW a \in DOMAIN service'.todo
        PROVE  CopyThen(service'.todo[a], a) /\ SoundThen(service'.todo[a])
    <3>1. a \in Accounts /\ rows[a].exists /\ service'.todo[a] = rows[a] /\ rows'[a] = rows[a]
      BY <2>1, <1>1
    <3>2. SoundThen(rows[a])
      <4>1. SoundRow(rows[a]) /\ rows[a].height \in Nat
        BY <3>1 DEF HeightInv, RowsSound, TypeInv, RowsTyped, Row
      <4>2. QED
        BY <4>1, <1>2, SoundStays
    <3>3. CopyThen(rows[a], a)
      BY <3>1 DEF CopyThen, SameIdentity
    <3>4. QED
      BY <3>1, <3>2, <3>3
  <2>4. ~Working' /\ service'.pc \notin InHand /\ service'.pc # "commit"
    BY <2>1 DEF Working, InHand
  <2>5. CopiesSound'
    BY <2>2, <2>3, <2>4, CopiesThen
  <2>6. ListSound' /\ OrderSound' /\ WrittenSound'
    BY <2>4 DEF ListSound, OrderSound, WrittenSound
  <2>7. QED
    BY <1>3, <2>5, <2>6 DEF HeightInv
<1>6. QED
  BY <1>4, <1>5

LEMMA NextAccountHeight ==
  ASSUME CreditInv, TypeInv, MoneyInv, HeightInv, IdentityKept,
         NEW a \in Accounts, NextAccount(a)
  PROVE  HeightInv'
<1>1. /\ OnlyService /\ UNCHANGED <<rows, records, tip, mined, abandoned>>
      /\ a \in DOMAIN service.todo /\ service.pc # "sleep"
  BY DEF NextAccount, OnlyService, At
<1>2. Onwards
  BY <1>1, ServiceOnwards
<1>3. RowsSound' /\ MinedBelow'
  BY <1>1, <1>2, SameHeights, RowsStaySound, MinedStaysBelow
<1>4. /\ service.height <= tip'
      /\ \A b \in DOMAIN service.todo : CopyThen(service.todo[b], b) /\ SoundThen(service.todo[b])
  BY <1>1, <1>2, CopiesStay
<1>5. /\ service'.height = service.height /\ service'.todo = Others(a)
      /\ service'.pc \in {"next", "txs"}
      /\ service'.pc = "txs" => /\ service'.account = a /\ service'.mem = service.todo[a]
                                /\ service'.txs = Listed(service.todo[a])
  BY DEF NextAccount
<1>6. \A b \in DOMAIN Others(a) : b \in DOMAIN service.todo /\ Others(a)[b] = service.todo[b]
  BY DEF Others
<1>7. service'.pc \notin InHand /\ service'.pc # "commit" /\ (Working' => service'.pc = "txs")
  BY <1>5 DEF Working, InHand
<1>8. CopiesSound'
  BY <1>1, <1>4, <1>5, <1>6, <1>7, CopiesThen
<1>9. ListSound'
  <2>1. SUFFICES ASSUME service'.pc = "txs" PROVE DoneThen(ToDo', service'.mem, service'.height)
    BY <1>7, ListThen
  <2> DEFINE mem == service.todo[a]
  <2>2. ToDo' = Listed(mem) /\ service'.mem = mem /\ service'.height = service.height
    BY <2>1, <1>5, <1>7 DEF ToDo
  <2>3. tip \in service.height .. tip' /\ UNCHANGED tip
    BY <1>1, <1>2, <1>4, ServiceParts DEF Onwards
  <2>4. \A t \in Listed(mem) : mined'[t].height < tip
    BY <1>1 DEF Listed, HeightInv, MinedBelow
  <2>5. ASSUME NEW t \in Txs \ Listed(mem), mined'[t] # NotMined,
               mined'[t].to = mem.address, mem.index = mem.address
        PROVE  records'[t] # "none" \/ t \in abandoned'
    <3>1. IsMined(t) /\ mined[t].to = mem.index /\ mined[t].height \in Nat
      BY <2>5, <1>1 DEF IsMined, TypeInv, ChainTyped
    <3>2. mem.height \in Nat
      BY <1>1, ServiceParts DEF Row
    <3>3. mined[t].height <= mem.height
      BY <3>1, <3>2 DEF Listed
    <3>4. SoundRow(mem)
      BY <1>1 DEF HeightInv, CopiesSound
    <3>5. Handled(t)
      BY <2>5, <3>1, <3>3, <3>4 DEF SoundRow, Passed
    <3>6. QED
      BY <3>5, <1>1 DEF Handled
  <2> HIDE DEF mem
  <2>6. DoneThen(Listed(mem), mem, service.height)
    BY <2>3, <2>4, <2>5 DEF DoneThen
  <2>7. QED
    BY <2>2, <2>6
<1>10. OrderSound' /\ WrittenSound'
  BY <1>7 DEF OrderSound, WrittenSound
<1>11. QED
  BY <1>3, <1>8, <1>9, <1>10 DEF HeightInv
-----------------------------------------------------------------------------
\* One transaction less to do; and another copy of the same account.
LEMMA DoneWithout ==
  ASSUME NEW todo, NEW mem, NEW height, NEW t, DoneThen(todo, mem, height),
         \/ mined'[t].to # mem.address \/ mem.index # mem.address
         \/ records'[t] # "none" \/ t \in abandoned'
  PROVE  DoneThen(todo \ {t}, mem, height)
<1>1. PICK limit \in height .. tip' :
        /\ \A u \in todo : mined'[u].height < limit
        /\ \A u \in Txs \ todo : /\ mined'[u] # NotMined /\ mined'[u].height < limit
                                 /\ mined'[u].to = mem.address /\ mem.index = mem.address
                                 => records'[u] # "none" \/ u \in abandoned'
  BY DEF DoneThen
<1>2. ASSUME NEW u \in Txs \ (todo \ {t}), mined'[u] # NotMined, mined'[u].height < limit,
             mined'[u].to = mem.address, mem.index = mem.address
      PROVE  records'[u] # "none" \/ u \in abandoned'
  <2>1. CASE u = t
    BY <2>1, <1>2
  <2>2. CASE u # t
    BY <2>2, <1>1, <1>2
  <2>3. QED
    BY <2>1, <2>2
<1>3. QED
  BY <1>1, <1>2 DEF DoneThen

LEMMA DoneAlike ==
  ASSUME NEW todo, NEW mem, NEW other, NEW height, DoneThen(todo, mem, height),
         SameIdentity(other, mem)
  PROVE  DoneThen(todo, other, height)
BY DEF DoneThen, SameIdentity

LEMMA SkipTxHeight ==
  ASSUME CreditInv, TypeInv, MoneyInv, HeightInv, IdentityKept, NEW t \in Txs, SkipTx(t)
  PROVE  HeightInv'
<1>1. /\ OnlyService /\ UNCHANGED <<rows, records, tip, mined, abandoned>>
      /\ service.pc = "txs" /\ t \in service.txs
  BY DEF SkipTx, NextTx, OnlyService, At, dbVars
<1>2. Onwards
  BY <1>1, ServiceOnwards
<1>3. RowsSound' /\ MinedBelow'
  BY <1>1, <1>2, SameHeights, RowsStaySound, MinedStaysBelow
<1>4. /\ service'.pc = "txs" /\ service'.height = service.height /\ service'.todo = service.todo
      /\ service'.account = service.account /\ service'.mem = service.mem
      /\ service'.txs = service.txs \ {t}
  BY DEF SkipTx, Looking
<1>5. Working /\ Working' /\ service'.pc \notin InHand /\ "txs" \notin InHand
  BY <1>1, <1>4 DEF Working, InHand
<1>6. CopiesSound'
  BY <1>1, <1>2, <1>4, <1>5, CopiesStay, CopiesThen
<1>7. ListSound'
  <2>1. ToDo = service.txs /\ ToDo' = service.txs \ {t}
    BY <1>1, <1>4, <1>5 DEF ToDo
  <2>2. DoneThen(service.txs, service.mem, service.height)
    BY <2>1, <1>2, <1>5, ListStays
  <2>3. \/ mined'[t].to # service.mem.address \/ service.mem.index # service.mem.address
        \/ records'[t] # "none" \/ t \in abandoned'
    <3>1. CASE TooLow(t) /\ service.mem.index = service.mem.address /\ mined[t].to = service.mem.address
      <4>1. SoundRow(service.mem)
        BY <1>5 DEF HeightInv, CopiesSound
      <4>2. IsMined(t) /\ service.mem \in Row
        BY <1>1, ServiceParts
      <4>3. mined[t].height <= service.mem.height
        BY <3>1, <4>2 DEF TooLow, Row, TypeInv, ChainTyped
      <4>4. Handled(t)
        BY <3>1, <4>1, <4>2, <4>3 DEF SoundRow, Passed
      <4>5. QED
        BY <4>4, <1>1 DEF Handled
    <3>2. QED
      BY <3>1, <1>1 DEF SkipTx, ToOther
  <2>4. DoneThen(service.txs \ {t}, service.mem, service.height)
    BY <2>2, <2>3, DoneWithout
  <2>5. QED
    BY <2>1, <2>4, <1>4, ListThen
<1>8. OrderSound' /\ WrittenSound'
  BY <1>4, <1>5 DEF OrderSound, WrittenSound
<1>9. QED
  BY <1>3, <1>6, <1>7, <1>8 DEF HeightInv

\* The wallet's order: of what is to do, the transaction in hand is lowest.
LEMMA BeginTxHeight ==
  ASSUME InBlockOrder, CreditInv, TypeInv, MoneyInv, HeightInv, IdentityKept,
         NEW t \in Txs, NEW confirmed \in BOOLEAN, BeginTx(t, confirmed)
  PROVE  HeightInv'
<1>1. /\ OnlyService /\ UNCHANGED <<rows, records, tip, mined, abandoned>>
      /\ service.pc = "txs" /\ t \in service.txs
      /\ \A u \in service.txs : mined[t].height <= mined[u].height
  BY DEF BeginTx, NextTx, OnlyService, At
<1>2. Onwards
  BY <1>1, ServiceOnwards
<1>3. RowsSound' /\ MinedBelow'
  BY <1>1, <1>2, SameHeights, RowsStaySound, MinedStaysBelow
<1>4. /\ service'.pc = "credit" /\ service'.height = service.height /\ service'.todo = service.todo
      /\ service'.account = service.account /\ service'.mem = rows[service.account]
      /\ service'.txs = service.txs \ {t} /\ service'.tx = t
  BY DEF BeginTx, Handling
<1>5. Working /\ Working' /\ service'.pc \in InHand /\ "txs" \notin InHand
      /\ service.account \in Accounts
  BY <1>1, <1>4, ServiceParts DEF Working, InHand
<1>6. CopyOf(service.mem, service.account)
  BY <1>5 DEF HeightInv, CopiesSound
<1>7. CopiesSound'
  <2>1. CopyThen(rows[service.account], service.account)
    BY <1>1, <1>6 DEF CopyOf, CopyThen, SameIdentity
  <2>2. SoundThen(rows[service.account])
    <3>1. SoundRow(rows[service.account]) /\ rows[service.account].height \in Nat
      BY <1>5 DEF HeightInv, RowsSound, TypeInv, RowsTyped, Row
    <3>2. QED
      BY <3>1, <1>2, SoundStays
  <2>3. service.pc # "sleep"
    BY <1>1
  <2>4. QED
    BY <2>1, <2>2, <2>3, <1>2, <1>4, CopiesStay, CopiesThen
<1>8. ListSound'
  <2>1. ToDo = service.txs /\ ToDo' = service.txs
    BY <1>1, <1>4, <1>5 DEF ToDo
  <2>2. DoneThen(service.txs, service.mem, service.height)
    BY <2>1, <1>2, <1>5, ListStays
  <2>3. SameIdentity(rows[service.account], service.mem)
    BY <1>6 DEF CopyOf, SameIdentity
  <2>4. DoneThen(service.txs, rows[service.account], service.height)
    BY <2>2, <2>3, DoneAlike
  <2>5. QED
    BY <2>1, <2>4, <1>4, ListThen
<1>9. OrderSound' /\ WrittenSound'
  BY <1>1, <1>4 DEF OrderSound, WrittenSound
<1>10. QED
  BY <1>3, <1>7, <1>8, <1>9 DEF HeightInv

LEMMA StageFields ==
  ASSUME NEW pc, service' = Stage(pc)
  PROVE  /\ service'.pc = pc /\ service'.height = service.height /\ service'.todo = service.todo
         /\ service'.account = service.account /\ service'.mem = service.mem
         /\ service'.txs = service.txs /\ service'.tx = service.tx
BY DEF Stage, Handling

\* The next statement of the transaction, but for what it writes.
LEMMA StageHeight ==
  ASSUME TypeInv, HeightInv, Onwards, IdentityKept, UNCHANGED <<rows, mined>>,
         service.pc \in InHand, NEW pc \in InHand, service' = Stage(pc)
  PROVE  RowsSound' /\ MinedBelow' /\ CopiesSound' /\ ListSound' /\ OrderSound'
<1>1. Working /\ Working' /\ service'.pc \in InHand /\ service.pc # "sleep"
  BY StageFields DEF Working, InHand
<1>2. RowsSound' /\ MinedBelow'
  BY SameHeights, RowsStaySound, MinedStaysBelow
<1>3. CopiesSound'
  BY <1>1, StageFields, CopiesStay, CopiesThen
<1>4. ListSound'
  <2>1. ToDo' = ToDo
    BY <1>1, StageFields DEF ToDo
  <2>2. QED
    BY <2>1, <1>1, StageFields, ListStays, ListThen
<1>5. OrderSound'
  BY <1>1, StageFields DEF HeightInv, OrderSound
<1>6. QED
  BY <1>2, <1>3, <1>4, <1>5

LEMMA CreditHeight ==
  ASSUME CreditInv, TypeInv, MoneyInv, HeightInv, IdentityKept, Credit \/ Record
  PROVE  HeightInv'
<1>1. /\ UNCHANGED <<records, tip, mined, abandoned>> /\ service.pc \in InHand
  BY DEF Credit, Record, OnlyService, At, InHand
<1>2. UNCHANGED rows
  <2>1. CASE Credit
    <3>1. /\ OpenTyped /\ RowsTyped /\ "service" \in Connections /\ open["service"].on
          /\ Current \in Accounts
      BY <1>1, ServiceParts DEF CreditInv, TypeInv, Transactions, Connections, InHand, Current
    <3>2. PICK row : UpdateRow("service", Current, row)
      BY <2>1 DEF Credit
    <3>3. QED
      BY <3>1, <3>2, UpdateRowFacts
  <2>2. CASE Record
    BY <2>2 DEF Record
  <2>3. QED
    BY <2>1, <2>2
<1>3. Onwards
  BY <1>1, OnwardsSame DEF Handled
<1>4. PICK pc \in InHand : service' = Stage(pc) /\ pc # "commit"
  BY DEF Credit, Record, InHand
<1>5. WrittenSound'
  BY <1>4, StageFields DEF WrittenSound
<1>6. QED
  BY <1>1, <1>2, <1>3, <1>4, <1>5, StageHeight DEF HeightInv

\* The new height is below the transaction in hand, and whatever else is below
\* it has been handled.
LEMMA MoveHeightHeight ==
  ASSUME CreditInv, TypeInv, MoneyInv, HeightInv, IdentityKept, MoveHeight
  PROVE  HeightInv'
<1>0. PICK a \in Accounts : a = service.account
  BY ServiceParts DEF MoveHeight, At, InHand
<1>1. /\ UNCHANGED <<records, tip, mined, abandoned>> /\ service.pc = "height"
      /\ service.pc \in InHand /\ service' = Stage("commit") /\ "commit" \in InHand
      /\ service.tx \in Txs /\ IsMined(service.tx) /\ Working
  BY ServiceParts DEF MoveHeight, OnlyService, At, InHand, Working
<1>2. /\ OpenTyped /\ RowsTyped /\ "service" \in Connections /\ open["service"].on
  BY <1>1 DEF CreditInv, TypeInv, Transactions, Connections
<1> DEFINE old == open["service"].rows[a]
           h == mined[service.tx].height - 1
           row == [old EXCEPT !.height = h]
<1>3. DOMAIN open["service"].rows = {a} /\ SameIdentity(old, rows[a]) /\ old \in Row
  BY <1>0, <1>1, <1>2 DEF MoneyInv, ServiceWrote, Wrote, RowsTyped
<1>4. UpdateRow("service", a, row)
  BY <1>0, <1>3 DEF MoveHeight, Current, RowFor
<1>5. SameIdentity(row, rows[a]) /\ row.height = h
  BY <1>3 DEF Row, SameIdentity
<1> HIDE DEF row, old
<1>6. UNCHANGED rows /\ open'["service"].rows[a] = row
  BY <1>2, <1>4, UpdateRowFacts
<1>7. Onwards
  BY <1>1, OnwardsSame DEF Handled
<1>8. SoundThen(row)
  <2>1. /\ CopyOf(service.mem, a)
        /\ \A t \in service.txs : mined[service.tx].height <= mined[t].height
    BY <1>0, <1>1 DEF HeightInv, CopiesSound, OrderSound
  <2>2. row.index = service.mem.index /\ row.address = service.mem.address
    BY <2>1, <1>5 DEF CopyOf, SameIdentity
  <2>3. DoneThen(ToDo, service.mem, service.height) /\ ToDo = service.txs \cup {service.tx}
    BY <1>1, <1>7, ListStays DEF ToDo
  <2>4. PICK limit \in service.height .. tip' :
          /\ \A t \in ToDo : mined'[t].height < limit
          /\ \A t \in Txs \ ToDo : /\ mined'[t] # NotMined /\ mined'[t].height < limit
                                   /\ mined'[t].to = service.mem.address
                                   /\ service.mem.index = service.mem.address
                                   => records'[t] # "none" \/ t \in abandoned'
    BY <2>3 DEF DoneThen
  <2>5. /\ \A t \in Txs : mined[t].height \in Nat
        /\ h < mined[service.tx].height /\ h \in Int /\ mined[service.tx].height < limit
        /\ limit \in Int /\ mined[service.tx].height < tip
    BY <2>3, <2>4, <1>1, <1>7, ServiceParts
       DEF TypeInv, ChainTyped, HeightInv, MinedBelow, Onwards
  <2>6. ASSUME NEW t \in Txs, row.index = row.address, mined'[t] # NotMined,
               mined'[t].to = row.address, mined'[t].height <= row.height
        PROVE  records'[t] # "none" \/ t \in abandoned'
    <3>1. mined[t].height < mined[service.tx].height /\ mined[t].height < limit
      BY <2>5, <2>6, <1>1, <1>5
    <3>2. t # service.tx
      BY <3>1, <2>5, <1>1
    <3>3. t \notin service.txs
      BY <3>1, <2>1, <2>5, <1>1
    <3>4. t \notin ToDo
      BY <3>2, <3>3, <2>3
    <3>5. QED
      BY <3>1, <3>4, <2>2, <2>4, <2>6, <1>1
  <2>7. row.height < tip'
    BY <2>5, <1>1, <1>5, <1>7, ServiceParts
  <2>8. QED
    BY <2>6, <2>7 DEF SoundThen
<1>9. WrittenSound'
  <2>1. service'.account = a
    BY <1>0, <1>1, StageFields
  <2>2. QED
    BY <2>1, <1>6, <1>8 DEF WrittenSound, SoundRow, SoundThen, Passed, Handled, IsMined
<1>10. QED
  BY <1>1, <1>6, <1>7, <1>9, StageHeight DEF HeightInv
-----------------------------------------------------------------------------
\* The end of the transaction in hand, which is recorded or given up.
LEMMA DepositEndsHeight ==
  ASSUME CreditInv, TypeInv, MoneyInv, HeightInv, IdentityKept, Commit \/ DepositFails
  PROVE  HeightInv'
<1>0. PICK a \in Accounts : a = service.account
  BY ServiceParts DEF Commit, DepositFails, At, InHand
<1>1. /\ UNCHANGED <<tip, mined>> /\ service.pc \in InHand /\ service' = Looking(service.txs)
      /\ service.tx \in Txs /\ Working
  BY ServiceParts DEF Commit, DepositFails, At, InHand, Working
<1>2. /\ OpenTyped /\ RowsTyped /\ RecordsTyped /\ "service" \in Connections
  BY <1>1 DEF CreditInv, TypeInv, Connections
<1>3. /\ \A t \in Txs : Handled(t) => records'[t] # "none" \/ t \in abandoned'
      /\ records'[service.tx] # "none" \/ service.tx \in abandoned'
  <2>1. CASE Commit
    <3>1. PICK to \in Stored : Holds(to)
      BY <2>1 DEF CreditInv, ServiceHolds, Commit, At
    <3>2. UNCHANGED abandoned /\ records' = Over(Written, records)
      BY <2>1 DEF Commit, CommitOn, Written
    <3>3. \A t \in Txs : records'[t] = IF t = service.tx THEN to ELSE records[t]
      BY <1>1, <1>2, <3>1, <3>2 DEF Holds, RecordsTyped, Over
    <3>4. QED
      BY <1>1, <3>1, <3>2, <3>3 DEF Handled, Stored
  <2>2. CASE DepositFails
    BY <2>2, <1>1 DEF DepositFails, RollbackOn, Handled
  <2>3. QED
    BY <2>1, <2>2
<1>4. Onwards
  BY <1>1, <1>3, OnwardsSame
<1>5. RowsSound'
  <2>1. ASSUME NEW b \in Accounts PROVE SoundThen(rows[b])
    <3>1. SoundRow(rows[b]) /\ rows[b].height \in Nat
      BY DEF HeightInv, RowsSound, TypeInv, RowsTyped, Row
    <3>2. QED
      BY <3>1, <1>4, SoundStays
  <2>2. CASE DepositFails
    BY <2>2, <1>4, SameHeights, RowsStaySound DEF DepositFails, RollbackOn
  <2>3. CASE Commit
    <3> DEFINE r == open["service"].rows[a]
    <3>1. service.pc = "commit" /\ DOMAIN open["service"].rows = {a}
      BY <2>3, <1>0 DEF Commit, At, MoneyInv, ServiceWrote, Wrote
    <3>2. r \in Row /\ SoundRow(r)
      BY <3>1, <1>0, <1>2 DEF RowsTyped, HeightInv, WrittenSound
    <3>3. r.height \in Nat
      BY <3>2 DEF Row
    <3>4. \A b \in Accounts : rows'[b] = IF b = a THEN r ELSE rows[b]
      BY <2>3, <3>1, <1>2, CommitFacts DEF Commit
    <3> HIDE DEF r
    <3>5. SoundThen(r)
      BY <3>2, <3>3, <1>4, SoundStays
    <3>6. \A b \in Accounts : SoundThen(rows'[b])
      BY <2>1, <3>4, <3>5
    <3>7. QED
      BY <3>6, RowsSoundThen
  <2>4. QED
    BY <2>2, <2>3
<1>6. /\ service'.pc = "txs" /\ service'.height = service.height /\ service'.todo = service.todo
      /\ service'.account = service.account /\ service'.mem = service.mem
      /\ service'.txs = service.txs
  BY <1>1 DEF Looking
<1>7. Working' /\ service'.pc \notin InHand /\ service.pc # "sleep"
  BY <1>1, <1>6 DEF Working, InHand
<1>8. CopiesSound'
  BY <1>4, <1>1, <1>6, <1>7, CopiesStay, CopiesThen
<1>9. ListSound'
  <2>1. ToDo = service.txs \cup {service.tx} /\ ToDo' = service.txs
    BY <1>1, <1>6, <1>7 DEF ToDo
  <2>2. DoneThen(service.txs \cup {service.tx}, service.mem, service.height)
    BY <2>1, <1>1, <1>4, ListStays
  <2>3. DoneThen(service.txs, service.mem, service.height)
    BY <2>2, <1>3 DEF DoneThen
  <2>4. QED
    BY <2>1, <2>3, <1>6, ListThen
<1>10. MinedBelow' /\ OrderSound' /\ WrittenSound'
  BY <1>4, <1>6, <1>7, MinedStaysBelow DEF OrderSound, WrittenSound
<1>11. QED
  BY <1>5, <1>8, <1>9, <1>10 DEF HeightInv

\* Nothing is to do below the chain's height as it was before the wallet listed.
LEMMA FinishAccountHeight ==
  ASSUME CreditInv, TypeInv, MoneyInv, HeightInv, IdentityKept, FinishAccount
  PROVE  HeightInv'
<1>0. PICK a \in Accounts : a = service.account
  BY ServiceParts DEF FinishAccount, At, InHand
<1>1. /\ OnlyService /\ UNCHANGED <<records, tip, mined, abandoned>> /\ service.pc = "txs"
      /\ service.txs = {} /\ Working /\ service.pc \notin InHand
  BY DEF FinishAccount, OnlyService, At, InHand, Working
<1>2. /\ OpenTyped /\ RowsTyped /\ "service" \in Connections /\ ~open["service"].on
  BY <1>1 DEF CreditInv, TypeInv, Transactions, Connections
<1>3. Onwards
  BY <1>1, ServiceOnwards
<1>4. RowsSound'
  <2>1. CASE UNCHANGED rows
    BY <2>1, <1>3, SameHeights, RowsStaySound
  <2>2. ASSUME service.height > 0,
               UpdateRow("service", a, [rows[a] EXCEPT !.height = service.height - 1])
        PROVE  RowsSound'
    <3> DEFINE row == [rows[a] EXCEPT !.height = service.height - 1]
    <3>1. rows[a] \in Row /\ service.height \in Nat
      BY <1>1, <1>2, ServiceParts DEF RowsTyped
    <3>2. SameIdentity(row, rows[a]) /\ row.height = service.height - 1
      BY <3>1 DEF Row, SameIdentity
    <3> HIDE DEF row
    <3>3. rows' = [rows EXCEPT ![a] = row]
      BY <2>2, <1>2, UpdateRowFacts DEF row
    <3>4. SoundThen(row)
      <4>1. CopyOf(service.mem, a)
        BY <1>0, <1>1 DEF HeightInv, CopiesSound
      <4>2. row.index = service.mem.index /\ row.address = service.mem.address
        BY <4>1, <3>2 DEF CopyOf, SameIdentity
      <4>3. ToDo = {} /\ DoneThen(ToDo, service.mem, service.height)
        BY <1>1, <1>3, ListStays DEF ToDo
      <4>4. PICK limit \in service.height .. tip' :
              \A t \in Txs : /\ mined'[t] # NotMined /\ mined'[t].height < limit
                             /\ mined'[t].to = service.mem.address
                             /\ service.mem.index = service.mem.address
                             => records'[t] # "none" \/ t \in abandoned'
        BY <4>3 DEF DoneThen
      <4>5. tip' \in Nat /\ \A t \in Txs : mined'[t].height \in Nat
        BY <1>1, <1>3 DEF TypeInv, ChainTyped, Onwards
      <4>6. QED
        BY <4>2, <4>4, <4>5, <2>2, <3>1, <3>2 DEF SoundThen
    <3>5. ASSUME NEW b \in Accounts PROVE SoundThen(rows'[b])
      <4>1. SoundRow(rows[b]) /\ rows[b].height \in Nat
        BY <1>2 DEF HeightInv, RowsSound, RowsTyped, Row
      <4>2. SoundThen(rows[b])
        BY <4>1, <1>3, SoundStays
      <4>3. QED
        BY <3>3, <3>4, <4>2, <1>2 DEF RowsTyped
    <3>6. QED
      BY <3>5, RowsSoundThen
  <2>3. QED
    BY <2>1, <2>2, <1>0 DEF FinishAccount, Current
<1>5. service'.pc = "next" /\ service'.height = service.height /\ service'.todo = service.todo
  BY DEF FinishAccount
<1>6. ~Working' /\ service'.pc \notin InHand /\ service'.pc # "commit" /\ service.pc # "sleep"
  BY <1>1, <1>5 DEF Working, InHand
<1>7. CopiesSound'
  BY <1>3, <1>5, <1>6, CopiesStay, CopiesThen
<1>8. ListSound' /\ OrderSound' /\ WrittenSound' /\ MinedBelow'
  BY <1>3, <1>6, MinedStaysBelow DEF ListSound, OrderSound, WrittenSound
<1>9. QED
  BY <1>4, <1>7, <1>8 DEF HeightInv

LEMMA StepHeight ==
  ASSUME InBlockOrder, CreditInv, TypeInv, MoneyInv, HeightInv, IdentityKept, [Next]_vars
  PROVE  HeightInv'
<1>1. CASE ServiceStep
  <2>1. CASE Poll(tip) \/ Poll(0) \/ Sleep
    BY <2>1, PollHeight
  <2>2. CASE \E a \in Accounts : NextAccount(a)
    BY <2>2, NextAccountHeight
  <2>3. CASE \E t \in Txs : SkipTx(t) \/ \E confirmed \in BOOLEAN : BeginTx(t, confirmed)
    BY <2>3, SkipTxHeight, BeginTxHeight
  <2>4. CASE Credit \/ Record \/ MoveHeight
    BY <2>4, CreditHeight, MoveHeightHeight
  <2>5. CASE Commit \/ DepositFails \/ FinishAccount
    BY <2>5, DepositEndsHeight, FinishAccountHeight
  <2>6. QED
    BY <1>1, <2>1, <2>2, <2>3, <2>4, <2>5 DEF ServiceStep
<1>2. CASE \/ LobbyStep \/ Crash \/ Restart \/ UNCHANGED vars
           \/ \E block \in SUBSET {t \in Txs : ~IsMined(t)} : Mine(block)
  BY <1>2, OthersHeight
<1>3. QED
  BY <1>1, <1>2 DEF Next

\* When the wallet lists transactions in the chain's order, no account's height
\* ever passes a transaction to its address that is neither recorded nor given
\* up, for any accounts, transactions, bounds and failures (deposit.c:119-222).
THEOREM HeightsPassNothing == InBlockOrder => (Spec => []NoDepositPassedOver)
<1> SUFFICES ASSUME InBlockOrder PROVE Spec => []NoDepositPassedOver
  OBVIOUS
<1> DEFINE IInv == CreditInv /\ TypeInv /\ MoneyInv /\ HeightInv
<1>1. Init => IInv
  BY InitCredit, InitTyped, InitMoney, InitHeight
<1>2. IInv /\ [Next]_vars => IInv'
  BY StepKeepsCredit, StepTyped, StepMoney, StepHeight
<1>3. IInv => NoDepositPassedOver
  BY DEF HeightInv, RowsSound, SoundRow, Passed, Handled, NoDepositPassedOver, TypeInv,
         ChainTyped, RowsTyped, Row
<1>4. QED
  BY <1>1, <1>2, <1>3, PTL DEF Spec
-----------------------------------------------------------------------------
\* What is locked, while nobody returns to a table in the hand he left.  An
\* account is seated once, so that it brought one entrance or none.
Here(a) == \E i \in Places : players[i].account = a
Brought(a, n) == \E i \in Places : /\ players[i].account = a /\ ~players[i].left
                                   /\ players[i].entrance = n

SeatedOnce == \A i, j \in Places : players[i].account = players[j].account => i = j

\* Who left is out, and so is who is about to sit down.
SeatsOfJoined ==
  /\ \A i \in Places : /\ players[i].left => players[i].account \notin joined
                       /\ rows[players[i].account].exists
  /\ task.op \in {"lock", "lock2"} => ~Here(task.account) /\ rows[task.account].exists
  /\ ~running => players = << >>

Unlocking == {"unlock", "pay", "commit"}
LeavesFirst == task.op \in Unlocking => Leaver.account = task.account /\ Leaver.left

Matches(a) == /\ \A n \in Nat : Brought(a, n) => rows[a].locked = n
              /\ (\A n \in Nat : ~Brought(a, n)) => rows[a].locked = 0

\* Until its transaction ends, the one who leaves has locked what he brought.
LockedInv ==
  running => \A a \in Accounts \ torn :
               IF task.op \in Unlocking /\ task.account = a
                 THEN rows[a].locked = Leaver.entrance
                 ELSE Matches(a)

SeatInv == SeatedOnce /\ SeatsOfJoined /\ LeavesFirst /\ LockedInv
-----------------------------------------------------------------------------
\* What an account has at the table after a step.
KeepsSeats ==
  /\ SeatedOnce'
  /\ \A i \in DOMAIN players' : \E j \in Places : /\ players'[i].account = players[j].account
                                                  /\ players'[i].left = players[j].left
  /\ \A a \in Accounts, n \in Nat : Brought(a, n)' <=> Brought(a, n)

LEMMA SamePlayers ==
  ASSUME SeatedOnce, UNCHANGED players PROVE KeepsSeats
BY DEF KeepsSeats, SeatedOnce, Brought, Places

LEMMA ChipsKeepSeats ==
  ASSUME TypeInv, SeatedOnce, NEW i \in Places, NEW j \in Places, NEW n, MoveChips(i, j, n)
  PROVE  KeepsSeats
<1>1. DOMAIN players' = Places /\ \A k \in Places : /\ players'[k].account = players[k].account
                                                    /\ players'[k].left = players[k].left
                                                    /\ players'[k].entrance = players[k].entrance
  BY LenOfPlayers DEF MoveChips, Seat, Places
<1>2. QED
  BY <1>1 DEF KeepsSeats, SeatedOnce, Brought, Places

LEMMA SitDownSeats ==
  ASSUME TypeInv, SeatedOnce, NEW a \in Accounts, NEW n \in Nat, ~Here(a), SitDown(a, n)
  PROVE  /\ SeatedOnce'
         /\ \A i \in DOMAIN players' :
              \/ players'[i].account = a /\ ~players'[i].left
              \/ i \in Places /\ players'[i] = players[i]
         /\ \A b \in Accounts, m \in Nat : Brought(b, m)' <=> Brought(b, m) \/ (b = a /\ m = n)
<1> DEFINE k == Len(players) + 1
<1>1. Places = 1 .. Len(players) /\ Len(players) \in Nat
  BY LenOfPlayers
<1>2. /\ DOMAIN players' = Places \cup {k} /\ k \notin Places
      /\ players'[k] = Player(a, n)
      /\ \A i \in Places : players'[i] = players[i]
  <2>1. Player(a, n) \in Seat /\ players \in Seq(Seat)
    BY DEF Player, Seat, TypeInv, TableTyped
  <2>2. players' = Append(players, Player(a, n))
    BY DEF SitDown
  <2>3. QED
    BY <1>1, <2>1, <2>2, AppendProperties
<1> HIDE DEF k
<1>3. /\ players'[k].account = a /\ players'[k].entrance = n /\ players'[k].left = FALSE
  BY <1>2 DEF Player
<1>4. SeatedOnce'
  BY <1>2, <1>3 DEF SeatedOnce, Here, Places
<1>5. \A b \in Accounts, m \in Nat : Brought(b, m)' <=> Brought(b, m) \/ (b = a /\ m = n)
  BY <1>2, <1>3 DEF Brought, Places
<1>6. QED
  BY <1>2, <1>3, <1>4, <1>5

\* Who left brings nothing any more, so that his chair does not matter.
LEMMA StandUpSeats ==
  ASSUME TypeInv, SeatedOnce, task \in Unjoining, Leaver.left, StandUp
  PROVE  KeepsSeats
<1>1. CASE inHand
  BY <1>1, SamePlayers DEF StandUp
<1>2. CASE ~inHand
  <2> DEFINE p == task.place
             From(i) == IF i < p THEN i ELSE i + 1
  <2>1. Places = 1 .. Len(players) /\ Len(players) \in Nat /\ p \in Places
    BY LenOfPlayers, IdleOp DEF TypeInv, TaskTyped, Joining, Unjoining
  <2>2. players' = [i \in 1 .. Len(players) - 1 |-> IF i < p THEN players[i] ELSE players[i + 1]]
    BY <1>2 DEF StandUp
  <2>3. /\ DOMAIN players' = 1 .. Len(players) - 1
        /\ \A i \in DOMAIN players' : /\ From(i) \in Places \ {p} /\ players'[i] = players[From(i)]
        /\ \A i, j \in DOMAIN players' : From(i) = From(j) => i = j
    BY <2>1, <2>2
  <2>4. ASSUME NEW k \in Places \ {p}
        PROVE  \E i \in DOMAIN players' : players'[i] = players[k]
    <3>1. CASE k < p
      <4>1. k \in DOMAIN players' /\ players'[k] = players[k]
        BY <3>1, <2>1, <2>2
      <4>2. QED
        BY <4>1
    <3>2. CASE k > p
      <4>1. k - 1 \in 1 .. Len(players) - 1 /\ ~(k - 1 < p) /\ (k - 1) + 1 = k
        BY <3>2, <2>1
      <4>2. k - 1 \in DOMAIN players' /\ players'[k - 1] = players[k]
        BY <4>1, <2>2
      <4>3. QED
        BY <4>2
    <3>3. QED
      BY <3>1, <3>2, <2>1
  <2> HIDE DEF From
  <2>5. SeatedOnce'
    BY <2>3 DEF SeatedOnce, Places
  <2>6. ASSUME NEW a \in Accounts, NEW n \in Nat PROVE Brought(a, n)' <=> Brought(a, n)
    <3>1. Brought(a, n)' => Brought(a, n)
      BY <2>3 DEF Brought, Places
    <3>2. Brought(a, n) => Brought(a, n)'
      BY <2>4 DEF Brought, Leaver, Places
    <3>3. QED
      BY <3>1, <3>2
  <2>7. QED
    BY <2>3, <2>5, <2>6 DEF KeepsSeats
<1>3. QED
  BY <1>1, <1>2

LEMMA EndHandSeats ==
  ASSUME TypeInv, SeatedOnce, EndHand
  PROVE  KeepsSeats
<1> DEFINE gone == {p \in Members(players) : p.left}
           list == Without(players, gone)
<1>1. players \in Seq(Seat) /\ players' = list
  BY DEF TypeInv, TableTyped, EndHand, Leaving
<1>2. NoRepeats(players)
  BY DEF NoRepeats, SeatedOnce, Places
<1>3. Members(list) = Members(players) \ gone /\ NoRepeats(list)
  BY <1>1, <1>2, WithoutMembers
<1> HIDE DEF list
<1>4. \A p \in Members(players) : p \in Members(list) <=> ~p.left
  BY <1>3
<1>5. \A i \in DOMAIN players' : players'[i] \in Members(list)
  BY <1>1 DEF Members
<1>6. \A i \in DOMAIN players' : \E j \in Places : players'[i] = players[j]
  BY <1>3, <1>5 DEF Members, Places
<1>7. SeatedOnce'
  <2>1. ASSUME NEW i \in DOMAIN players', NEW j \in DOMAIN players',
               players'[i].account = players'[j].account
        PROVE  i = j
    <3>1. players'[i] = players'[j]
      BY <1>6, <2>1 DEF SeatedOnce
    <3>2. QED
      BY <3>1, <1>1, <1>3 DEF NoRepeats
  <2>2. QED
    BY <2>1 DEF SeatedOnce, Places
<1>8. ASSUME NEW a \in Accounts, NEW n \in Nat PROVE Brought(a, n)' <=> Brought(a, n)
  <2>1. Brought(a, n)' => Brought(a, n)
    BY <1>6 DEF Brought, Places
  <2>2. ASSUME NEW i \in Places, ~players[i].left
        PROVE  \E j \in DOMAIN players' : players'[j] = players[i]
    <3>1. players[i] \in Members(list)
      BY <2>2, <1>4 DEF Members, Places
    <3>2. QED
      BY <3>1, <1>1 DEF Members
  <2>3. Brought(a, n) => Brought(a, n)'
    BY <2>2 DEF Brought, Places
  <2>4. QED
    BY <2>1, <2>3
<1>9. QED
  BY <1>6, <1>7, <1>8 DEF KeepsSeats

\* One player is marked as gone.
LeftBy(a, k) ==
  /\ SeatedOnce' /\ DOMAIN players' = Places
  /\ players'[k].account = a /\ players'[k].left /\ players'[k].entrance = players[k].entrance
  /\ \A i \in Places \ {k} : players'[i] = players[i] /\ players[i].account # a
  /\ \A b \in Accounts, n \in Nat : Brought(b, n)' <=> Brought(b, n) /\ b # a

LEMMA LeaveSeats ==
  ASSUME TypeInv, SeatedOnce, NEW a \in Accounts, NEW k \in Places, players[k].account = a,
         players' = [players EXCEPT ![k].left = TRUE]
  PROVE  LeftBy(a, k)
<1>1. /\ DOMAIN players' = Places
      /\ players'[k].account = a /\ players'[k].left /\ players'[k].entrance = players[k].entrance
      /\ \A i \in Places \ {k} : players'[i] = players[i] /\ players[i].account # a
  BY LenOfPlayers DEF Seat, SeatedOnce, Places
<1>2. SeatedOnce'
  BY <1>1 DEF SeatedOnce, Places
<1>3. ASSUME NEW b \in Accounts, NEW n \in Nat PROVE Brought(b, n)' <=> Brought(b, n) /\ b # a
  BY <1>1 DEF Brought, Places
<1>4. QED
  BY <1>1, <1>2, <1>3 DEF LeftBy
-----------------------------------------------------------------------------
\* How a step may leave the invariant alone: the event loop between two tasks or
\* at the same point of one, with the same chairs and nothing locked or unlocked.
LockedKept == \A a \in Accounts : rows'[a].locked = rows[a].locked

LEMMA MatchesKept ==
  ASSUME NEW a \in Accounts, rows'[a].locked = rows[a].locked,
         \A n \in Nat : Brought(a, n)' <=> Brought(a, n),
         Matches(a)
  PROVE  Matches(a)'
BY DEF Matches

LEMMA ExistsKept ==
  ASSUME IdentityKept, NEW a \in Accounts, rows[a].exists PROVE rows'[a].exists
BY DEF IdentityKept, SameIdentity

\* The part about who may be at the table.
LEMMA JoinedKept ==
  ASSUME TypeInv, SeatInv, IdentityKept, KeepsSeats,
         joined' \subseteq joined \/ \E a \in Accounts : ~Here(a) /\ joined' = joined \cup {a},
         task'.op \in {"lock", "lock2"} => /\ task'.account \in Accounts /\ ~Here(task'.account)
                                           /\ rows[task'.account].exists,
         running' = running, ~running => players' = players
  PROVE  SeatedOnce' /\ SeatsOfJoined'
<1>1. \A i \in Places : players[i] \in Seat
  BY LenOfPlayers
<1>2. ASSUME NEW i \in DOMAIN players'
      PROVE  /\ players'[i].left => players'[i].account \notin joined'
             /\ rows'[players'[i].account].exists
  <2>1. PICK j \in Places : /\ players'[i].account = players[j].account
                            /\ players'[i].left = players[j].left
    BY DEF KeepsSeats
  <2>2. players[j].account \in Accounts /\ rows[players[j].account].exists
        /\ (players[j].left => players[j].account \notin joined)
    BY <1>1 DEF SeatInv, SeatsOfJoined, Seat
  <2>3. players[j].account \notin joined => (players[j].left => players[j].account \notin joined')
    BY DEF Here
  <2>4. QED
    BY <2>1, <2>2, <2>3, ExistsKept
<1>3. ASSUME task'.op \in {"lock", "lock2"}
      PROVE  /\ \A i \in DOMAIN players' : players'[i].account # task'.account
             /\ rows'[task'.account].exists
  <2>1. PICK a \in Accounts : a = task'.account /\ ~Here(a) /\ rows[a].exists
    BY <1>3
  <2>2. rows'[a].exists
    BY <2>1, ExistsKept
  <2>3. QED
    BY <2>1, <2>2 DEF KeepsSeats, Here
<1>4. ~running' => players' = << >>
  BY DEF SeatInv, SeatsOfJoined
<1>5. SeatsOfJoined'
  BY <1>2, <1>3, <1>4 DEF SeatsOfJoined, Here, Places
<1>6. QED
  BY <1>5 DEF KeepsSeats

LEMMA InitSeats == Init => SeatInv
<1> SUFFICES ASSUME Init PROVE SeatInv
  OBVIOUS
<1> USE DEF Init, AccountsInit, DatabaseInit
<1>1. Places = {} /\ task.op = "none"
  BY IdleOp DEF Places
<1>2. \A a \in Accounts : rows[a].locked = 0
  BY DEF NoRow
<1>3. QED
  BY <1>1, <1>2 DEF SeatInv, SeatedOnce, SeatsOfJoined, LeavesFirst, LockedInv, Matches, Brought, Unlocking

\* What is locked changes by the event loop alone.
LEMMA ServiceLocked ==
  ASSUME CreditInv, TypeInv, MoneyInv, ServiceStep
  PROVE  LockedKept /\ UNCHANGED <<running, players, joined, inHand, task, torn>>
<1>1. UNCHANGED <<running, players, joined, inHand, task, torn>>
  BY DEF ServiceStep, Poll, Sleep, NextAccount, SkipTx, BeginTx, Credit, Record, MoveHeight, Commit,
         DepositFails, FinishAccount, OnlyService, accountVars, lobbyVars, ghosts
<1>2. CASE UNCHANGED rows
  BY <1>1, <1>2 DEF LockedKept
<1>o. OpenTyped /\ RowsTyped /\ "service" \in Connections
  BY DEF CreditInv, TypeInv, Connections
<1>3. CASE Credit \/ MoveHeight
  <2>1. service.pc \in InHand /\ Current \in Accounts
    BY <1>3, ServiceParts DEF Credit, MoveHeight, At, InHand, Current
  <2>2. open["service"].on
    BY <2>1 DEF TypeInv, Transactions
  <2>3. PICK row : UpdateRow("service", Current, row)
    BY <1>3 DEF Credit, MoveHeight
  <2>4. QED
    BY <2>1, <2>2, <2>3, <1>o, <1>2, UpdateRowFacts
<1>4. CASE Commit
  <2>1. service.pc \in Wrote /\ service.account \in Accounts
    BY <1>4, ServiceParts DEF Commit, At, Wrote
  <2>2. /\ DOMAIN open["service"].rows = {service.account}
        /\ open["service"].rows[service.account].locked = rows[service.account].locked
    BY <2>1 DEF MoneyInv, ServiceWrote
  <2>3. QED
    BY <1>1, <1>4, <2>1, <2>2, <1>o, CommitFacts DEF Commit, LockedKept
<1>5. CASE FinishAccount
  <2>1. service.pc = "txs" /\ service.account \in Accounts
    BY <1>5, ServiceParts DEF FinishAccount, At
  <2>2. PICK a \in Accounts : a = service.account
    BY <2>1
  <2>3. ~open["service"].on
    BY <2>1 DEF TypeInv, Transactions, InHand
  <2>4. CASE UpdateRow("service", Current, [rows[Current] EXCEPT !.height = service.height - 1])
    <3> DEFINE row == [rows[a] EXCEPT !.height = service.height - 1]
    <3>1. row.locked = rows[a].locked
      BY <1>o DEF RowsTyped, Row
    <3>2. UpdateRow("service", a, row)
      BY <2>2, <2>4 DEF Current
    <3> HIDE DEF row
    <3>3. rows' = [rows EXCEPT ![a] = row]
      BY <3>2, <2>3, <1>o, UpdateRowFacts
    <3>4. QED
      BY <1>1, <3>1, <3>3, <1>o DEF RowsTyped, LockedKept
  <2>5. QED
    BY <1>2, <1>5, <2>4 DEF FinishAccount
<1>6. QED
  BY <1>2, <1>3, <1>4, <1>5
     DEF ServiceStep, Poll, Sleep, NextAccount, SkipTx, BeginTx, Record, DepositFails, RollbackOn, dbVars

\* A step of the deposit thread, or of the chain.
LEMMA SameTable ==
  ASSUME TypeInv, SeatInv, IdentityKept, LockedKept,
         UNCHANGED <<running, players, joined, task, torn>>
  PROVE  SeatInv'
<1>1. KeepsSeats
  BY SamePlayers DEF SeatInv
<1>2. task.op \in {"lock", "lock2"} => /\ task.account \in Accounts /\ ~Here(task.account)
                                       /\ rows[task.account].exists
  BY TaskByOp DEF SeatInv, SeatsOfJoined
<1>3. SeatedOnce' /\ SeatsOfJoined'
  BY <1>1, <1>2, JoinedKept
<1>4. LeavesFirst' /\ LockedInv'
  <2>1. LeavesFirst'
    BY DEF SeatInv, LeavesFirst, Leaver
  <2>2. ASSUME running', NEW a \in Accounts \ torn'
        PROVE  IF task.op \in Unlocking /\ task.account = a
                 THEN rows'[a].locked = Leaver.entrance ELSE Matches(a)'
    BY <1>1, <2>2, MatchesKept DEF SeatInv, LockedInv, LockedKept, KeepsSeats
  <2>3. QED
    BY <2>1, <2>2 DEF LockedInv, Leaver
<1>5. QED
  BY <1>3, <1>4 DEF SeatInv

LEMMA CrashSeats ==
  ASSUME CreditInv, TypeInv, SeatInv, Crash \/ Restart PROVE SeatInv'
<1> USE DEF depositVars
<1>1. players' = << >> /\ task' = Idle
  <2>1. CASE Crash
    BY <2>1 DEF Crash, LobbyDies
  <2>2. CASE Restart
    BY <2>2 DEF Restart, RevertLocked, lobbyVars, SeatInv, SeatsOfJoined, TypeInv, Transactions
  <2>3. QED
    BY <2>1, <2>2
<1>2. running' => \A a \in Accounts : rows'[a].locked = 0
  <2>1. CASE Restart
    <3>1. ASSUME NEW a \in Accounts PROVE rows'[a].locked = 0
      <4>1. rows[a] \in Row
        BY DEF TypeInv, RowsTyped
      <4>2. rows'[a] = IF rows[a].locked > 0
                         THEN [rows[a] EXCEPT !.balance = rows[a].balance + rows[a].locked, !.locked = 0]
                         ELSE rows[a]
        BY <2>1 DEF Restart, RevertLocked
      <4>3. QED
        BY <4>1, <4>2 DEF Row
    <3>2. QED
      BY <3>1
  <2>2. CASE Crash
    BY <2>2 DEF Crash, LobbyDies
  <2>3. QED
    BY <2>1, <2>2
<1>3. DOMAIN players' = {} /\ task'.op = "none"
  BY <1>1, IdleOp
<1>4. QED
  BY <1>1, <1>2, <1>3
     DEF SeatInv, SeatedOnce, SeatsOfJoined, LeavesFirst, LockedInv, Matches, Brought, Unlocking, Places
-----------------------------------------------------------------------------
\* The event loop comes to rest with the same chairs.
LEMMA RestSeats ==
  ASSUME TypeInv, SeatInv, IdentityKept, KeepsSeats, joined' \subseteq joined,
         running, running', task' = Idle,
         \A a \in Accounts \ torn' : Matches(a)'
  PROVE  SeatInv'
<1>1. task'.op = "none"
  BY IdleOp
<1>2. SeatedOnce' /\ SeatsOfJoined'
  BY <1>1, JoinedKept
<1>3. LeavesFirst' /\ LockedInv'
  BY <1>1 DEF LeavesFirst, LockedInv, Unlocking
<1>4. QED
  BY <1>2, <1>3 DEF SeatInv

LEMMA QuietSeats ==
  ASSUME CreditInv, TypeInv, MoneyInv, SeatInv, UNCHANGED depositVars,
         \/ \E a \in Accounts : SignUpFails(a) \/ (FetchToUnjoin(a) /\ PlaceOf(a) = 0)
         \/ BeginHand \/ EndHand
         \/ \E i, j \in Places, n \in Stakes : MoveChips(i, j, n)
  PROVE  SeatInv'
<1>1. /\ running /\ task.op = "none" /\ task = Idle /\ task' = Idle /\ running'
      /\ UNCHANGED <<rows, torn>> /\ joined' \subseteq joined
  <2>1. CASE \E a \in Accounts : SignUpFails(a)
    BY <2>1, TaskCases DEF SignUpFails, Doing, ghosts, lobbyVars
  <2>2. CASE \E a \in Accounts : FetchToUnjoin(a) /\ PlaceOf(a) = 0
    BY <2>2, TaskCases DEF FetchToUnjoin, Doing, dbVars, ghosts
  <2>3. CASE BeginHand \/ EndHand
    BY <2>3, TaskCases DEF BeginHand, EndHand, Doing, dbVars, ghosts
  <2>4. CASE \E i, j \in Places, n \in Stakes : MoveChips(i, j, n)
    BY <2>4, TaskCases DEF MoveChips, Doing, dbVars, ghosts
  <2>5. QED
    BY <2>1, <2>2, <2>3, <2>4
<1>2. KeepsSeats
  <2>1. SeatedOnce
    BY DEF SeatInv
  <2>2. CASE UNCHANGED players
    BY <2>1, <2>2, SamePlayers
  <2>3. CASE EndHand
    BY <2>1, <2>3, EndHandSeats
  <2>4. CASE \E i, j \in Places, n \in Stakes : MoveChips(i, j, n)
    BY <2>1, <2>4, ChipsKeepSeats
  <2>5. QED
    BY <2>2, <2>3, <2>4 DEF SignUpFails, FetchToUnjoin, BeginHand, lobbyVars
<1>3. ASSUME NEW a \in Accounts \ torn' PROVE Matches(a)'
  <2>1. Matches(a)
    BY <1>1, <1>3 DEF SeatInv, LockedInv, Unlocking
  <2>2. QED
    BY <2>1, <1>1, <1>2, MatchesKept DEF KeepsSeats
<1>4. QED
  BY <1>1, <1>2, <1>3, RestSeats, RowsSame

LEMMA SignUpSeats ==
  ASSUME CreditInv, TypeInv, MoneyInv, SeatInv, NEW a \in Accounts, SignUp(a),
         UNCHANGED depositVars
  PROVE  SeatInv'
<1>1. /\ running /\ task.op = "none" /\ task = Idle /\ task' = Idle /\ running'
      /\ UNCHANGED <<players, torn, joined>> /\ ~rows[a].exists
  BY TaskCases DEF SignUp, Doing, lobbyVars
<1>2. KeepsSeats /\ IdentityKept
  BY <1>1, SamePlayers, SignUpMoney DEF SeatInv
<1>3. rows'[a].locked = 0 /\ \A b \in Accounts \ {a} : rows'[b] = rows[b]
  BY DEF SignUp, TypeInv, RowsTyped, NoRow
<1>4. ASSUME NEW b \in Accounts \ torn' PROVE Matches(b)'
  <2>1. Matches(b)
    BY <1>1, <1>4 DEF SeatInv, LockedInv, Unlocking
  <2>2. CASE b # a
    BY <2>1, <2>2, <1>2, <1>3, MatchesKept DEF KeepsSeats
  <2>3. CASE b = a
    <3>1. \A n \in Nat : ~Brought(a, n)
      BY <1>1 DEF SeatInv, SeatsOfJoined, Brought
    <3>2. \A n \in Nat : ~Brought(a, n)'
      BY <3>1, <1>2 DEF KeepsSeats
    <3>3. QED
      BY <2>3, <3>2, <1>3 DEF Matches
  <2>4. QED
    BY <2>2, <2>3
<1>5. QED
  BY <1>1, <1>2, <1>4, RestSeats

\* A task begins: a join of one who has no chair, or an unjoin.
LEMMA FetchToJoinSeats ==
  ASSUME ~ReturnsInHand, CreditInv, TypeInv, MoneyInv, SeatInv,
         NEW a \in Accounts, NEW n \in Stakes, FetchToJoin(a, n), UNCHANGED depositVars
  PROVE  SeatInv'
<1>1. /\ running /\ task.op = "none" /\ running' /\ UNCHANGED <<rows, players, torn>>
      /\ joined' = joined \cup {a} /\ task'.op = "lock" /\ task'.account = a
      /\ rows[a].exists /\ PlaceOf(a) = 0
  BY DEF FetchToJoin, Doing, dbVars, ghosts
<1>2. ~Here(a)
  <2>1. ASSUME Here(a) PROVE PlaceOf(a) \in Places
    <3> DEFINE First(i) == players[i].account = a /\ \A j \in 1 .. i - 1 : players[j].account # a
    <3>1. Places = 1 .. Len(players) /\ Len(players) \in Nat
      BY LenOfPlayers
    <3>2. PICK i \in Places : players[i].account = a
      BY <2>1 DEF Here
    <3>3. First(i)
      <4>1. \A j \in 1 .. i - 1 : j \in Places /\ j # i
        BY <3>1, <3>2
      <4>2. QED
        BY <3>2, <4>1 DEF SeatInv, SeatedOnce
    <3>4. PlaceOf(a) = CHOOSE k \in Places : First(k)
      BY <3>2 DEF PlaceOf
    <3> HIDE DEF First
    <3>5. QED
      BY <3>2, <3>3, <3>4
  <2>2. 0 \notin Places
    BY LenOfPlayers
  <2>3. QED
    BY <2>1, <2>2, <1>1
<1>3. KeepsSeats /\ IdentityKept
  BY <1>1, SamePlayers, RowsSame DEF SeatInv
<1>4. SeatedOnce' /\ SeatsOfJoined'
  BY <1>1, <1>2, <1>3, JoinedKept
<1>5. ASSUME NEW b \in Accounts \ torn' PROVE Matches(b)'
  <2>1. Matches(b)
    BY <1>1, <1>5 DEF SeatInv, LockedInv, Unlocking
  <2>2. QED
    BY <2>1, <1>1, <1>3, MatchesKept DEF KeepsSeats
<1>6. LeavesFirst' /\ LockedInv'
  BY <1>1, <1>5 DEF LeavesFirst, LockedInv, Unlocking
<1>7. QED
  BY <1>4, <1>6 DEF SeatInv

LEMMA FetchToUnjoinSeats ==
  ASSUME CreditInv, TypeInv, MoneyInv, SeatInv,
         NEW a \in Accounts, FetchToUnjoin(a), PlaceOf(a) # 0, UNCHANGED depositVars
  PROVE  SeatInv'
<1>0. PICK k \in Places : k = PlaceOf(a) /\ players[k].account = a
  BY PlaceOfTyped
<1>1. /\ running /\ task.op = "none" /\ running' /\ UNCHANGED <<rows, torn>>
      /\ a \in joined /\ joined' = joined \ {a}
      /\ task'.op = "unlock" /\ task'.account = a /\ task'.place = k
      /\ players' = [players EXCEPT ![k].left = TRUE]
  BY <1>0 DEF FetchToUnjoin, Doing, dbVars, ghosts
<1>2. k \in Places /\ players[k].account = a /\ SeatedOnce
  BY <1>0 DEF SeatInv
<1>3. /\ SeatedOnce' /\ DOMAIN players' = Places
      /\ players'[k].account = a /\ players'[k].left /\ players'[k].entrance = players[k].entrance
      /\ \A i \in Places \ {k} : players'[i] = players[i] /\ players[i].account # a
      /\ \A b \in Accounts, n \in Nat : Brought(b, n)' <=> Brought(b, n) /\ b # a
  <2>1. LeftBy(a, k)
    BY <1>1, <1>2, LeaveSeats, Zenon
  <2>2. QED
    BY <2>1 DEF LeftBy
<1>4. SeatsOfJoined'
  <2>1. ASSUME NEW i \in Places
        PROVE  /\ players'[i].left => players'[i].account \notin joined'
               /\ rows'[players'[i].account].exists
    BY <1>1, <1>2, <1>3 DEF SeatInv, SeatsOfJoined
  <2>2. QED
    BY <2>1, <1>1, <1>3 DEF SeatsOfJoined, Places
<1>5. LeavesFirst' /\ Leaver'.entrance = players[k].entrance
  BY <1>1, <1>3 DEF LeavesFirst, Leaver
<1>6. ASSUME NEW b \in Accounts \ torn'
      PROVE  IF b = a THEN rows'[b].locked = players[k].entrance ELSE Matches(b)'
  <2>1. Matches(b)
    BY <1>1, <1>6 DEF SeatInv, LockedInv, Unlocking
  <2>2. CASE b # a
    BY <2>1, <2>2, <1>1, <1>3, MatchesKept
  <2>3. CASE b = a
    <3>1. ~players[k].left /\ players[k].entrance \in Nat
      BY <1>1, <1>2, LenOfPlayers DEF SeatInv, SeatsOfJoined, Seat
    <3>2. Brought(a, players[k].entrance)
      BY <3>1, <1>2 DEF Brought
    <3>3. QED
      BY <2>1, <2>3, <3>1, <3>2, <1>1 DEF Matches
  <2>4. QED
    BY <2>2, <2>3
<1>7. LockedInv'
  BY <1>1, <1>5, <1>6 DEF LockedInv, Unlocking
<1>8. QED
  BY <1>3, <1>4, <1>5, <1>7 DEF SeatInv
-----------------------------------------------------------------------------
\* A statement of the task in hand, before the last one.
LEMMA NextStatementSeats ==
  ASSUME CreditInv, TypeInv, MoneyInv, SeatInv, LockBalance \/ RemoveLocked \/ AddBalance,
         UNCHANGED depositVars
  PROVE  SeatInv'
<1>1. /\ running /\ running' /\ UNCHANGED <<players, joined, torn>>
      /\ task'.account = task.account
      /\ \/ task.op = "lock" /\ task'.op = "lock2"
         \/ /\ task.op \in Unlocking /\ task'.op \in Unlocking /\ task'.place = task.place
  <2>1. CASE LockBalance
    <3>1. task \in Joining /\ task.op = "lock"
      BY <2>1, TaskByOp DEF LockBalance, Doing
    <3>2. QED
      BY <2>1, <3>1 DEF LockBalance, Doing, Joining
  <2>2. CASE RemoveLocked \/ AddBalance
    <3>1. task \in Unjoining /\ task.op \in {"unlock", "pay"}
      BY <2>2, TaskByOp DEF RemoveLocked, AddBalance, Doing
    <3>2. task' = [task EXCEPT !.op = "pay"] \/ task' = [task EXCEPT !.op = "commit"]
      BY <2>2 DEF RemoveLocked, AddBalance
    <3>3. QED
      BY <2>2, <3>1, <3>2 DEF RemoveLocked, AddBalance, Doing, Unjoining, Unlocking, ghosts
  <2>3. QED
    BY <2>1, <2>2
<1>2. LockedKept
  <2>o. OpenTyped /\ RowsTyped /\ "lobby" \in Connections
    BY DEF CreditInv, TypeInv, Connections
  <2>1. CASE RemoveLocked
    BY <2>1 DEF RemoveLocked, LockedKept
  <2>2. CASE AddBalance
    <3>1. task.account \in Accounts /\ open["lobby"].on
      BY <2>2, TaskByOp, TaskCases DEF AddBalance, Doing, Paying
    <3>2. PICK row : UpdateRow("lobby", task.account, row)
      BY <2>2 DEF AddBalance
    <3>3. QED
      BY <3>1, <3>2, <2>o, UpdateRowFacts DEF LockedKept
  <2>3. CASE LockBalance
    <3>1. PICK a \in Accounts : a = task.account
      BY <2>3, TaskByOp DEF LockBalance, Doing
    <3>2. ~open["lobby"].on /\ RowFor("lobby", a) = rows[a]
      BY <2>3, TaskCases DEF LockBalance, Doing, Paying, RowFor
    <3> DEFINE row == [rows[a] EXCEPT !.balance = task.balance - task.amount]
    <3>3. UpdateRow("lobby", a, row)
      BY <2>3, <3>1, <3>2 DEF LockBalance
    <3>4. row.locked = rows[a].locked
      BY <2>o DEF RowsTyped, Row
    <3> HIDE DEF row
    <3>5. rows' = [rows EXCEPT ![a] = row]
      BY <2>o, <3>2, <3>3, UpdateRowFacts
    <3>6. QED
      BY <2>o, <3>4, <3>5 DEF LockedKept, RowsTyped
  <2>4. QED
    BY <2>1, <2>2, <2>3
<1>3. IdentityKept
  BY LockMoney, RemoveLockedMoney, AddBalanceMoney
<1>4. KeepsSeats
  BY <1>1, SamePlayers DEF SeatInv
<1>5. task.op = "lock" => /\ task.account \in Accounts /\ ~Here(task.account)
                          /\ rows[task.account].exists
  BY TaskByOp DEF SeatInv, SeatsOfJoined
<1>6. SeatedOnce' /\ SeatsOfJoined'
  BY <1>1, <1>3, <1>4, <1>5, JoinedKept DEF Unlocking
<1>7. task'.op \in Unlocking <=> task.op \in Unlocking
  BY <1>1 DEF Unlocking
<1>8. LeavesFirst'
  <2>1. CASE task.op \in Unlocking
    <3>1. Leaver' = Leaver /\ Leaver.account = task.account /\ Leaver.left
      BY <1>1, <2>1 DEF SeatInv, LeavesFirst, Leaver, Unlocking
    <3>2. QED
      BY <3>1, <1>1 DEF LeavesFirst
  <2>2. CASE task.op \notin Unlocking
    BY <2>2, <1>7 DEF LeavesFirst
  <2>3. QED
    BY <2>1, <2>2
<1>9. ASSUME NEW a \in Accounts \ torn'
      PROVE  IF task'.op \in Unlocking /\ task'.account = a
               THEN rows'[a].locked = Leaver'.entrance ELSE Matches(a)'
  <2>1. CASE task.op \in Unlocking /\ task.account = a
    <3>1. rows[a].locked = Leaver.entrance /\ Leaver' = Leaver
      BY <1>1, <1>7, <1>9, <2>1 DEF SeatInv, LockedInv, Leaver, Unlocking
    <3>2. QED
      BY <3>1, <2>1, <1>1, <1>2, <1>7 DEF LockedKept
  <2>2. CASE ~(task.op \in Unlocking /\ task.account = a)
    <3>1. Matches(a)
      BY <1>1, <1>9, <2>2 DEF SeatInv, LockedInv
    <3>2. QED
      BY <3>1, <2>2, <1>1, <1>2, <1>4, <1>7, MatchesKept DEF LockedKept, KeepsSeats
  <2>3. QED
    BY <2>1, <2>2
<1>10. LockedInv'
  BY <1>9 DEF LockedInv
<1>11. QED
  BY <1>6, <1>8, <1>10 DEF SeatInv

\* Who joins sits down, whether his money was locked or not.
LEMMA JoinEndsSeats ==
  ASSUME CreditInv, TypeInv, MoneyInv, SeatInv, LockLocked \/ LockFails, UNCHANGED depositVars
  PROVE  SeatInv'
<1>0. PICK a \in Accounts : a = task.account
  BY TaskByOp DEF LockLocked, LockFails, Doing
<1>1. PICK n \in Nat : n = task.amount
  BY TaskByOp DEF LockLocked, LockFails, Doing
<1>2. /\ running /\ running' /\ task.op \in {"lock", "lock2"} /\ task.op \notin Unlocking
      /\ task' = Idle /\ task'.op = "none" /\ UNCHANGED joined /\ SitDown(a, n)
      /\ ~Here(a) /\ rows[a].exists
  BY <1>0, <1>1, IdleOp DEF LockLocked, LockFails, Doing, Unlocking, SeatInv, SeatsOfJoined
<1>3. /\ SeatedOnce'
      /\ \A i \in DOMAIN players' :
           \/ players'[i].account = a /\ ~players'[i].left
           \/ i \in Places /\ players'[i] = players[i]
      /\ \A b \in Accounts, m \in Nat : Brought(b, m)' <=> Brought(b, m) \/ (b = a /\ m = n)
  BY <1>2, SitDownSeats DEF SeatInv
<1>4. IdentityKept
  BY LockMoney, GivingUpMoney
<1>5. SeatsOfJoined'
  <2>1. ASSUME NEW i \in DOMAIN players'
        PROVE  /\ players'[i].left => players'[i].account \notin joined'
               /\ rows'[players'[i].account].exists
    <3>1. CASE players'[i].account = a /\ ~players'[i].left
      BY <3>1, <1>2, <1>4, ExistsKept
    <3>2. CASE i \in Places /\ players'[i] = players[i]
      <4>1. players[i].account \in Accounts /\ rows[players[i].account].exists
            /\ (players[i].left => players[i].account \notin joined)
        BY <3>2, LenOfPlayers DEF SeatInv, SeatsOfJoined, Seat
      <4>2. QED
        BY <4>1, <3>2, <1>2, <1>4, ExistsKept
    <3>3. QED
      BY <3>1, <3>2, <1>3
  <2>2. QED
    BY <2>1, <1>2 DEF SeatsOfJoined, Places
<1>6. \A m \in Nat : ~Brought(a, m)
  BY <1>2 DEF Brought, Here
<1>7. \/ UNCHANGED rows /\ a \in torn'
      \/ /\ UNCHANGED torn /\ rows'[a].locked = rows[a].locked + n
         /\ \A b \in Accounts \ {a} : rows'[b] = rows[b]
  <2>1. CASE LockFails
    BY <2>1, <1>0 DEF LockFails
  <2>2. CASE LockLocked
    <3>1. OpenTyped /\ RowsTyped /\ "lobby" \in Connections
      BY DEF CreditInv, TypeInv, Connections
    <3>2. ~open["lobby"].on /\ RowFor("lobby", a) = rows[a]
      BY <1>2, TaskCases DEF Paying, RowFor
    <3>3. task.locked = rows[a].locked
      BY <1>0, <1>2, IdleOp DEF MoneyInv, LockedAsRead
    <3> DEFINE row == [rows[a] EXCEPT !.locked = task.locked + task.amount]
    <3>4. UpdateRow("lobby", a, row)
      BY <2>2, <1>0, <3>2 DEF LockLocked
    <3>5. row.locked = rows[a].locked + n
      BY <3>1, <3>3, <1>1 DEF RowsTyped, Row
    <3> HIDE DEF row
    <3>6. rows' = [rows EXCEPT ![a] = row]
      BY <3>1, <3>2, <3>4, UpdateRowFacts
    <3>7. UNCHANGED torn
      BY <2>2 DEF LockLocked, ghosts
    <3>8. QED
      BY <3>1, <3>5, <3>6, <3>7 DEF RowsTyped
  <2>3. QED
    BY <2>1, <2>2
<1>8. torn \subseteq torn'
  BY <1>7 DEF LockFails, LockLocked, ghosts
<1>9. ASSUME NEW b \in Accounts \ torn' PROVE Matches(b)'
  <2>1. Matches(b)
    BY <1>2, <1>8, <1>9 DEF SeatInv, LockedInv
  <2>2. CASE b # a
    <3>1. rows'[b].locked = rows[b].locked /\ \A m \in Nat : Brought(b, m)' <=> Brought(b, m)
      BY <2>2, <1>3, <1>7
    <3>2. QED
      BY <2>1, <3>1, MatchesKept
  <2>3. CASE b = a
    <3>1. rows[a].locked = 0
      BY <2>1, <2>3, <1>6 DEF Matches
    <3>2. rows'[a].locked = n
      BY <3>1, <2>3, <1>7, <1>9
    <3>3. \A m \in Nat : Brought(a, m)' <=> m = n
      BY <1>3, <1>6
    <3>4. QED
      BY <2>3, <3>2, <3>3 DEF Matches
  <2>4. QED
    BY <2>2, <2>3
<1>10. LeavesFirst' /\ LockedInv'
  BY <1>2, <1>9 DEF LeavesFirst, LockedInv, Unlocking
<1>11. QED
  BY <1>3, <1>5, <1>10 DEF SeatInv

\* Who leaves has nothing locked when it is done.
LEMMA UnjoinEndsSeats ==
  ASSUME CreditInv, TypeInv, MoneyInv, SeatInv, NothingLocked \/ UnlockFails \/ CommitUnjoin,
         UNCHANGED depositVars
  PROVE  SeatInv'
<1>0. PICK a \in Accounts : a = task.account
  BY TaskByOp DEF NothingLocked, UnlockFails, CommitUnjoin, Doing
<1>1. /\ running /\ running' /\ task.op \in Unlocking /\ task \in Unjoining
      /\ task' = Idle /\ UNCHANGED joined /\ StandUp
      /\ task.place \in Places /\ Leaver.entrance \in Nat
  BY <1>0, TaskByOp DEF NothingLocked, UnlockFails, CommitUnjoin, Doing, Unlocking
<1>2. Leaver.account = a /\ Leaver.left
  BY <1>0, <1>1 DEF SeatInv, LeavesFirst
<1>3. KeepsSeats
  BY <1>1, <1>2, StandUpSeats DEF SeatInv
<1>4. IdentityKept
  BY GivingUpMoney, CommitUnjoinMoney
<1>5. \A n \in Nat : ~Brought(a, n)
  BY <1>1, <1>2 DEF Brought, Leaver, SeatInv, SeatedOnce
<1>6. \/ UNCHANGED rows /\ torn' = torn \cup {a}
      \/ /\ UNCHANGED torn /\ rows'[a].locked = rows[a].locked - Leaver.entrance
         /\ \A b \in Accounts \ {a} : rows'[b] = rows[b]
  <2>1. CASE NothingLocked \/ UnlockFails
    BY <2>1, <1>0 DEF NothingLocked, UnlockFails, RollbackOn, dbVars
  <2>2. CASE CommitUnjoin
    <3>1. OpenTyped /\ RowsTyped /\ "lobby" \in Connections
      BY DEF CreditInv, TypeInv, Connections
    <3>2. task.op \in Paying
      BY <2>2 DEF CommitUnjoin, Doing, Paying
    <3>3. /\ DOMAIN open["lobby"].rows = {a}
          /\ open["lobby"].rows[a].locked = rows[a].locked - Leaver.entrance
      BY <3>2, <1>0 DEF MoneyInv, LobbyWrote
    <3>4. QED
      BY <2>2, <3>1, <3>3, CommitFacts DEF CommitUnjoin
  <2>3. QED
    BY <2>1, <2>2
<1>7. ASSUME NEW b \in Accounts \ torn' PROVE Matches(b)'
  <2>1. b \notin torn
    BY <1>6, <1>7
  <2>2. CASE b # a
    <3>1. Matches(b)
      BY <2>1, <2>2, <1>0, <1>1 DEF SeatInv, LockedInv
    <3>2. rows'[b].locked = rows[b].locked
      BY <2>2, <1>6
    <3>3. QED
      BY <3>1, <3>2, <1>3, MatchesKept DEF KeepsSeats
  <2>3. CASE b = a
    <3>1. rows[a].locked = Leaver.entrance
      BY <2>1, <2>3, <1>0, <1>1 DEF SeatInv, LockedInv
    <3>2. rows'[a].locked = 0
      BY <3>1, <2>3, <1>1, <1>6, <1>7
    <3>3. \A n \in Nat : ~Brought(a, n)'
      BY <1>3, <1>5 DEF KeepsSeats
    <3>4. QED
      BY <2>3, <3>2, <3>3 DEF Matches
  <2>4. QED
    BY <2>2, <2>3
<1>8. QED
  BY <1>1, <1>3, <1>4, <1>7, RestSeats

LEMMA StepSeats ==
  ASSUME ~ReturnsInHand, CreditInv, TypeInv, MoneyInv, SeatInv, [Next]_vars
  PROVE  SeatInv'
<1>0. IdentityKept
  BY StepMoney
<1>1. CASE LobbyStep
  <2>1. UNCHANGED depositVars /\ LobbyNext
    BY <1>1 DEF LobbyStep
  <2>2. CASE \/ \E a \in Accounts : SignUpFails(a) \/ (FetchToUnjoin(a) /\ PlaceOf(a) = 0)
             \/ BeginHand \/ EndHand
             \/ \E i, j \in Places, n \in Stakes : MoveChips(i, j, n)
    BY <2>1, <2>2, QuietSeats
  <2>3. CASE \E a \in Accounts : \/ SignUp(a) \/ (FetchToUnjoin(a) /\ PlaceOf(a) # 0)
                                 \/ \E n \in Stakes : FetchToJoin(a, n)
    BY <2>1, <2>3, SignUpSeats, FetchToUnjoinSeats, FetchToJoinSeats
  <2>4. CASE LockBalance \/ RemoveLocked \/ AddBalance
    BY <2>1, <2>4, NextStatementSeats
  <2>5. CASE LockLocked \/ LockFails
    BY <2>1, <2>5, JoinEndsSeats
  <2>6. CASE NothingLocked \/ UnlockFails \/ CommitUnjoin
    BY <2>1, <2>6, UnjoinEndsSeats
  <2>7. QED
    BY <2>1, <2>2, <2>3, <2>4, <2>5, <2>6 DEF LobbyNext
<1>2. CASE ServiceStep
  BY <1>2, <1>0, ServiceLocked, SameTable
<1>3. CASE Crash \/ Restart
  BY <1>3, CrashSeats
<1>4. CASE (\E block \in SUBSET {t \in Txs : ~IsMined(t)} : Mine(block)) \/ UNCHANGED vars
  <2>1. LockedKept /\ UNCHANGED <<running, players, joined, task, torn>>
    BY <1>4 DEF Mine, vars, dbVars, accountVars, lobbyVars, ghosts, LockedKept
  <2>2. QED
    BY <2>1, <1>0, SameTable
<1>5. QED
  BY <1>1, <1>2, <1>3, <1>4 DEF Next
-----------------------------------------------------------------------------
\* The sum of the entrances of one chair, or of none.
LEMMA OneEntrance ==
  ASSUME NEW S, NEW i, S = {} \/ (S = {i} /\ players[i].entrance \in Nat)
  PROVE  MapThenSumSet(LAMBDA k : players[k].entrance, S)
           = IF S = {} THEN 0 ELSE players[i].entrance
<1> DEFINE Sum(f, s) == IF s = {} THEN 0
                         ELSE players[CHOOSE x \in s : TRUE].entrance
                              + f[s \ {CHOOSE x \in s : TRUE}]
           iter == CHOOSE f : f = [s \in SUBSET S |-> Sum(f, s)]
<1>1. MapThenSumSet(LAMBDA k : players[k].entrance, S) = iter[S]
  BY DEF MapThenSumSet, MapThenFoldSet
<1> DEFINE g == [s \in SUBSET S |-> IF s = {} THEN 0 ELSE players[i].entrance]
<1>2. g = [s \in SUBSET S |-> Sum(g, s)]
  <2>1. ASSUME NEW s \in SUBSET S PROVE g[s] = Sum(g, s)
    <3>1. CASE s = {}
      BY <3>1
    <3>2. CASE s # {}
      <4>1. s = {i} /\ S = {i} /\ players[i].entrance \in Nat
        BY <3>2
      <4>2. (CHOOSE x \in s : TRUE) = i
        BY <4>1
      <4>3. s \ {i} = {} /\ {} \in SUBSET S /\ g[{}] = 0
        BY <4>1
      <4>4. g[s] = players[i].entrance
        BY <3>2
      <4>5. QED
        BY <3>2, <4>1, <4>2, <4>3, <4>4
    <3>3. QED
      BY <3>1, <3>2
  <2>2. QED
    BY <2>1
<1>3. iter = [s \in SUBSET S |-> Sum(iter, s)]
  BY <1>2
<1> HIDE DEF iter
<1>4. iter[S] = Sum(iter, S) /\ iter[{}] = 0
  BY <1>3
<1>5. CASE S = {}
  BY <1>1, <1>4, <1>5
<1>6. CASE S = {i} /\ players[i].entrance \in Nat
  <2>1. S # {} /\ (CHOOSE x \in S : TRUE) = i /\ S \ {i} = {}
    BY <1>6
  <2>2. iter[S] = players[i].entrance
    BY <2>1, <1>4
  <2>3. QED
    BY <1>1, <2>1, <2>2
<1>7. QED
  BY <1>5, <1>6

LEMMA BroughtByIs ==
  ASSUME TypeInv, SeatInv, NEW a \in Accounts, Matches(a)
  PROVE  rows[a].locked = BroughtBy(a)
<1> DEFINE S == {i \in Places : players[i].account = a /\ ~players[i].left}
<1>1. BroughtBy(a) = MapThenSumSet(LAMBDA k : players[k].entrance, S)
  BY DEF BroughtBy
<1>2. CASE S = {}
  <2>1. rows[a].locked = 0
    BY <1>2 DEF Matches, Brought
  <2>2. MapThenSumSet(LAMBDA k : players[k].entrance, S) = 0
    BY <1>2, OneEntrance
  <2>3. QED
    BY <1>1, <2>1, <2>2
<1>3. ASSUME NEW i \in S PROVE rows[a].locked = BroughtBy(a)
  <2>1. S = {i} /\ players[i].entrance \in Nat /\ i \in Places
    BY LenOfPlayers DEF SeatInv, SeatedOnce, Seat
  <2>2. Brought(a, players[i].entrance)
    BY <1>3 DEF Brought
  <2>3. rows[a].locked = players[i].entrance
    BY <2>1, <2>2 DEF Matches
  <2>4. BroughtBy(a) = players[i].entrance
    BY <1>1, <2>1, OneEntrance
  <2>5. QED
    BY <2>3, <2>4
<1>4. QED
  BY <1>2, <1>3
-----------------------------------------------------------------------------

\* While nobody returns to a table in the hand he left, what is locked in an
\* account is what it brought to the table, before and after any crash; only a
\* transfer that failed or was cut off half way is excepted (lobby.c:1452, 1509).
THEOREM LockedMoneyIsAtTables == ~ReturnsInHand => (Spec => []LockedIsAtTables)
<1> SUFFICES ASSUME ~ReturnsInHand PROVE Spec => []LockedIsAtTables
  OBVIOUS
<1> DEFINE IInv == CreditInv /\ TypeInv /\ MoneyInv /\ SeatInv
<1>1. Init => IInv
  BY InitCredit, InitTyped, InitMoney, InitSeats
<1>2. IInv /\ [Next]_vars => IInv'
  BY StepKeepsCredit, StepTyped, StepMoney, StepSeats
<1>3. IInv => LockedIsAtTables
  <2>1. SUFFICES ASSUME IInv, running, AtRest, NEW a \in Accounts \ torn
                 PROVE  rows[a].locked = BroughtBy(a)
    BY DEF LockedIsAtTables
  <2>2. Matches(a)
    BY <2>1, IdleOp DEF SeatInv, LockedInv, Unlocking, AtRest
  <2>3. QED
    BY <2>1, <2>2, BroughtByIs
<1>4. QED
  BY <1>1, <1>2, <1>3, PTL DEF Spec

\* The assertion of lobby.c:1516, which fails only for those who do return: the
\* entrance to give back is locked.
THEOREM EntranceStaysLocked == ~ReturnsInHand => (Spec => []EntranceIsLocked)
<1> SUFFICES ASSUME ~ReturnsInHand PROVE Spec => []EntranceIsLocked
  OBVIOUS
<1> DEFINE IInv == CreditInv /\ TypeInv /\ MoneyInv /\ SeatInv
<1>1. Init => IInv
  BY InitCredit, InitTyped, InitMoney, InitSeats
<1>2. IInv /\ [Next]_vars => IInv'
  BY StepKeepsCredit, StepTyped, StepMoney, StepSeats
<1>3. IInv => EntranceIsLocked
  <2>1. SUFFICES ASSUME IInv, Doing("unlock"), task.account \notin torn
                 PROVE  task.locked >= Leaver.entrance
    BY DEF EntranceIsLocked
  <2>2. task.account \in Accounts /\ Leaver.entrance \in Nat /\ task # Idle
    BY <2>1, TaskByOp, IdleOp DEF Doing
  <2>3. task.locked = Leaver.entrance
    BY <2>1, <2>2 DEF SeatInv, LockedInv, Unlocking, Doing, MoneyInv, LockedAsRead
  <2>4. QED
    BY <2>2, <2>3
<1>4. QED
  BY <1>1, <1>2, <1>3, PTL DEF Spec
=============================================================================
