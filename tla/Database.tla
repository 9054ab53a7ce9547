------------------------------- MODULE Database -------------------------------
(***************************************************************************)
(* The tables accounts and monero_deposits of PostgreSQL as the server     *)
(* uses them (db.c, account.c, deposit.c): two connections, one used by    *)
(* the event loop and one by the deposit thread, at the default isolation  *)
(* level.  A statement outside of a transaction takes effect at once; one  *)
(* inside of it is seen by its own connection only and keeps the row from  *)
(* the other connection's updates until the end.  A plain select waits for *)
(* nobody and reads what is committed.                                     *)
(***************************************************************************)
EXTENDS Naturals, FiniteSets

CONSTANTS Accounts,     \* the accounts that may sign up
          Txs,          \* incoming transactions of the wallet
          MaxFailures   \* how many statements and calls may fail

ASSUME MaxFailuresAssumption == MaxFailures \in Nat

VARIABLES rows,      \* committed rows of accounts
          records,   \* committed rows of monero_deposits, by transaction
          open,      \* for each connection, its transaction
          failures   \* failed statements and calls so far

dbVars == <<rows, records, open, failures>>

\* :> and @@ of the module TLC, which the prover does not expand.
Only(x, value) == [y \in {x} |-> value]
Over(f, g) == [x \in DOMAIN f \cup DOMAIN g |-> IF x \in DOMAIN f THEN f[x] ELSE g[x]]

Connections == {"lobby", "service"}
Statuses == {"none", "pending", "confirmed"}

\* A row before its insertion; index and address are xmr_deposit_address_index
\* and the wallet's index of xmr_deposit_address, height is xmr_height.
NoRow == [exists |-> FALSE, balance |-> 0, locked |-> 0,
          index |-> 0, address |-> 0, height |-> 0]

NoTransaction == [on |-> FALSE, rows |-> << >>, records |-> << >>]

DatabaseTypeOK ==
  /\ \A a \in Accounts : /\ DOMAIN rows[a] = DOMAIN NoRow
                         /\ rows[a].balance \in Nat /\ rows[a].locked \in Nat
                         /\ rows[a].height \in Nat
  /\ records \in [Txs -> Statuses]
  /\ \A c \in Connections : /\ DOMAIN open[c].rows \subseteq Accounts
                            /\ DOMAIN open[c].records \subseteq Txs
                            /\ ~open[c].on => open[c] = NoTransaction
  /\ failures \in 0 .. MaxFailures

DatabaseInit ==
  /\ rows = [a \in Accounts |-> NoRow]
  /\ records = [t \in Txs |-> "none"]
  /\ open = [c \in Connections |-> NoTransaction]
  /\ failures = 0

-----------------------------------------------------------------------------
\* What a select on connection c returns.
RowFor(c, a) == IF a \in DOMAIN open[c].rows THEN open[c].rows[a] ELSE rows[a]
RecordFor(c, t) == IF t \in DOMAIN open[c].records THEN open[c].records[t] ELSE records[t]

\* An update of the row does not wait: no other transaction has it.
Unlocked(c, a) == \A d \in Connections \ {c} : a \notin DOMAIN open[d].rows

\* pkrsrv_db_transaction_commit and _rollback; a commit after a failed statement
\* is a rollback too.
CommitOn(c) ==
  /\ open' = [open EXCEPT ![c] = NoTransaction]
  /\ rows' = Over(open[c].rows, rows)
  /\ records' = Over(open[c].records, records)
(* Mutants of RollbackOn: it commits; it keeps what the transaction wrote.  *)
RollbackOnCommits(c) == CommitOn(c)
RollbackOnKeeps(c) == /\ open' = [open EXCEPT ![c].on = FALSE]
                      /\ UNCHANGED <<rows, records>>
RollbackOn(c) == /\ open' = [open EXCEPT ![c] = NoTransaction]
                 /\ UNCHANGED <<rows, records>>

\* An update of the row of a that succeeds, in or out of a transaction.
UpdateRow(c, a, row) ==
  /\ Unlocked(c, a)
  /\ IF open[c].on
       THEN /\ open' = [open EXCEPT ![c].rows = Over(Only(a, row), @)]
            /\ UNCHANGED rows
       ELSE /\ rows' = [rows EXCEPT ![a] = row]
            /\ UNCHANGED open

\* An insert or update of the record of t, which only the deposit thread has.
WriteRecord(c, t, status) ==
  open' = [open EXCEPT ![c].records = Over(Only(t, status), @)]

\* A statement or call fails.
Failing == /\ failures < MaxFailures
           /\ failures' = failures + 1
=============================================================================
