# A formal model of pokerunicorn-server

TLA+ modules, TLC configurations and TLAPS proofs for the poker server in this
repository (C, `src/src` and `src/include`). The modules are read next to the
code; `PROJECT.json` says, definition by definition, which lines each one
stands for.

Contents: [the system](#the-system), [modules](#modules),
[how the model corresponds to the code](#how-the-model-corresponds-to-the-code),
[runs](#runs), [bounds](#bounds), [fairness](#fairness), [proofs](#proofs),
[what the checks found](#what-the-checks-found),
[not modelled](#what-is-not-modelled), [plan](#plan).

## The system

A TLS (or WebSocket) server accepts clients, each with a receive thread that
turns packets into tasks of one event loop. The event loop runs them one at a
time; so all of the lobby's state (sessions, who watches and who plays, the
tables) has one writer. Delays are threads that sleep and then push a task. A
second long-lived thread polls a Monero wallet and credits deposits in
PostgreSQL, where the accounts live.

| component | state it keeps | operations | made correct by |
|---|---|---|---|
| poker table (`poker.c`) | players in joining order, seats, balances, bets, folded/all-in/left flags, street, turn, pot, current bet and raise, last raiser, action counter | add and remove a player, start, restart, proceed (timeout), do_action | bets, pot and turn belong together; every hand ends; chips only move |
| session (`lobby.c`) | clients, who joined, the pending proceed, start and restart tasks | start, stop, enter, leave, join, unjoin, proceed, start a hand, restart it, on_poker_action | one chain of timers; a hand is dealt only between hands; those who left are removed |
| lobby (`lobby.c`) | sessions, clients, authorised tokens | login, get tables, disconnect with tolerance, revive | a client is in the sessions it thinks it is in, across a reconnect |
| event loop (`eventloop.c`, `ref.c`) | task list, per task its flags and reference count | call, call_after, cancel, run | in order, one at a time, never after a cancel, nothing freed too early |
| accounts (`account.c`, `db.c`) | balance and locked balance, in memory per client and in the database | fetch, lock, unlock, update, revert at start-up | money is conserved over concurrent writers and a crash |
| deposits (`deposit.c`) | transactions seen, their status, the height scanned | poll, credit, confirm | each transaction is credited as it is recorded, and none is passed over |
| server (`server.c`) | clients and their threads | accept, receive, send, disconnect | a client is freed after its last user |
| authentication (`auth.c`, `trie.c`, `rsa.c`) | sessions, tokens | login, lookup by token | a token finds the client that holds it |
| cards (`card.c`, `random.c`) | none | draw, score a hand | the order of the hands |
| websocket (`websocket.c`) | a message's fragments, the mask in use, `write_mutex` | read a frame's header, read of a payload, answer a ping, send | a packet comes out as it went in; frames are not mixed |
| strings, arguments, Redis | buffers | text | |

How they interact:

* a client's receive thread → `pkrsrv_eventloop_call` → `on_client_*` in the
  lobby (a packet is a task);
* the lobby → `pkrsrv_poker_do_action` → the callback `on_action`
  (`poker.c:965-974`), which does not call the lobby but queues
  `on_poker_action` (`lobby.c:1677`) as another task;
* a session's `proceed` task re-arms itself every second, and after a hand arms
  `restart` in ten seconds, which arms `proceed` again;
* the second join of a waiting table arms `start` in ten seconds; an unjoin
  that leaves one client cancels `start` and `restart`;
* join and unjoin write the account's balances in the database, on which the
  deposit thread works as well.

The hard parts are therefore: what may happen between an action and its
reflection, and between arming a timer and its task (players leave, come back,
other clients act); a cancel that meets a task asleep, queued or just popped;
unsigned 64-bit amounts that are subtracted; searches round the table that have
no exit; a showdown among players with different stacks; and two writers of an
account. `PROJECT.json`, under "hazards", lists each at its line, with the
property that would catch it.

## Modules

| module | what it is |
|---|---|
| `Lists` | the linked lists of `sugar.h` as sequences: members, and removal |
| `Showdown` | how the pot is divided (`poker.c:881-963`), over amounts only |
| `Cards` | drawing, sorting and ranking a hand (`card.c`) |
| `ShowdownCases` | every small showdown against a reference of side pots, every hand of a small deck against a reference ranking |
| `SessionList` | the lobby's list of sessions with the pointers of `sugar.h`, reordered as players come and go |
| `Trie` | the trie from tokens to lobby clients |
| `Frames` | a WebSocket connection: the client's frames, the receive thread that reads them, the two threads that write |
| `MCAlgorithms` | the modules `ShowdownCases`, `SessionList`, `Trie` and `Frames`, side by side |
| `Poker` | the table: one operator per function and per phase of `pkrsrv_poker_do_action`, from table to table |
| `Session` | a session and its tasks: state, one action per task or packet, fairness, properties |
| `MCSession` | joins, actions and symmetry for TLC |
| `TaskQueue` | the event loop as its users see it |
| `EventLoop` | the event loop, its delay threads, lock, signals and references; implements `TaskQueue` |
| `CommonProofs` | lists, sums over finite sets, sums that wrap at the width of an integer, folds place by place, and what the loop of payouts can hand out |
| `ShowdownProofs` | the theorems about showdowns and about the ranks of hands |
| `SessionProofs` | lemmas about the table's operators; the session's invariant and theorems: types, bets, pot and chips, one chain of timers |
| `EventLoopProofs` | the event loop's invariant, its theorems, and the refinement step by step |
| `Database` | two PostgreSQL connections: committed rows, open transactions, row locks, failing statements |
| `Accounts` | the event loop's side of money: signing up, joining, unjoining, crash and reversion |
| `Deposits` | the deposit thread, composed with `Accounts` over `Database`; the properties of both |
| `MCBank` | symmetry for TLC |
| `DirectoryProofs` | what taking out and putting in does to the linked list, and what setting and unsetting does to the trie; the theorems about both |
| `FramesProofs` | that frames are written whole, and that packets come out as they were sent |
| `DepositProofs` | the five invariants behind the properties of the accounts' money, and the theorems |
| `Clients` | a connection: the accept thread, a receive thread per client, disconnection, references |
| `Membership` | the lobby over those connections: login, tokens, reviving, tables, tolerated disconnection |
| `MembershipProofs` | who reaches whom, who counts and who is freed, and the theorems about both modules |

`Session` extends `Poker`, which extends `Showdown` and `Lists`. `Session` is
written against what `TaskQueue` promises (a task is atomic, the queue is first
in first out, a delayed task is queued some time later, a cancelled one never
runs); `EventLoop` is the module that shows the promise is kept.

`Deposits` extends `Accounts`, which extends `Lists` and `Database`: the event loop and the
deposit thread as two actors over the same rows. `Membership` extends `Clients` and `Lists`:
threads, network and event loop over the same references. `Accounts` has a
table that only moves chips and `Membership` has tables that are only sets of
members; the table in full is `Session`'s.

## How the model corresponds to the code

**The table** is a record, `Table`, with the fields of `pkrsrv_poker_t` and
`pkrsrv_poker_players_t`. A player object is a member of `Players`; its fields
are functions of the record and its flags are sets. Objects are not accounts: an
account that leaves during a hand and comes back has two objects, and the model
keeps them apart the way the code does (`GetById` takes the first in the list).
A freed object goes back to the unused ones with all its fields reset; the code
sets every one of them when an object is made.

`pkrsrv_poker_do_action` is six hundred lines with labels; it is split where the
labels are: `MayAct` (the early returns), `Raise`/`Check`/fold/`OTHER` (the
kind), `Accepted` (all-in, then `NEXT_PLAYER`), `CloseStreet` (the switch on the
street), `WinByFold` and `PayWinners` (`DONE`). Details kept because they
matter: the order of the tests; the two lookups by seat, one in joining order
and one in the order of an unstable sort; that a fold counts as an action only
on the flop and the turn; that a raise below the current bet takes chips without
counting them; that any kind outside the enumeration passes the turn.

Amounts are `uint64_t` and wrap at `Modulus`. `current_bet` and `current_raise`
start at -1, that is `Modulus - 1`, as in `pkrsrv_poker_new`.

A **fault** is recorded in the table and ends the behaviour, because what the
process does afterwards is not the code's to say: `spin` (a search that never
ends), `null` (a NULL pointer is dereferenced), `undefined` (an entry of `ranks`
that nobody filled is used). `PKRSRV_UTIL_ASSERT` prints and goes on
(`util.c:147`), so a failed assertion is not a fault.

Cards are abstracted to what the table uses them for: `ranking`, the order of
the showdown, is any order of the listed players (`Rankings`). Entries of folded
players are the holes of the array. `Cards` has the ranking itself.

**The session.** Each action of `Session` is one task of the event loop:
`Join`, `Unjoin`, `ClientAction` (packets), `ProceedTask`, `FinishTask` (the
same function after a hand), `StartTask`, `RestartTask`, `OnPokerAction`.
`ProceedDue` and `DealDue` are delay threads that end, `Tick` is the moment the
turn's timeout passes. A client's packet may have been queued at any earlier
time, so client tasks are not kept in `queue` but may run before any member of
it. `napping` and `timers` hold delayed tasks; start and restart have the same
delay and so fall due in order, while the proceed task's second is independent
of them. The session points to one start only: arming a second one, or a start
that runs and sets the pointer to NULL, leaves any other `"forgotten"`, which
runs like every start and which no unjoin cancels (`Forgotten`). What becomes of
the reference counts then is left out.

`orderly` is a history variable: the hand in play was dealt between hands, on a
table with nothing left of an earlier hand and one player to a seat and to an
account. The code does not guarantee this (see the findings); the properties
about bets, pot and turn are about hands dealt that way, and the runs under
"findings" show what happens in the others.

**The event loop.** A section under the loop's mutex is one step; a task's
function and each reference dropped outside of the mutex are steps of their own.
The task functions are those of the lobby as far as tasks go: which references
it takes before or after handing a task over (`CallAfter`, `Adopt`), and the two
orders in which it cancels (`LeaveToCancel`/`CancelTarget`, where unjoin drops
its reference and then cancels through the pointer;
`CancelToLeave`/`DropTarget`, as in stop and in a second disconnection). A
session's pointer is taken to name the task it was set to; that a second start
overwrites it (possible only after an account has left twice with two player
objects) is followed in `Session`, and not here.

**The database.** A statement outside of a transaction is committed at once; one
inside is kept in `open` of its connection, and makes the other connection's
update of that row wait until commit or rollback. A plain select waits for
nobody. `pkrsrv_account_fetch` copies a row into the account object of the
caller, and the updates write what was computed from that copy; so each of the
two threads' fetches and statements is a step of its own, and what they keep in
between is in `task` and `service`. `update_balance` selects the row for update
only after the new balance was computed (`account.c:258`): that is the lost
update which `stale` names. Three variables are history: `owed` is what an
account should have, `stale` and `torn` name the accounts of which an outdated
read, or a transfer that failed or crashed between its two statements, was
written. A statement that fails makes the code take its path for that; a
`pkrsrv_account_fetch` that fails uses NULL and is the crash of the process,
which may happen at any step anyway.

The wallet's answer is the transactions to an address above the account's
height. `InBlockOrder` is an assumption about it, named as a constant: the
answer lists lower blocks first. Without it a crash between two transactions of
an account leaves the height above the one not handled. The height column is
taken to refuse `height - 1` for a failed call's height of 0, which is 2^64 - 1.

**Connections and members.** `net` is what the threads share and the server's
mutex protects: the list, `is_alive`, the counts, the event loop's queue. The
receive threads push tasks, the event loop's task functions are the actions of
`Membership`, and a write of theirs that fails runs `client_disconnected` in the
event loop. A lobby client is named by the connection it was made for, and
`owner` is `client->owner`, which a revival changes. Its references are its
connection's and one for each membership. Using what is freed, or NULL, is
recorded in `fault`, named for the pointer, and ends the behaviour.

`Orderly` says what is asked of clients and network in the passing run: a client
logs in or sends its token once per connection and while it is alive; a token is
sent only after the server noticed the loss of the connection that holds it and
that connection's threads are gone; a failed connection's thread ends within the
tolerance of twenty seconds; and a connection does not fail before its own
`connected` task ran. Nothing in the code enforces these. Without the last, the
client is freed under its queued `connected` task; without the third-last, the
run `late_disconnect` shows what happens. `Orderly` is FALSE there.

**Algorithms.** `Cards` has what `card.c` does to any seven cards; since
`pkrsrv_random_range` leaves out its upper end, the fourth kind is never drawn
and a hand has at most three cards of an index. `Sorted` is the loop of compared
and exchanged pairs, a fold over all 49 of them. The check of each category tries a
few orders of the five cards and keeps the first that fits; `Arrangements` lists
these orders, `Grouped` says what must be alike in them, and `Score` reads the rank
off the one that `Arranged` finds. `SessionList` has `first`,
`terminal`, `next` and `previous` of each session and follows
`reorder_updated_session` link by link. `Trie` names a node by the characters
that lead to it, so that the nodes that are allocated are the domain of a function;
`Made` and `Freed` are what the loops of `pkrsrv_trie_set__ascii` and
`pkrsrv_trie_unset__ascii` do to one node and the count of its parent.

**Frames.** A packet is a sequence of bits and a key four of them, since all the
code does to bytes is an exclusive or with the key's. A `wire` of frames stands
for the connection from the client; `ReadHeader` is one round of `READ_FRAME`
in `pkrsrv_websocket_read_header`, with one disjunct to each kind of frame, and
`ReadBuffered` and `ReadUnbuffered` are `pkrsrv_websocket_read_payload`. A
handler reads its packet in any parts. `pkrsrv_server_send_*` and the answers of
the receive thread (a pong frame, and `PONG` to a `PING` packet) write their
pieces one at a time under `write_mutex`. The handshake is over when the module
begins, and three things are asked of the client and network: a message holds
one packet (what follows it in a message would be taken for a frame, or refused
as one); no frame but a close is empty (`pkrsrv_server_ssl_read` of no bytes
returns 0, and the client is disconnected, for an empty ping too); and the
client keeps to the WebSocket protocol, so that the refusals of a continuation
without a beginning, and of a message within another, are there but not reached.

## Runs

Passing runs:

* `heads_up`: two accounts, up to three hands, every kind of action in every
  order with timers and reflections. `BetsWithinCurrentBet`: a call never costs
  a wrapped amount. `PotIsTheBets`: the six places that add to the pot agree
  with the bets. `TurnCanAct`: the turn is never at somebody whose actions are
  all refused. `NoHang`: the searches end and no unfilled rank is read.
  `OneDriver`: one chain of timers. `ChipsNeverCreated`: a step in a hand,
  its payout included, adds no chips.
  `HandEnds`: once clients fall silent, the timeout's folds end every hand.
* `three_handed`: three stacks, one account leaves and returns at any time.
  The bet, pot and timer invariants hold there as well.
  `RedealsOnlyWhenCrossed`: a hand in play has a deal pending over it only if a
  start and a restart were pending together when it was dealt, or if a player
  whom no client plays sat at the table. The run reaches the first case; the
  second takes five joins and two who leave, beyond its bounds, and is left to
  the theorem. The turn and the chips
  do not: a player who left still acts with chips he has cashed out, and the
  turn may reach a player who is gone.
* `event_loop`: four delayed tasks and one queued by another thread.
  `NoUseAfterFree`, `ReleasedWhenSettled` (nothing leaks but the cases the code
  leaks), `EveryTaskEnds` (no lost wake-up), and `ImplementsTaskQueue`, the
  refinement of `TaskQueue` with its fairness.
* `algorithms`: the payout over every showdown of three players with bets up to
  four never overpays, limits an all-in to what he matched, and is exactly the
  side pots for equal bets or a shorter best hand of two. Over every seven cards
  of a deck of four indexes in three kinds and three single cards, in two
  orders of drawing, the rank has the category of the best hand
  (`CategoryIsRight`, but for straights, which the code never finds) and leads
  with the group that makes it (`LeadsWithItsGroup`, but for two pairs and high
  cards, which lead with the lower pair and the lowest card). The list of three
  sessions stays linked both ways and sorted by players through every sequence
  of operations (`WellLinked`, `MostPlayersFirst`), and five tokens that begin
  alike find what they were last set to, with no node freed too early or kept
  too long (`TrieIsMap`). Two packets, cut into frames in every way, masked or
  not, with a ping anywhere and a packet of the event loop going out, reach
  their handlers as they were sent (`PacketsComeOut`), and no frame written is
  broken by another (`FramesAreWhole`).
* `bank`: two accounts, one transaction, a crash. `LockedIsAtTables`: what is
  locked is what the account brought to the tables, whenever the event loop is
  between two tasks. `OwedIsOwned`: free and locked money are what the account
  was given, deposited, won and lost.
* `deposits`: two transactions, a failing statement, a crash, blocks mined
  during a poll. `CreditedAsRecorded`: the record and the credit go together.
  `NoDepositPassedOver`: the height never passes a transaction that is not
  recorded, unless the service gave it up after a failed statement.
* `deposits_arrive`: every transaction is recorded or given up in the end.
* `membership`: three connections of one account. `NoUseAfterFree` names the
  four ways in which something freed or NULL is used and excludes all others;
  `BothSidesAgree`: the session's list of clients and the client's list of
  sessions; `OnlyTheGoneAreRemoved`: a client that came back in time keeps its
  seat; `GoneAreRemoved`: one that does not is removed.

Violation runs, one for each finding, are listed
[below](#what-the-checks-found).

Every property of a passing run has a mutant: a definition of the code changed
the way a slip would change it, under which the run finds the property
violated.

## Bounds

`MaxJoins`, `MaxHands`, `MaxQueue` and `MaxCounter` bound a session's
behaviours. Two accounts and three hands suffice for heads-up play to reach
every street, fold, all-in and showdown, the restart after each, and a hand that
begins with what another one left over. Stacks of four and five with blinds of
one and two give a call, a raise, an even and an uneven all-in, and a broke
player. `MaxQueue` limits how many of a session's own tasks wait when a client
acts: one reflection late is enough to make it stale, three let two stale ones
interleave. `MaxCounter` bounds the accepted actions of a street (only a kind
outside the enumeration could otherwise go on for ever). `Modulus` is 64: larger than any honest sum, so that a wrapped
amount is recognisably huge; the proofs hold for every width.

The session runs set `CHECK_DEADLOCK FALSE`: a fault ends a behaviour, a bound
may, and a table whose restart was cancelled has really nothing left to do.
`event_loop` checks deadlock, since the loop always waits.

`event_loop` has two session tasks (start and restart may be alive together),
one tolerated disconnection and two tasks of the other kind, so that a cancel
meets its target asleep, first or second in the queue, popped or gone.

`bank` has two accounts so that chips move between them, two joins of each so
that one leaves and returns, one hand and one crash. `deposits` and
`deposits_arrive` have one account: the thread handles one at a time, and what
matters is the order of its two transactions against blocks, failures and a
crash. Joins are two in `bank`, one in `deposits`. The same definitions with
`ReturnsInHand = TRUE`, an account that comes back in the hand it left, are
`unlocked_twice`.

In `algorithms`, one packet of five bits is longer than the key, so that the
mask comes round, and one of two is cut once; two make what a packet leaves in
the connection's struct meet the next; one ping and one packet of the event loop
suffice for two writers to meet. A hand comes in two orders (`Shuffles`), one sorted
upwards and one mixed; the proof is about every order. The lists, hands and bets are described with
the run.

`membership` has three connections and two clients at a time, so that a lost
client is revived twice and a third connection meets the limit; one account and
one table suffice for a member to be looked up through a revived owner; one
task waits when a packet arrives, which with the tasks of connecting,
disconnecting and timers is up to four. Deadlock is not checked where bounds,
a crash or a fault may end a behaviour.

## Fairness

`Session`: the event loop goes on running the tasks of its queue, and time
passes (`ProceedDue`, `DealDue`, `Tick`): the loop is an unconditional
`while`, delays are sleeping threads. Clients have no fairness. The tasks' weak
fairness is written out in `Spec` because the ENABLED of a task that computes a
whole table is expensive.

`EventLoop`: `LoopStep` is weakly fair as a whole (one thread), and so is each
delay thread. Other threads that queue tasks are not, and neither is a spurious
wake-up. Every task function of the program returns, and none waits for another
task; that is part of the assumption on `LoopStep`.

`Deposits`: the deposit thread goes on, statement by statement, and so does the
event loop's task in hand; a process that died is started again (whoever runs it
does that, not the code). Crashes and failures are bounded by constants; nobody
is obliged to sign up, join or mine.

`Membership`: the event loop handles its queue, the delays end, and the read of
a connection that was found lost fails (the socket is gone). Clients have no
fairness: `GoneAreRemoved` holds whatever they send.

## Proofs

`tlapm` checks eight modules. They are about every value of the constants under
the assumptions that the modules name:

| module | holds for | assuming |
|---|---|---|
| `SessionProofs` | every set of players and accounts, every join and action a client may send, every bound | amounts below the width, one to ten seats, `2 * SmallBlind <= BigBlind`, finitely many players and accounts; two theorems assume `HeadsUp` |
| `ShowdownProofs` | every showdown, whatever the bets, the order of the hands and the entries no hand was computed for; every hand of seven cards, of the whole deck or a part of it, in every order of dealing | finitely many players, bets in the naturals |
| `EventLoopProofs` | every set of tasks, divided in any way into the session's, tolerated disconnections and others | |
| `DepositProofs` | every set of accounts and transactions, every crash, failure and bound | finite sets; two theorems have a hypothesis of their own |
| `FramesProofs` | every set of packets, keys and bounds, every way to cut and to interleave | |
| `DirectoryProofs` | every finite set of sessions, any numbers of players; every set of tokens over any characters, every set of clients | no token is empty |
| `MembershipProofs` | any number of connections, accounts, tokens and tables, any limit of clients, any interleaving of threads, network, timers and event loop | finitely many tables; `Orderly`, see below |

`CommonProofs` is what they share, and the lemmas about the payout's loop that the
session and the showdown both cite. The sums of the models are folds that choose an
element of a set and go on with the rest; `CommonProofs` shows, for finite sets of
any size, what the provers need of such a sum (`SumStep`: an element and the sum
of the others), and from it that sums are monotone, split and change with one of
their terms. The
library's induction theorems take an operator, which the provers cannot
instantiate; `LeastNat` and `BySmaller` put a set in its place.

### The session

* `TypeCorrect`: `Spec => []TypeOK`. The substance is that subtractions which
  the code leaves unguarded at the statement itself (`balance -= to_bet`) stay
  within the width, through every path into them.
* `BetsStayWithin`: `Spec => []BetsWithinCurrentBet`.

Neither is inductive. The invariant is

    IInv == TypeOK /\ Visible(poker) /\ (orderly /\ InHand(poker) => HandInv(poker))

`Visible` says which states the lobby sees: the two blinds' states exist only
inside `pkrsrv_poker_start`, and in them a raise would mark a street that there
is none of. `HandInv` adds to the bound on the bets what the small blind's first
call needs, since that call adds one small blind whatever the current bet is: while
`is_sb_must_call` holds, the small blind has at most his blind in, the current
bet is at least the big blind, and no other object at the table has the small
blind's account. The last is why `orderly` asks for one object to an account,
and the second call's bound is where `2 * SmallBlind <= BigBlind` is used (with
a smaller big blind the call would exceed it).

The first part of `SessionProofs` has a lemma for each operator of `Poker` (what
it returns is a table, and what it does to `HandInv`), the second one for each
action of `Session`; `InitInv`, `NextInv` and `Invariance` put them together.

`HandInv` also has what the pot is:

* `PotIsTheBetsModuloWidth`: in a hand dealt on a cleared table the pot is the
  sum of the listed players' bets, modulo the width of both. It has no further
  hypothesis. That it is inductive is not obvious, since a raise, a call and the
  blinds each add to pot, bet and balance in statements of their own, with
  amounts that are differences of unsigned numbers, and a player who joins in
  the hand brings a bet that is set to zero.
* `PotIsWhatWasBet`: `Spec /\ []BetsFit => []PotIsTheBets`, where `BetsFit` says
  that the sum of the bets is below the width. The model's constants do not
  exclude the contrary (many players may each bring almost `2^64` chips), the
  stakes of the lobby do; the runs satisfy it.
* `PlayCreatesNoChips`: as long as `BetsFit`, no step that plays a hand lets the
  balances of the listed players and the pot grow together. Each operator has
  its lemma (`ActedChips`, `TurnChips`, `WinByFoldChips`, `ShowDownChips`); the
  last one uses the theorem about payouts below for the players at the table.
* `NoChipsCreated`: `Spec /\ []BetsFit /\ LeftPayNothing => ChipsNeverCreated`.
  `OnTable` counts the players who are still there, so a player who left and
  acts all the same (see below) adds chips to it that were not counted.
  `LeftPayNothing` excludes that; in the run `heads_up` nobody leaves.

`DrivenOnce`: `Spec => []OneDriver`. Given `IInv`, the bound
is inductive once it also counts a proceed task among the timers, where there is
none: `TaskDrivers` shows that a task which arms a driver has just been one
itself, `ClockDrivers` that a timer only moves one, and `ClientDrivers` that a
packet makes none, since a join arms a start task and an unjoin only cancels.
The lemmas before them say what appending, taking the first, echoing actions
and cancelling do to the number of a task's occurrences.

`RedealsCrossed`: `Spec => RedealsOnlyWhenCrossed`. When the first deal runs, what
must be known is that the next one is already crossed with it, and that depends
on everything that armed or cancelled one before. `DealsInv` carries it. No more
clients are joined than players stay at the table. While they are as many:

* no start is forgotten, and one at most is pending;
* a start that is pending finds two clients joined and a table that does not
  wait for players, so that no join arms another;
* a restart pending over a hand finds two clients joined;
* a table between hands lists nobody who left.

An unjoin is the hard step. It takes away a client and, unless its account's
first player had left already, a player with him; down to one client it cancels
whatever is pending, so that the bounds on two clients hold again. If that player
had left already, there are fewer clients than players who stay (`Unattended`),
and of deals nothing is claimed while that is so. The proof uses
`DrivenOnce`: a restart is pending at most once.

`TwoCanAct` and `TwoNeverHang`: `HeadsUp /\ Spec => []TurnCanAct` and
`HeadsUp /\ Spec => []NoHang`. `HeadsUp` says of the constants that two joins
happen, that whoever joins brings the big blind at least and each account asks
for a seat of its own, that nobody unjoins, and that the entrance minimum covers
the big blind; the run `heads_up` satisfies it. Accounts, stacks, blinds, raises,
hands and the order of tasks are any. None of it can be dropped from `TurnCanAct`
lightly: `stuck_turn` breaks it with three stacks, and whoever sits down while a
restart is pending crosses a start with it, which deals over the hand. A blind
that is not covered is not posted, and the hand begins all the same.

`HeadsUpInv` says which deals are pending in each of four phases: before the
first hand a start at most, between two hands the restart, in a hand and after
it none. So every hand is dealt on a table that is `Fresh`, to two who cover the
blinds (`StartTwo`). `TwoHanded` is what keeps such a hand playable. Its first
parts say that the turn is with somebody who is able, that the able have chips,
and that if one is not able, `is_playing_last` is set, so that the next accepted
action ends the hand. They are not inductive: with two starters the next street
begins with the big blind, whether he is able or not (`poker.c:632`). `Square`
is what the next street needs of the last one: where the big blind would have the
last word (`last_raised_pos` is his seat, or it is unset on a street that is raised
already), his bet is the current bet. It follows that he is not all-in there with
the hand still on. That in turn needs the call of the small blind to be exact
(`CallIsSmallBlinds`, `CheckTwo`), a raise to leave its maker with the current bet
(`BetRaisedTo`, `RaiseTwo`), and that `raised` names no street to come. `NoHang` follows, since the
search for the next player starts only while somebody is able (`NextOfTwo`), the
exchange sort keeps both of the list (`SortedTwo`), and at a showdown nobody has
left, so that every rank is filled (`SettleDefined`).

### The payout

* `OverpaysNever`: `Spec => []NeverOverpays`.
* `MatchedBetsOnly`: `Spec => []OnlyMatchedBetsAreWon`.
* `SidePotsArePaid`: `Spec => []PaysSidePots`.

The first two follow from `SettleWithin`, whose invariant along the loop of
`pkrsrv_poker_pay_winners` is `Within`: what was paid and what is left of the
bets of the contenders not reached yet is together no more than what the
contenders bet; only a contender who was reached has been paid, and at most his
own bet from each contender. The first conjunct alone is not inductive: an entry
takes from those behind it, so the bets left have to be counted without the
entries passed, and an entry that comes twice would be paid twice, which is why
`Showdowns` asks that the sort left every player once.

The third adds what is paid from below. `PaidOnce`: no later entry changes what
an earlier one was paid, so the first two entries can be followed through their
two steps (`FirstTwoPaid`). `PaidToTheLast`: a payout that is defined has paid
contenders until the pot was used up, so whoever is no contender has bet nothing;
with it, of a level pot the first entry gets everything, and there is nothing
left for others by the bound above. Bets of three and more players that differ
are not paid as side pots are, which is why the property names the two cases
(`earned`, below, shows a winner who does not earn the pot).

### The cards

* `RanksByCategory`: `Spec => []CategoryIsRight`.
* `LeadsRightly`: `Spec => []LeadsWithItsGroup`.

Both compare what 21 choices of five sorted cards score with how many cards of each
index and kind there are among the seven, which says nothing of sorting or choosing.
The invariant `HandInv` is simple (a rank is the best rank of seven different cards);
the work is in what the operators compute.

* The sort compares every place `r` with every place `j`, also those after it. `Row`
  is what holds after each comparison: the places before `r` are in order, none of
  those compared lies below the card at `r`, and the lowest of all is the last of
  those in order until `j` passes it (`RowStep`). An exchange keeps the cards
  (`ExchangedIs`), so that the sorted seven are the dealt ones (`SortedIs`). The
  mutant `SortedOnce` compares a pair once and breaks this.
* Five of the seven go down in index. So no straight is ever found, which the checks
  look for upwards (`NoStraight`), and three kinds leave no four of an index
  (`NoFour`). For the other categories `FitsPair` to `FitsFullHouse` say which
  arrangements of the five fit.
* What a five has, the seven have: its cards are at different places (`FiveMakes`,
  with `CountedInFive`). What the seven have, some five has (`MakesFive`): no more
  than five places are among some five that go up (`Covered`), since two places are
  left over.
* `ScoreIs` takes a rank apart into the category, the card that leads and a rest too
  small to matter to either, so the best rank is the best category, and in it the
  best lead (`BestFive`). From there each category has its lemma (`LeadsThree`,
  `LeadsFullHouse`, `LeadsPair`, `LeadsTwoPairs`, `LeadsFlush`, `LeadsHighCard`): a
  five that would lead with a better card exists, hence scores no more than the
  best one.

### The event loop

* `NeverUsedAfterFree`: `Spec => []NoUseAfterFree`.
* `ReleasedInTheEnd`: `Spec => []ReleasedWhenSettled`.
* `TypeCorrect`: `Spec => []TypeOK`; that `refs` stays in the naturals is the
  assertion of `ref.c:33`.
* `KeepsThePromise`: `Spec => Queue!Init /\ [][Queue!Next]_(Queue!vars)`, the
  safety half of `ImplementsTaskQueue`.

The invariant names who holds a reference. `CallHolds(t)` is the one that the
call took and whose holder changes: it is dropped by the loop after the task, or
by the delay thread that finds the task cancelled, or (cancelled in the queue)
by nobody. `Holders(t)` adds the list's, the delay thread's, the lobby's, and the
one a cancel is about to drop. `Counted` says that a count is the number of its
holders, and for tolerated disconnections at least that. The rest of the
invariant is what makes each step drop a reference it has: `Lifecycle` (a task
asleep was never queued), `Queued` (the list is the tasks queued and neither
popped nor cancelled, each once), `Control` (what `current` and `target` may be at
each place of the loop), `Ownership` (a session's task it still points to has not
been popped, except by the function that is about to let go of it). The last is why
dropping the reference before cancelling (`lobby.c:1565`) is safe: the call's
reference is still there.

The refinement maps a task's function to `running`; a cancel of a task that has
ended, a wake-up that finds its task cancelled, and everything about references
is a stutter.

### The deposits

Five invariants, each of which the next one uses.

* `CreditInv`, for `CreditedAsOftenAsRecorded` (`Spec => []CreditedAsRecorded`).
  The property speaks of committed records, and breaks only at a commit; so the
  invariant adds what a transaction in progress is about to commit: which record
  it has written, whether the balance was written before it, that only the
  deposit thread's connection ever has records, and that a transaction once
  pending is in `wasPending`.
* `TypeInv`, for `RowsStayTyped` (`Spec => []TypeOK`): what a thread's copies and
  its open transaction hold at each of its statements.
* `MoneyInv`, for `OwedMoneyIsThere` (`Spec => []OwedIsOwned`): how a row that a
  transaction has written differs from the committed one (`LobbyWrote`,
  `ServiceWrote`), that never both connections have written one row
  (`RowLocks`), and that what a task of the event loop has read of `locked` is
  still so. Without the last, a lock computed from its copy could undo another;
  it holds because only the event loop writes `locked`.
* `HeightInv`, for `HeightsPassNothing`
  (`InBlockOrder => (Spec => []NoDepositPassedOver)`): for the accounts, for the
  copy the thread works on, and for the height in an open transaction, whatever
  was mined at or below is recorded, given up, or still on the thread's list;
  the list holds every deposit from the height on, in the order of the blocks.
  `InBlockOrder`, a constant of the model, says that the wallet answers in that
  order. The code relies on it (`deposit.c:119-222`).
* `SeatInv`, for `LockedMoneyIsAtTables`
  (`~ReturnsInHand => (Spec => []LockedIsAtTables)`) and `EntranceStaysLocked`
  (`~ReturnsInHand => (Spec => []EntranceIsLocked)`): an account sits once, who
  unlocks is at the place that is being unlocked, and what is locked is what was
  brought, less or more what the transaction in hand has changed.
  `ReturnsInHand` allows an account to come back in the hand it left;
  `unlocked_twice` shows that with it the second theorem's property fails, and
  the theorem that nothing else makes it fail.

### The frames

* `WrittenWhole`: `FramesSpec => []FramesAreWhole`. What is written says nothing
  of what a thread is about to write; `WriteInv` adds that what the holder of
  `write_mutex` has left is exactly what follows the last piece, that every other
  thread stands before a frame's first, and that the receive thread has written
  its pongs when it reads a payload.
* `ComesOutAsSent`: `FramesSpec => []PacketsComeOut`. `PacketInv` gives each
  frame on the wire two places in what the client sends, so many messages, so
  many bits of the next and so many pings: the frame leads from one to the other
  (`Leads`), the next frame begins where it ends (`Route`), the last one ends
  where the client is (`ClientAt`), and the first begins where the receive
  thread is (`ReaderAt`). Where that is depends on how far it has come: in the
  header with fragments buffered, in a buffered message read in parts, or in a
  whole message with the mask's key at the offset of the bits already read.

### The list of sessions

* `StaysLinked`: `ListSpec => []WellLinked`.
* `StaysOrdered`: `ListSpec => []MostPlayersFirst`.

The properties walk the list, and nothing can be said of a walk until the
pointers are known not to lead in a circle. So the invariant has a sequence of
distinct sessions instead: `Links` says that every `next` and `prev` is its
neighbour in it, that the list's two ends are its ends, and that its length is
the list's. Then each macro is a change of that sequence: removing takes out one
place (`RemoveLinks`), placing puts in one (`PlaceLinks`, `PlaceLastLinks`,
`AppendLinks`), whichever of the neighbours are missing. `Chain` walks the
sequence (`ChainIs`, by induction on the steps of its recursive function), from
any place to the end (`FromIs`); that is needed within
`reorder_updated_session` too, which searches from where the session was.

For the order, the session that is being moved is the only one out of place
(`SortedBefore`, with the number of players it had). Without it the list is sorted
(`LesserSorted`), and put in before the first that has no more players, or last,
it is sorted again (`GreaterSorted`): the sessions that the search does not pass,
those in front of where one that lost players was, have at least the players it
had before.

### The trie

* `TokensFindClients`: `TrieSpec => []TrieIsMap`.

The property says which nodes are allocated by the tokens that are set, and that
cannot be kept step by step: within `unset` a node is for a moment in no use. The
invariant `TrieInv` says it of the nodes instead. `Grown`: the root is there, every
other node has its parent, and a node's count is the number of its children.
`BusyBut`: no node but the root, and those of a set, is in no use. And every key
finds what `map` says, other sequences nothing.

The two loops are folds (`Made` over the way down, `Freed` over the way up). What
a fold gives is first a function of sets of steps, which a theorem of recursion on
finite sets would give if the provers could instantiate it; `FoldExists`
(`CommonProofs`) builds it by hand, and `PrunedSteps` and `SetSteps` turn a fold
into a sequence of tries,
each made from the one before. Along that sequence `UnsetIs` keeps that the only
node that may be in no use is the next one up, and `SetIs` the only one below; both
keep the values of all other keys, since a freed node has none and a made one
gets none.

What the invariant says of nodes then gives what the property says of tokens.
Every node on the way to a set token is there (`WaysAreThere`, a node has its
parent). The other direction is the harder one, that nothing is left behind: of
the allocated nodes that continue a given one, take a longest (`Longest`); it has no
children, so its count is 0, and as it is in use it has a value, which is that of a
token that is set (`LeadsToValue`).

### The lobby's members

All four assume `Orderly`, which three guards of the model state: a client logs
in or sends a token once and not before it was connected, and a token only when
the server has noticed that the connection which holds it is lost (`SendToken`);
a connection does not fail before its task has connected it (`ReadFails`,
`WriteFails`); a lost connection is closed before its tolerance is over
(`TimerDue`). The code enforces none of it. `late_disconnect` is a run without
it, and shows that without it `OnlyTheGone` is false.

* `SidesAgree`: `Spec => []BothSidesAgree`.
* `OnlyTheGone`: `Spec => OnlyTheGoneAreRemoved`.
* `CountsAre`: `Spec => []TypeOK`, the bounds of the two reference counts.
* `NothingFreedIsUsed`: `Spec => []NoUseAfterFree`.

The invariant of the first two, `Places`, has five parts:

* `TypeInv`.
* `OwnersInv`: who reaches whom. A connection's lobby client is reached by the
  last connection it was given; one without an account is the one it was created
  for. Only a lobby client that another one has taken over is not reached at all.
* `SidesInv`: the two lists agree for who is reached, every member has an account,
  and two members of a table have different ones. The last is what makes leaving
  right: the member taken out is looked up by account
  (`lobby.c:1654`), and must be the one that leaves.
* `HolderInv`: a token that is held was created, and no lobby client holds two.
* `Queues`: what a task in the queue says of those behind it (`Before`) and what
  it will find when it is handled (`Finds`). Handlers run later than what called
  them, so most of what a handler relies on is a fact about the queue: that a
  disconnection is handled before its delay starts, that no second token of a
  client waits, that whoever holds a token that waits is lost and stays so.

Reviving is the step that most of it is for. It gives one lobby client's
connection to another, and puts the other in the first one's place at the tables.
That this leaves the two sides in agreement needs that the first one had no tables
(it had no account), and that the other's connection is lost and its thread gone.

For the counts, `CountInv` says that a connection is counted by the list and its
thread while it is alive, and by the lobby client it was connected with until that
client is freed while it still is its client; and that a lobby client's count is
between 0 and its tables and one. That it is no more than that is all that can be
said in general: one that was left revived leaves nothing when its tolerance is
over, but drops its connection's use all the same.

`FreeInv` says which these are. Unless a lobby client was left behind so
(`ghost`), one that is reached has all its uses or none (`WholeInv`); nothing waits
for one that has none but what was delayed before (`WaitInv`); a lost one knows its
delay (`DelayInv`), so that it is handled once; a thread without a lobby client
waits for the task that gives it one (`AwaitInv`); and a freed connection is one
that its lobby client dropped (`FreedInv`). It holds as long as the program is
`Sound` and there is no ghost. After a misuse nothing moves any more, and a ghost
stays one, so that is enough for `NoUseAfterFree`, which names both. `HeldInv`
needs no such condition: a token that is still its lobby client's finds it with
all its uses, so that the fault `node` comes of outdated tokens only.

### Only model-checked

* Liveness (`HandEnds`, `EveryTaskEnds`, `DepositsArrive`, `GoneAreRemoved`) and
  the fairness half of the refinement, which are out of the provers' reach.
* `TurnCanAct` and `NoHang` of tables other than `HeadsUp`. With three stacks
  `stuck_turn` shows a turn that cannot act, so they are no theorems of every
  table.

## What the checks found

Four runs end in a counterexample to something the repository says of itself.

| run | what happens |
|---|---|
| `stuck_turn` | the turn stands at an all-in big blind, and the timeout's fold is refused for ever (`poker.c:419`, `631`) |
| `earned` | the best hand, all bets matched, is not paid the pot: shorter stacks' and folded players' chips vanish (`poker.c:944`) |
| `unlocked_twice` | an account that left and returned in a hand stands up twice as its first player; the assertion of `lobby.c:1516` fails, and its chips are paid all the same |
| `late_disconnect` | the task of a lost connection, queued behind the new connection's token, marks the revived client lost; it is removed although it is back (`lobby.c:1071`, `lobby.h:42`) |

Seen in the model, and no property of a run because nothing in the repository
states the contrary, or because a single comparison shows it:

* A table of `max_players` admits one more (`poker.c:1051`). The small blind's
  first call pays one small blind whatever is owed (`poker.c:543`).
* Somebody who sits down at a table of one that waits for its restart arms a
  start beside it (`lobby.c:1459`). The restart deals, and the start deals again
  in the middle of that hand, which `RedealsOnlyWhenCrossed` names as its exception.
* An account that leaves in a hand, comes back and leaves again in it marks its
  first player as left twice (`poker.c:1130`): the second stays at the table and
  nobody plays him. A start may then be pending with no two clients joined, be
  armed twice, and be forgotten by the session (`lobby.c:1464`).
* A start task armed before a hand ended deals with that hand's pot and bets
  still on the table, and to players who left in it (`poker.c:105`,
  `lobby.c:231`): only the restart and the finished hand's proceed task clear
  them.
* Two updates of one account at the same time lose one (`account.c:258`); a
  crash between the two statements of a lock loses the amount
  (`account.c:453`). A transaction that was pending is credited again when it
  confirms (`deposit.c:140-184`), which `CreditedAsRecorded` states.
* A client over capacity is freed and then taken off the list
  (`server.c:1760`). After a revival the trie keeps the old token, which may
  find a freed lobby client (`lobby.c:534`). A second token after a refused one
  is answered with an account that is NULL (`lobby.c:499`, `server.c:743`). A
  revival whose answer cannot be written leaves the lobby client at its tables
  but without the use its connection had (`lobby.c:588`, `1118`); leaving frees
  it in use. These are the exceptions `NoUseAfterFree` names.
* Straights are never found and two pairs are compared by the lower one first
  (`card.c:304`, `201`). Only 39 cards are drawn (`random.c:29`); when a start
  task has dealt so often without a restart that all are in `card_history`,
  drawing never ends (`card.c:36`).
* `on_poker_action` and `pkrsrv_poker_proceed` look up the player at the turn's
  seat; after a player was removed there may be none, and the code uses the NULL
  (`lobby.c:1708`, `poker.c:1009`). This is the fault `null`, which `NoHang`
  leaves out.
* A player who left during a hand, and was paid his balance, can still act with
  it until he is removed. An account that leaves and rejoins within a hand has
  two objects; every lookup by account finds the older.
* Two players may take one seat (`poker.c:1090`); lookups by seat then find one
  or the other, depending on the list. A seat is taken for less than
  `enterance_min` (`lobby.c:774`). Blinds that put both players all-in run a
  showdown inside `pkrsrv_poker_start`, which then deals the hand
  (`poker.c:858`).
* Two joins before the session's first proceed task never arm a start: the
  table is then `CREATED`, not `W4P` (`lobby.c:1459`).
* When an unjoin cancels the restart, no proceed task is pending either, and
  nothing arms one again: a later join still arms a start, but that hand has no
  timeout and nothing follows its end.
* The handshake is answered outside of `write_mutex` and after the client's
  protocol counts as determined (`server.c:1813`), so that a broadcast of
  sessions may come out before the answer or in the middle of it. The fragments
  of a message that a lost connection cut short are never freed:
  `pkrsrv_websocket_cleanup` has no caller.
* Cancelling a queued task leaves the call's reference, and a tolerated
  disconnection leaves its owner's (`eventloop.c:293`, `lobby.c:1127`): both
  leak a task object, no more.

## What is not modelled

* `pkrsrv_eventloop_stop` and the prepending calls: nothing calls them.
* What becomes of a session that its last client leaves: `SessionList` unlinks it
  and `EventLoop` has the two cancels of `pkrsrv_lobby_session_stop`; the proceed
  task that it starts to free the session is left out. So are the broadcasts of
  sessions, which walk the server's clients without its mutex
  (`lobby.c:1784`).
* A token that signing up creates (never put in the trie), a Redis that refuses
  a write, and a database that cannot be reached when a client connects.
* The counters of players and watchers of a table in the database, names and
  avatars: written and shown only.
* Of WebSocket: the HTTP handshake's text, the three widths of a length, a
  connection that breaks off in a frame (`Clients` has connections that break
  off), and memory that fails.
* The unicode and index tries: nothing calls them.
* What is sent to clients, except where the PROTOCOL says what a field means.
* RSA, strings, argument parsing, Redis, logging; the vendored libraries.

## Plan

What is left, by how much it matters:

1. `Session` over the members of `Membership`, so that a removed client's
   player is followed through the hand.
2. An abstract ledger that `Deposits` refines where no account is stale or torn.
3. `NoHang` of tables where nobody leaves, but for more than two players.
