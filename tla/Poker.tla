-------------------------------- MODULE Poker --------------------------------
(***************************************************************************)
(* The table state machine of src/poker.c: seating, blinds, betting,       *)
(* streets, showdown, restart and the action timeout, as operators from a  *)
(* table (a record, pkrsrv_poker_t) to the table after the call.  Session  *)
(* drives it the way the lobby does.                                       *)
(*                                                                         *)
(* A player object (pkrsrv_poker_player_t) is a member of Players, its     *)
(* fields are functions and sets of the table: p.bet[q] is q->bet, and     *)
(* q \in p.folded is q->is_folded.  Objects are distinct from accounts,    *)
(* since an account that leaves during a hand and comes back has two.      *)
(* Amounts are uint64_t, so they wrap at Modulus.                          *)
(***************************************************************************)
EXTENDS Integers, Sequences, FiniteSets, FiniteSetsExt, Lists, Showdown

CONSTANTS Players,     \* player objects
          Accounts,
          None,        \* the NULL pointer
          MaxPlayers,  \* table->max_players
          SmallBlind,
          BigBlind,
          EnteranceMin,
          Modulus      \* 2^64 in the program

ASSUME NoneAssumption == None \notin Players /\ None \notin Accounts
ASSUME TableAssumption == MaxPlayers \in 1 .. 10 /\ EnteranceMin \in Nat
ASSUME BlindsAssumption ==
    /\ Modulus \in Nat /\ SmallBlind \in 1 .. BigBlind /\ BigBlind \in Nat
    /\ 2 * SmallBlind <= BigBlind
    /\ BigBlind < Modulus - 1
ASSUME PlayersAssumption == IsFiniteSet(Players)

Chips == 0 .. Modulus - 1
Minus(x, y) == (x - y) % Modulus
Plus(x, y)  == (x + y) % Modulus

(* pkrsrv_poker_state_t: an enumeration the code compares with < and <=.   *)
CREATED     == 0
W4P         == 1
STARTING    == 2
SMALL_BLIND == 3
BIG_BLIND   == 4
PREFLOP     == 5
FLOP        == 6
TURN        == 7
RIVER       == 8
DONE        == 9

(* pkrsrv_poker_actions_action_kind_t; OTHER is any value outside the      *)
(* enumeration, and the two blinds when they come from a client: the       *)
(* packet's kind is not validated and such an action only passes the turn. *)
ActionKinds == {"RAISE", "CHECK", "FOLD", "OTHER"}

(* fault says why the table's thread went no further: "spin", a loop that  *)
(* never ends; "null", a NULL pointer dereferenced; "undefined", an        *)
(* indeterminate value used.  (PKRSRV_UTIL_ASSERT only prints.)            *)
Faults == {"none", "spin", "null", "undefined"}

Table ==
    [state : CREATED .. DONE,
     players : Seq(Players),
     account : [Players -> Accounts \cup {None}],
     position : [Players -> 0 .. MaxPlayers - 1],
     balance : [Players -> Chips],
     bet : [Players -> Chips],
     playing : SUBSET Players,
     folded : SUBSET Players,
     allin : SUBSET Players,
     left : SUBSET Players,
     sb_player : Players \cup {None},
     bb_player : Players \cup {None},
     winner : Players \cup {None},
     button_position : Nat,
     playing_position : Int,
     last_raised_pos : Int,
     synced_action_counter : Nat,
     starter_players_num : Nat,
     is_sb_must_call : BOOLEAN,
     is_playing_last : BOOLEAN,
     raised : SUBSET (PREFLOP .. RIVER),
     pot_amount : Chips,
     current_bet : Chips,
     current_raise : Chips,
     overdue : BOOLEAN,
     reflections : Nat,
     fault : Faults]

(* pkrsrv_poker_new: amounts start at -1, which is Modulus - 1.            *)
NewTable ==
    [state |-> CREATED,
     players |-> << >>,
     account |-> [q \in Players |-> None],
     position |-> [q \in Players |-> 0],
     balance |-> [q \in Players |-> 0],
     bet |-> [q \in Players |-> 0],
     playing |-> {}, folded |-> {}, allin |-> {}, left |-> {},
     sb_player |-> None, bb_player |-> None, winner |-> None,
     button_position |-> 0,
     playing_position |-> -1,
     last_raised_pos |-> -1,
     synced_action_counter |-> 0,
     starter_players_num |-> 0,
     is_sb_must_call |-> FALSE,
     is_playing_last |-> FALSE,
     raised |-> {},
     pot_amount |-> 0,
     current_bet |-> Modulus - 1,
     current_raise |-> Modulus - 1,
     overdue |-> FALSE,
     reflections |-> 0,
     fault |-> "none"]

-------------------------------------------------------------------------------
(* Who is who at a table.                                                  *)

Listed(p) == {p.players[i] : i \in DOMAIN p.players}
Fails(p, how) == [p EXCEPT !.fault = how]
InHand(p) == p.state \in PREFLOP .. RIVER

(* pkrsrv_poker_player_is_playing, and the players the ingame count counts *)
Able(p)   == Listed(p) \cap ((p.playing \ p.folded) \ p.allin)
InGame(p) == Listed(p) \cap (p.playing \ p.folded)

(* The first member of S in the list s, or NULL.                           *)
FirstOf(s, S) ==
    LET at == {i \in DOMAIN s : s[i] \in S}
    IN  IF at = {} THEN None ELSE s[Min(at)]

GetById(p, a)         == FirstOf(p.players, {q \in Players : p.account[q] = a})
GetByPosition(p, pos) == FirstOf(p.players, {q \in Players : p.position[q] = pos})

(* pkrsrv_poker_players_get_sorted: an exchange sort by seat that is not   *)
(* stable, so of two players on one seat it may put the later first.       *)
Sorted(p) ==
    LET n == Len(p.players)
        pass[k \in 0 .. n * n] ==
            IF k = 0 THEN p.players
            ELSE LET s == pass[k - 1]
                     i == ((k - 1) \div n) + 1
                     j == ((k - 1) % n) + 1
                 IN  IF p.position[s[j]] > p.position[s[i]]
                     THEN [s EXCEPT ![i] = s[j], ![j] = s[i]]
                     ELSE s
    IN  pass[n * n]

GetByPositionInSorted(p, pos) == FirstOf(Sorted(p), {q \in Players : p.position[q] = pos})

(* The cyclic search for a seat of S, from the seat `from` on.             *)
SeatFrom(S, from) ==
    LET onward == {s \in S : s >= from}
    IN  IF onward # {} THEN Min(onward) ELSE Min(S)

Seats(p, S) == {p.position[q] : q \in S}

(* pkrsrv_poker_players_add and _addby_account, with the amount join sets. *)
(* The test admits one player more than max_players; after that join       *)
(* writes through the NULL it gets.                                        *)
PlayersAdd(p, q, a, pos, amount) ==
    IF Len(p.players) > MaxPlayers THEN Fails(p, "null")
    ELSE [p EXCEPT
            !.players    = Append(@, q),
            !.account[q] = a,
            !.position[q] = pos % MaxPlayers,
            !.balance[q] = amount,
            !.bet[q]     = 0,
            !.playing    = IF p.state < SMALL_BLIND THEN @ \cup {q} ELSE @ \ {q},
            !.folded     = @ \ {q},
            !.allin      = @ \ {q},
            !.left       = @ \ {q},
            !.playing_position = IF p.sb_player = None THEN pos % MaxPlayers ELSE @,
            !.sb_player  = IF @ = None THEN q ELSE @,
            !.bb_player  = IF p.sb_player # None /\ @ = None THEN q ELSE @]

(* pkrsrv_poker_players_remove for every member of S; the freed objects    *)
(* take the values of unused ones.                                         *)
PlayersRemove(p, S) ==
    [p EXCEPT
        !.players  = Without(@, S),
        !.account  = [q \in Players |-> IF q \in S THEN None ELSE @[q]],
        !.position = [q \in Players |-> IF q \in S THEN 0 ELSE @[q]],
        !.balance  = [q \in Players |-> IF q \in S THEN 0 ELSE @[q]],
        !.bet      = [q \in Players |-> IF q \in S THEN 0 ELSE @[q]],
        !.playing  = @ \ S,
        !.folded   = @ \ S,
        !.allin    = @ \ S,
        !.left     = @ \ S]

-------------------------------------------------------------------------------
(* pkrsrv_poker_do_action                                                  *)

(* The early returns before the kind of the action is looked at.           *)
MayAct(p, q) ==
    /\ p.state \in SMALL_BLIND .. RIVER
    /\ q \in p.playing
    /\ q \notin p.folded
    /\ p.position[q] = p.playing_position
    /\ q \notin p.allin

(* A mutant of MustCall: whoever has the turn makes the first call.        *)
MustCallAnybody(p, q) == p.is_sb_must_call

MustCall(p, q) == p.is_sb_must_call /\ p.account[q] = p.account[p.sb_player]

(* RAISE: amount is the bet raised to.                                     *)
RaiseAllowed(p, q, amount) ==
    LET to_bet   == Minus(amount, p.bet[q])
        raise_by == Minus(amount, p.current_bet)
        is_allin == p.balance[q] = to_bet
    IN  /\ p.balance[q] >= to_bet
        /\ \/ is_allin
           \/ /\ raise_by >= p.current_raise
              /\ p.is_sb_must_call /\ p.sb_player = q
                    => amount >= Plus(p.current_bet, p.current_raise)

(* A mutant of Pays: the whole bet goes into the pot once more.            *)
PaysTwiceIn(p, q, amount) ==
    [p EXCEPT
        !.balance[q] = @ - amount,
        !.bet[q]     = Plus(@, amount),
        !.pot_amount = Plus(@, Plus(p.bet[q], amount))]

Pays(p, q, amount) ==
    [p EXCEPT
        !.balance[q] = @ - amount,
        !.bet[q]     = Plus(@, amount),
        !.pot_amount = Plus(@, amount)]

(* Mutants of Raise: what is already in is paid again; the current bet     *)
(* stays what it was.                                                      *)
RaisePaysAll(p, q, amount) ==
    [Pays(p, q, Minus(amount, p.bet[q])) EXCEPT
        !.balance[q] = p.balance[q] - amount,
        !.current_bet = amount,
        !.last_raised_pos = p.position[q]]

RaiseKeepsBet(p, q, amount) ==
    [Pays(p, q, Minus(amount, p.bet[q])) EXCEPT
        !.is_sb_must_call = @ /\ p.sb_player # q,
        !.last_raised_pos = p.position[q]]

(* A raise below the current bet takes the chips but counts them neither   *)
(* as a bet nor in the pot.                                                *)
Raise(p, q, amount) ==
    LET to_bet   == Minus(amount, p.bet[q])
        raise_by == Minus(amount, p.current_bet)
        paid == [p EXCEPT
                   !.balance[q] = @ - to_bet,
                   !.is_sb_must_call = @ /\ p.sb_player # q,
                   !.synced_action_counter = @ + 1]
    IN  IF amount < p.current_bet THEN paid
        ELSE [paid EXCEPT
                !.current_raise = IF raise_by >= @ THEN raise_by ELSE @,
                !.raised = IF amount > p.current_bet THEN @ \cup {p.state} ELSE @,
                !.current_bet = amount,
                !.bet[q] = Plus(@, to_bet),
                !.pot_amount = Plus(@, to_bet),
                !.last_raised_pos = p.position[q]]

CheckAllowed(p, q) == MustCall(p, q) => p.balance[q] >= SmallBlind

(* CHECK: the small blind's first call, a call, or a check.  A call the    *)
(* balance does not cover is an all-in.                                    *)
Check(p, q) ==
    LET to_bet == Minus(p.current_bet, p.bet[q])
    IN  CASE MustCall(p, q) -> [Pays(p, q, SmallBlind) EXCEPT !.is_sb_must_call = FALSE]
          [] ~MustCall(p, q) /\ p.state \in p.raised ->
                IF p.balance[q] >= to_bet THEN Pays(p, q, to_bet)
                ELSE [Pays(p, q, p.balance[q]) EXCEPT !.allin = @ \cup {q}]
          [] OTHER -> p

(* A mutant of NextPlayer: the next seat, whoever sits there.              *)
NextPlayerNextSeat(p) == [p EXCEPT !.playing_position = (@ + 1) % MaxPlayers]

(* The label NEXT_PLAYER: the turn goes to the next seat whose first       *)
(* player is able.  The loop never ends when no seat has one.              *)
NextPlayer(p) ==
    LET able == {q \in Able(p) : q = GetByPositionInSorted(p, p.position[q])}
    IN  IF able = {} THEN Fails(p, "spin")
        ELSE [p EXCEPT !.playing_position = SeatFrom(Seats(p, able), @ + 1)]

(* pkrsrv_poker_get_last_playing_position once somebody raised.            *)
LastPlayingPosition(p) ==
    LET able  == Able(p) \ p.left
        owing == {q \in able : p.bet[q] < p.current_bet}
    IN  IF p.last_raised_pos \in Seats(p, able) THEN p.last_raised_pos
        ELSE IF owing = {} THEN -1
        ELSE Max(Seats(p, owing))

IsLastToAct(p, q) ==
    IF p.last_raised_pos = -1
    THEN p.synced_action_counter = Cardinality(Able(p))
    ELSE p.position[q] = LastPlayingPosition(p)

NextStreet(p) ==
    [p EXCEPT
        !.state = @ + 1,
        !.synced_action_counter = 0,
        !.last_raised_pos = -1,
        !.playing_position = IF p.starter_players_num = 2
                             THEN p.position[p.bb_player] ELSE @]

WinByFold(p) ==
    LET winner == FirstOf(p.players, p.playing \ p.folded)
    IN  [p EXCEPT !.winner = winner,
                  !.state = DONE,
                  !.balance[winner] = Plus(@, p.pot_amount)]

(* The label DONE.  `ranking` is the order the sort leaves `ranks` in.     *)
(* The second conjunct of the test is the uint64_t type of the payout.     *)
PayWinners(p, ranking) ==
    LET contenders == InGame(p) \ p.left
        s == Settle(ranking, contenders, p.bet, p.pot_amount)
    IN  IF s.is_defined /\ s.pay \in [Players -> Nat]
        THEN [p EXCEPT !.balance = [q \in Players |-> Plus(@[q], s.pay[q])],
                       !.winner = ranking[1]]
        ELSE Fails(p, "undefined")

ShowDown(p, ranking) == PayWinners([p EXCEPT !.state = DONE], ranking)

(* The switch on the street: only a check or a fold can close it, and only *)
(* on the flop and the turn does a fold count as an action.                *)
CloseStreet(p, q, kind) ==
    LET counted == IF kind = "CHECK" \/ (kind = "FOLD" /\ p.state \in {FLOP, TURN})
                   THEN [p EXCEPT !.synced_action_counter = @ + 1]
                   ELSE p
    IN  IF ~InHand(p) \/ kind \notin {"CHECK", "FOLD"} THEN p
        ELSE IF IsLastToAct(counted, q) THEN NextStreet(counted)
        ELSE counted

(* From the streets to the end of the function.                            *)
Finish(p, q, kind, ranking) ==
    LET s == CloseStreet(p, q, kind)
    IN  IF kind = "FOLD" /\ InHand(p) /\ Cardinality(InGame(p)) = 1 THEN WinByFold(p)
        ELSE IF s.state = DONE \/ s.is_playing_last \/ Able(p) = {} THEN ShowDown(s, ranking)
        ELSE [s EXCEPT !.is_playing_last = @ \/ Cardinality(Able(p)) = 1]

(* A mutant of Accepted: the search for the next player starts even when   *)
(* nobody is able.                                                         *)
AcceptedSearches(p, q, kind, ranking) ==
    LET broke  == IF p.balance[q] = 0 THEN [p EXCEPT !.allin = @ \cup {q}] ELSE p
        turned == NextPlayer(broke)
    IN  IF turned.fault # "none" THEN turned
        ELSE [Finish(turned, q, kind, ranking) EXCEPT
                !.overdue = FALSE,
                !.reflections = @ + 1]

(* What follows an action the code accepted, up to queueing on_action.     *)
Accepted(p, q, kind, ranking) ==
    LET broke  == IF p.balance[q] = 0 THEN [p EXCEPT !.allin = @ \cup {q}] ELSE p
        turned == IF Able(broke) = {} THEN broke ELSE NextPlayer(broke)
    IN  IF turned.fault # "none" THEN turned
        ELSE [Finish(turned, q, kind, ranking) EXCEPT
                !.overdue = FALSE,
                !.reflections = @ + 1]

DoAction(p, q, kind, amount, ranking) ==
    IF ~MayAct(p, q) THEN p
    ELSE CASE kind = "RAISE" ->
                  IF RaiseAllowed(p, q, amount)
                  THEN Accepted(Raise(p, q, amount), q, kind, ranking) ELSE p
           [] kind = "CHECK" ->
                  IF CheckAllowed(p, q) THEN Accepted(Check(p, q), q, kind, ranking) ELSE p
           [] kind = "FOLD" ->
                  Accepted([p EXCEPT !.folded = @ \cup {q}], q, kind, ranking)
           [] OTHER -> Accepted(p, q, kind, ranking)

-------------------------------------------------------------------------------
(* Starting a hand                                                         *)

(* do_action in the states SMALL_BLIND and BIG_BLIND.  A player who cannot *)
(* cover the blind, or whose turn it is not, posts nothing.                *)
PostBlind(p, q, amount, ranking) ==
    IF p.fault # "none" \/ ~MayAct(p, q) \/ p.balance[q] < amount THEN p
    ELSE LET paid == Pays(p, q, amount)
         IN  Accepted(IF p.state = SMALL_BLIND
                      THEN [paid EXCEPT !.is_sb_must_call = TRUE]
                      ELSE [paid EXCEPT !.raised = @ \cup {PREFLOP}],
                      q, "BLIND", ranking)

(* The players whose seat the search for a blind stops at.                 *)
Seated(p) == {q \in Listed(p) \ p.left : q = GetByPosition(p, p.position[q])}

(* pkrsrv_poker_start.  Nothing looks at the state the table is in, and    *)
(* nothing of an earlier hand is cleared.  A showdown reached by the blinds *)
(* themselves pays the bets out, and the hand goes on all the same.        *)
Start(p, ranking) ==
    IF Cardinality({i \in DOMAIN p.players : p.players[i] \notin p.left}) < 2 THEN p
    ELSE IF Seated(p) = {} THEN Fails(p, "spin")
    ELSE LET sb_seat == SeatFrom(Seats(p, Seated(p)), p.button_position)
             bb_seat == SeatFrom(Seats(p, Seated(p)), sb_seat + 1)
             seated  == [p EXCEPT !.sb_player = GetByPosition(p, sb_seat),
                                  !.bb_player = GetByPosition(p, bb_seat),
                                  !.button_position = sb_seat,
                                  !.playing_position = sb_seat,
                                  !.overdue = FALSE,
                                  !.state = SMALL_BLIND]
             small   == PostBlind(seated, seated.sb_player, SmallBlind, ranking)
             big     == PostBlind([small EXCEPT !.state = BIG_BLIND],
                                  seated.bb_player, BigBlind, ranking)
         IN  [big EXCEPT !.current_bet = BigBlind,
                         !.current_raise = BigBlind,
                         !.starter_players_num = Cardinality(Able(big)),
                         !.state = PREFLOP]

(* pkrsrv_poker_restart, up to its call of pkrsrv_poker_start.  The button *)
(* wraps at the number of players although it is a seat.                   *)
Reset(p) ==
    [p EXCEPT
        !.state = W4P,
        !.synced_action_counter = 0,
        !.last_raised_pos = -1,
        !.is_sb_must_call = FALSE,
        !.winner = None,
        !.is_playing_last = FALSE,
        !.pot_amount = 0,
        !.current_raise = Modulus - 1,
        !.current_bet = Modulus - 1,
        !.raised = {},
        !.sb_player = None,
        !.bb_player = None,
        !.button_position = IF @ + 1 >= Len(p.players) THEN 0 ELSE @ + 1,
        !.playing = @ \cup Listed(p),
        !.folded = @ \ Listed(p),
        !.allin = @ \ Listed(p),
        !.bet = [q \in Players |-> IF q \in Listed(p) THEN 0 ELSE @[q]]]

(* pkrsrv_poker_proceed: the action timeout folds for the player on turn.  *)
Proceed(p, ranking) ==
    LET waiting == IF Len(p.players) < 2 THEN [p EXCEPT !.state = W4P] ELSE p
        on_turn == GetByPosition(p, p.playing_position)
    IN  IF ~(waiting.state \in SMALL_BLIND .. RIVER /\ waiting.overdue) THEN waiting
        ELSE IF on_turn = None THEN Fails(p, "null")
        ELSE DoAction(waiting, on_turn, "FOLD", 0, ranking)

(* The orders the showdown's sort may leave the listed players in.         *)
Rankings(p) == {r \in [DOMAIN p.players -> Listed(p)] :
                    \A i, j \in DOMAIN p.players : r[i] = r[j] => i = j}
===============================================================================
