---------------------------- MODULE SessionProofs ----------------------------
(***************************************************************************)
(* Proofs about Session, for every number of players and accounts, all     *)
(* blinds, stacks, clients and bounds: every table the lobby sees is of    *)
(* its type; in a hand dealt on a cleared table no bet exceeds the current *)
(* bet, the pot is what was bet, and play creates no chips; a session is   *)
(* driven by one chain of timers, and deals over a hand only in one way;   *)
(* and at a table for two the turn can act and no search is endless.       *)
(*                                                                         *)
(* The first part is about the operators of Poker: every one of them keeps *)
(* the type of the table, and in a hand they keep the bets within the      *)
(* current bet and the pot equal to the bets (HandInv), and create no      *)
(* chips.  The second makes theorems of the session of that.  The third    *)
(* is about the tasks pending, the last about tables for two.              *)
(***************************************************************************)
EXTENDS Session, CommonProofs

(* Min picks the least element of a set of naturals.                       *)
LEMMA MinNat ==
    ASSUME NEW S \in SUBSET Nat, S # {}
    PROVE  Min(S) \in S /\ \A y \in S : Min(S) <= y
BY LeastNat DEF Min

-------------------------------------------------------------------------------

(* The constants are amounts, and there is a seat 0.                       *)
LEMMA ChipFacts ==
    /\ Modulus \in Nat /\ Modulus > 0
    /\ {0, SmallBlind, BigBlind, Modulus - 1} \subseteq Chips
    /\ 0 \in 0 .. MaxPlayers - 1
BY BlindsAssumption, TableAssumption DEF Chips

(* Wrapping arithmetic yields amounts.                                     *)
LEMMA WrapType ==
    ASSUME NEW x \in Int, NEW y \in Int
    PROVE  Plus(x, y) \in Chips /\ Minus(x, y) \in Chips
BY ChipFacts DEF Plus, Minus, Chips

(* What the type of a table says of its fields.                            *)
LEMMA FieldTypes ==
    ASSUME NEW p \in Table
    PROVE  /\ Chips \subseteq Int
           /\ \A q \in Players : p.balance[q] \in Chips /\ p.bet[q] \in Chips
           /\ p.pot_amount \in Chips /\ p.current_bet \in Chips /\ p.current_raise \in Chips
           /\ p.synced_action_counter \in Nat /\ p.reflections \in Nat
           /\ p.playing_position \in Int /\ p.is_playing_last \in BOOLEAN
           /\ \A q \in Players : p.position[q] \in Int
           /\ p.state \in CREATED .. DONE
<1>1. Chips \subseteq Int BY ChipFacts DEF Chips
<1>2. \A q \in Players : p.balance[q] \in Chips /\ p.bet[q] \in Chips BY DEF Table
<1>3. p.pot_amount \in Chips /\ p.current_bet \in Chips /\ p.current_raise \in Chips BY DEF Table
<1>4. /\ p.synced_action_counter \in Nat /\ p.reflections \in Nat
      /\ p.playing_position \in Int /\ p.is_playing_last \in BOOLEAN
      /\ p.state \in CREATED .. DONE BY DEF Table
<1>5. \A q \in Players : p.position[q] \in Int
    <2>1. p.position \in [Players -> 0 .. MaxPlayers - 1] BY DEF Table
    <2>. QED BY <2>1, TableAssumption
<1>. QED BY <1>1, <1>2, <1>3, <1>4, <1>5

(* FirstOf returns a member of S in the list, or None if there is none.    *)
LEMMA FirstOfType ==
    ASSUME NEW s \in Seq(Players), NEW S
    PROVE  /\ FirstOf(s, S) \in Players \cup {None}
           /\ FirstOf(s, S) # None => FirstOf(s, S) \in S \cap {s[i] : i \in DOMAIN s}
           /\ S \cap {s[i] : i \in DOMAIN s} # {} => FirstOf(s, S) # None
<1> DEFINE at == {i \in DOMAIN s : s[i] \in S}
<1>1. DOMAIN s = 1 .. Len(s) /\ Len(s) \in Nat BY LenProperties
<1>2. \A i \in DOMAIN s : s[i] \in Players BY <1>1, ElementOfSeq
<1>3. at # {} => Min(at) \in at BY <1>1, MinNat, at \in SUBSET Nat
<1>4. FirstOf(s, S) = IF at = {} THEN None ELSE s[Min(at)] BY DEF FirstOf
<1> HIDE DEF at
<1>5. at # {} => s[Min(at)] \in S \cap Players /\ Min(at) \in DOMAIN s
    BY <1>2, <1>3 DEF at
<1>6. S \cap {s[i] : i \in DOMAIN s} # {} => at # {} BY DEF at
<1>. QED BY <1>4, <1>5, <1>6, NoneAssumption

(* The cyclic search finds a seat of S.                                    *)
LEMMA SeatFromType ==
    ASSUME NEW S \in SUBSET Nat, S # {}, NEW from \in Int
    PROVE  SeatFrom(S, from) \in S
<1>1. CASE {s \in S : s >= from} # {}
    BY <1>1, MinNat, {s \in S : s >= from} \in SUBSET Nat DEF SeatFrom
<1>2. CASE {s \in S : s >= from} = {}
    BY <1>2, MinNat DEF SeatFrom
<1>. QED BY <1>1, <1>2

(* The players in the list, and the list itself, are of their types.       *)
LEMMA ListedType ==
    ASSUME NEW p \in Table
    PROVE  /\ Listed(p) \subseteq Players
           /\ DOMAIN p.players = 1 .. Len(p.players) /\ Len(p.players) \in Nat
           /\ p.players \in Seq(Players)
           /\ p.players # << >> => Len(p.players) > 0
<1>1. p.players \in Seq(Players) BY DEF Table
<1>. QED BY <1>1, LenProperties, ElementOfSeq, EmptySeq DEF Listed

(* The seats of players are seats.                                         *)
LEMMA SeatsType ==
    ASSUME NEW p \in Table, NEW S \in SUBSET Players
    PROVE  /\ Seats(p, S) \in SUBSET (0 .. MaxPlayers - 1)
           /\ S # {} => Seats(p, S) # {}
           /\ 0 .. MaxPlayers - 1 \subseteq Nat
BY TableAssumption DEF Seats, Table

(* The number of players of any kind is a natural number.                  *)
LEMMA PlayersCount ==
    ASSUME NEW S \in SUBSET Players
    PROVE  IsFiniteSet(S) /\ Cardinality(S) \in Nat
BY PlayersAssumption, FS_Subset, FS_CardinalityType

(* What the lookups by account and by seat return.                         *)
LEMMA LookupType ==
    ASSUME NEW p \in Table, NEW x
    PROVE  /\ GetById(p, x) \in Players \cup {None}
           /\ GetById(p, x) # None => GetById(p, x) \in Listed(p)
           /\ GetByPosition(p, x) \in Players \cup {None}
           /\ GetByPosition(p, x) # None =>
                  GetByPosition(p, x) \in Listed(p) /\ p.position[GetByPosition(p, x)] = x
           /\ (\E q \in Listed(p) : p.position[q] = x) => GetByPosition(p, x) # None
<1>1. p.players \in Seq(Players) /\ Listed(p) \subseteq Players BY ListedType
<1>2. \A S : /\ FirstOf(p.players, S) \in Players \cup {None}
             /\ FirstOf(p.players, S) # None => FirstOf(p.players, S) \in S \cap Listed(p)
             /\ S \cap Listed(p) # {} => FirstOf(p.players, S) # None
    BY <1>1, FirstOfType DEF Listed
<1>. QED BY <1>1, <1>2 DEF GetById, GetByPosition

-------------------------------------------------------------------------------
(* What following up an action leaves alone.                               *)

SameBets(p, r) ==
    /\ r.players = p.players /\ r.account = p.account /\ r.playing = p.playing
    /\ r.left = p.left
    /\ r.bet = p.bet /\ r.current_bet = p.current_bet /\ r.pot_amount = p.pot_amount
    /\ r.sb_player = p.sb_player /\ r.bb_player = p.bb_player
    /\ r.is_sb_must_call = p.is_sb_must_call

(* Passing the turn keeps the type, the bets and the state.                *)
LEMMA NextPlayerType ==
    ASSUME NEW p \in Table
    PROVE  /\ NextPlayer(p) \in Table /\ SameBets(p, NextPlayer(p))
           /\ NextPlayer(p).state = p.state
<1> DEFINE able == {q \in Able(p) : q = GetByPositionInSorted(p, p.position[q])}
           seat == SeatFrom(Seats(p, able), p.playing_position + 1)
<1>1. able \subseteq Players BY ListedType DEF Able
<1>2. able # {} => seat \in Int
    <2>1. p.playing_position + 1 \in Int BY DEF Table
    <2>. QED BY <1>1, <2>1, SeatsType, SeatFromType
<1> DEFINE next == [p EXCEPT !.playing_position = seat]
           spin == [p EXCEPT !.fault = "spin"]
<1>3. NextPlayer(p) = IF able = {} THEN spin ELSE next
    BY DEF NextPlayer, Fails
<1> HIDE DEF able, seat
<1>4. spin \in Table /\ SameBets(p, spin) /\ spin.state = p.state
    BY DEF Table, Faults, SameBets
<1>5. SameBets(p, next) /\ next.state = p.state
    BY DEF Table, SameBets
<1>6. able # {} => next \in Table
    BY <1>2 DEF Table
<1> HIDE DEF next, spin
<1>. QED BY <1>3, <1>4, <1>5, <1>6

(* Closing a street moves the state by at most one.                        *)
LEMMA CloseStreetType ==
    ASSUME NEW p \in Table, NEW q, NEW kind, InHand(p) => p.bb_player \in Players
    PROVE  /\ CloseStreet(p, q, kind) \in Table
           /\ SameBets(p, CloseStreet(p, q, kind))
           /\ CloseStreet(p, q, kind).state \in {p.state}
                    \cup (IF InHand(p) THEN {p.state + 1} ELSE {})
<1> DEFINE counter == p.synced_action_counter + 1
           counted == [p EXCEPT !.synced_action_counter = counter]
<1>1. counter \in Nat BY DEF Table
<1>2. counted \in Table /\ SameBets(p, counted) /\ counted.state = p.state
    BY <1>1 DEF Table, SameBets
<1>3. ASSUME NEW c \in Table, SameBets(p, c), c.state = p.state, InHand(p)
      PROVE  /\ NextStreet(c) \in Table /\ SameBets(p, NextStreet(c))
             /\ NextStreet(c).state = p.state + 1
    <2> DEFINE state == c.state + 1
               seat == IF c.starter_players_num = 2 THEN c.position[c.bb_player]
                       ELSE c.playing_position
    <2>1. state \in CREATED .. DONE
        BY <1>3 DEF InHand, CREATED, DONE, PREFLOP, RIVER
    <2>2. seat \in Int
        <3>1. c.bb_player \in Players BY <1>3 DEF SameBets
        <3>. QED BY <3>1, TableAssumption DEF Table
    <2> DEFINE nobody == -1
               r == [c EXCEPT !.state = state, !.synced_action_counter = 0,
                              !.last_raised_pos = nobody, !.playing_position = seat]
    <2>3. NextStreet(c) = r /\ nobody \in Int
        BY DEF NextStreet
    <2> HIDE DEF state, seat, nobody
    <2>4. r \in Table BY <2>1, <2>2, <2>3 DEF Table
    <2>5. SameBets(c, r) /\ r.state = state BY DEF SameBets, Table
    <2> HIDE DEF r
    <2>6. SameBets(p, r) BY <1>3, <2>5 DEF SameBets
    <2>7. state = p.state + 1 BY <1>3 DEF state
    <2>. QED BY <2>3, <2>4, <2>5, <2>6, <2>7
<1>4. CloseStreet(p, q, kind) \in
         {p, counted} \cup (IF InHand(p) THEN {NextStreet(p), NextStreet(counted)} ELSE {})
    BY DEF CloseStreet
<1>5. SameBets(p, p) BY DEF SameBets
<1> HIDE DEF counted
<1>. QED BY <1>2, <1>3, <1>4, <1>5

(* A win by fold ends the hand.                                            *)
LEMMA WinByFoldType ==
    ASSUME NEW p \in Table
    PROVE  /\ WinByFold(p) \in Table /\ SameBets(p, WinByFold(p))
           /\ WinByFold(p).state = DONE
<1> DEFINE winner == FirstOf(p.players, p.playing \ p.folded)
           balance == [p.balance EXCEPT ![winner] = Plus(p.balance[winner], p.pot_amount)]
           r == [p EXCEPT !.winner = winner, !.state = DONE, !.balance = balance]
<1>1. winner \in Players \cup {None} BY ListedType, FirstOfType
<1> HIDE DEF winner
<1>2. balance \in [Players -> Chips]
    <2>1. \A x \in Players : Plus(p.balance[x], p.pot_amount) \in Chips
        BY FieldTypes, WrapType
    <2>2. p.balance \in [Players -> Chips] BY DEF Table
    <2>. QED BY <2>1, <2>2
<1>3. WinByFold(p) = r BY DEF WinByFold, winner
<1> HIDE DEF balance
<1>4. DONE \in CREATED .. DONE BY DEF CREATED, DONE
<1>5. r \in Table BY <1>1, <1>2, <1>4 DEF Table
<1>6. SameBets(p, r) /\ r.state = DONE BY DEF SameBets, Table
<1> HIDE DEF r
<1>. QED BY <1>3, <1>5, <1>6

(* A showdown ends the hand.                                               *)
LEMMA ShowDownType ==
    ASSUME NEW p \in Table, NEW ranking \in Rankings(p), p.players # << >>
    PROVE  /\ ShowDown(p, ranking) \in Table /\ SameBets(p, ShowDown(p, ranking))
           /\ ShowDown(p, ranking).state = DONE
<1> DEFINE d == [p EXCEPT !.state = DONE]
<1>1. d \in Table /\ SameBets(p, d) /\ d.state = DONE
    <2>1. DONE \in CREATED .. DONE BY DEF CREATED, DONE
    <2>. QED BY <2>1 DEF Table, SameBets
<1> HIDE DEF d
<1> DEFINE s == Settle(ranking, InGame(d) \ d.left, d.bet, d.pot_amount)
           first == ranking[1]
           balance == [q \in Players |-> Plus(d.balance[q], s.pay[q])]
           paid == [d EXCEPT !.balance = balance, !.winner = first]
           undef == [d EXCEPT !.fault = "undefined"]
<1>2. first \in Players
    <2>1. 1 \in DOMAIN p.players /\ Listed(p) \subseteq Players BY ListedType
    <2>. QED BY <2>1 DEF Rankings
<1>3. ShowDown(p, ranking) = IF s.is_defined /\ s.pay \in [Players -> Nat]
                             THEN paid ELSE undef
    BY DEF ShowDown, PayWinners, Fails, d
<1> HIDE DEF s, first
<1>4. s.pay \in [Players -> Nat] => balance \in [Players -> Chips]
    <2>1. ASSUME NEW q \in Players, s.pay \in [Players -> Nat]
          PROVE  Plus(d.balance[q], s.pay[q]) \in Chips
        <3>1. d.balance[q] \in Int BY <1>1, FieldTypes
        <3>2. s.pay[q] \in Int BY <2>1
        <3>. QED BY <3>1, <3>2, WrapType
    <2>. QED BY <2>1
<1> HIDE DEF balance
<1>5. s.pay \in [Players -> Nat] => paid \in Table BY <1>1, <1>2, <1>4 DEF Table
<1>6. undef \in Table BY <1>1 DEF Table, Faults
<1>7. /\ SameBets(d, paid) /\ paid.state = d.state
      /\ SameBets(d, undef) /\ undef.state = d.state
    BY <1>1 DEF Table, SameBets
<1> HIDE DEF paid, undef
<1>8. SameBets(p, paid) /\ SameBets(p, undef) BY <1>1, <1>7 DEF SameBets
<1>. QED BY <1>1, <1>3, <1>5, <1>6, <1>7, <1>8

(* What follows the turn keeps the type and the bets.                      *)
LEMMA FinishType ==
    ASSUME NEW p \in Table, NEW q, NEW kind, NEW ranking \in Rankings(p),
           p.players # << >>, InHand(p) => p.bb_player \in Players
    PROVE  /\ Finish(p, q, kind, ranking) \in Table
           /\ SameBets(p, Finish(p, q, kind, ranking))
           /\ InHand(p) => Finish(p, q, kind, ranking).state \in PREFLOP .. DONE
<1> DEFINE s == CloseStreet(p, q, kind)
           last == s.is_playing_last \/ Cardinality(Able(p)) = 1
           r == [s EXCEPT !.is_playing_last = last]
<1>1. /\ s \in Table /\ SameBets(p, s)
      /\ s.state \in {p.state} \cup (IF InHand(p) THEN {p.state + 1} ELSE {})
    BY CloseStreetType
<1>2. Finish(p, q, kind, ranking) \in {WinByFold(p), ShowDown(s, ranking), r}
    BY DEF Finish
<1>3. last \in BOOLEAN BY <1>1 DEF Table
<1> HIDE DEF s, last
<1>4. r \in Table /\ SameBets(s, r) /\ r.state = s.state BY <1>1, <1>3 DEF Table, SameBets
<1> HIDE DEF r
<1>5. ranking \in Rankings(s) /\ s.players # << >> BY <1>1 DEF Rankings, Listed, SameBets
<1>6. /\ ShowDown(s, ranking) \in Table /\ SameBets(s, ShowDown(s, ranking))
      /\ ShowDown(s, ranking).state = DONE
    BY <1>1, <1>5, ShowDownType
<1>7. SameBets(p, r) /\ SameBets(p, ShowDown(s, ranking)) BY <1>1, <1>4, <1>6 DEF SameBets
<1>8. /\ WinByFold(p) \in Table /\ SameBets(p, WinByFold(p))
      /\ WinByFold(p).state = DONE
    BY WinByFoldType
<1>9. InHand(p) => s.state \in PREFLOP .. DONE /\ DONE \in PREFLOP .. DONE
    BY <1>1 DEF InHand, PREFLOP, RIVER, DONE
<1>. QED BY <1>2, <1>4, <1>6, <1>7, <1>8, <1>9

(* So does all that follows an accepted action.                            *)
LEMMA AcceptedType ==
    ASSUME NEW p \in Table, NEW q \in Players, NEW kind, NEW ranking \in Rankings(p),
           p.players # << >>, InHand(p) => p.bb_player \in Players
    PROVE  /\ Accepted(p, q, kind, ranking) \in Table
           /\ SameBets(p, Accepted(p, q, kind, ranking))
           /\ InHand(p) => Accepted(p, q, kind, ranking).state \in PREFLOP .. DONE
<1> DEFINE allin == p.allin \cup {q}
           b == [p EXCEPT !.allin = allin]
           broke == IF p.balance[q] = 0 THEN b ELSE p
           turned == IF Able(broke) = {} THEN broke ELSE NextPlayer(broke)
           f == Finish(turned, q, kind, ranking)
           reflections == f.reflections + 1
           r == [f EXCEPT !.overdue = FALSE, !.reflections = reflections]
<1>1. allin \in SUBSET Players BY DEF Table
<1> HIDE DEF allin
<1>2. b \in Table /\ SameBets(p, b) /\ b.state = p.state BY <1>1 DEF Table, SameBets
<1> HIDE DEF b
<1>3. broke \in Table /\ SameBets(p, broke) /\ broke.state = p.state BY <1>2 DEF SameBets
<1> HIDE DEF broke
<1>4. turned \in Table /\ SameBets(broke, turned) /\ turned.state = broke.state
    BY <1>3, NextPlayerType DEF SameBets
<1>5. SameBets(p, turned) /\ turned.state = p.state BY <1>3, <1>4 DEF SameBets
<1>6. /\ ranking \in Rankings(turned) /\ turned.players # << >>
      /\ InHand(turned) <=> InHand(p)
      /\ InHand(turned) => turned.bb_player \in Players
    BY <1>5 DEF SameBets, Rankings, Listed, InHand
<1>7. Accepted(p, q, kind, ranking) \in {turned, r}
    BY DEF Accepted, turned, broke, b, allin
<1> HIDE DEF turned
<1>8. /\ f \in Table /\ SameBets(turned, f)
      /\ InHand(turned) => f.state \in PREFLOP .. DONE
    BY <1>4, <1>6, FinishType
<1>9. reflections \in Nat BY <1>8, FieldTypes
<1> HIDE DEF f, reflections
<1>10. r \in Table /\ SameBets(f, r) /\ r.state = f.state BY <1>8, <1>9 DEF Table, SameBets
<1> HIDE DEF r
<1>11. SameBets(p, r) BY <1>5, <1>8, <1>10 DEF SameBets
<1>12. InHand(p) => turned.state \in PREFLOP .. DONE
    BY <1>5 DEF InHand, PREFLOP, RIVER, DONE
<1>. QED BY <1>4, <1>5, <1>6, <1>7, <1>8, <1>10, <1>11, <1>12

-------------------------------------------------------------------------------
(* The actions.                                                            *)

(* What q paid became his bet, and the pot's.                              *)
PaidIn(p, r, q) ==
    \E x \in Chips : /\ r.bet[q] = Plus(p.bet[q], x)
                      /\ r.pot_amount = Plus(p.pot_amount, x)

(* Of what q paid no more than he lost went into the pot.                  *)
PaidFor(p, r, q) ==
    /\ \A o \in Players \ {q} : r.balance[o] = p.balance[o]
    /\ r.balance[q] + r.pot_amount <= p.balance[q] + p.pot_amount

(* What an action of q may change of what HandInv speaks of, and of the    *)
(* chips.                                                                  *)
ActedBy(p, r, q) ==
    /\ r.players = p.players /\ r.account = p.account /\ r.playing = p.playing
    /\ r.sb_player = p.sb_player /\ r.bb_player = p.bb_player
    /\ r.state = p.state /\ r.left = p.left
    /\ \A o \in Players \ {q} : r.bet[o] = p.bet[o]
    /\ PaidIn(p, r, q)
    /\ PaidFor(p, r, q)

(* Whoever pays nothing has paid in.                                       *)
LEMMA PaidNothing ==
    ASSUME NEW p \in Table, NEW r, NEW q \in Players,
           r.bet[q] = p.bet[q], r.pot_amount = p.pot_amount
    PROVE  PaidIn(p, r, q) /\ PaidFor(p, p, q)
<1>1. p.bet[q] \in Chips /\ p.pot_amount \in Chips
    BY FieldTypes
<1>2. Plus(p.bet[q], 0) = p.bet[q] /\ Plus(p.pot_amount, 0) = p.pot_amount
    BY <1>1, ChipFacts DEF Plus, Chips
<1>3. p.balance[q] + p.pot_amount <= p.balance[q] + p.pot_amount
    <2>1. p.balance[q] \in Int /\ p.pot_amount \in Int BY FieldTypes
    <2>. QED BY <2>1
<1>. QED BY <1>2, <1>3, ChipFacts DEF PaidIn, PaidFor

(* A sum that wraps is no more than one that does not.                     *)
LEMMA PlusAtMost ==
    ASSUME NEW x \in Nat, NEW y \in Nat
    PROVE  Plus(x, y) <= x + y /\ Plus(x, y) \in Nat
<1>1. x + y \in Nat /\ Modulus \in Nat /\ Modulus > 0
    BY ChipFacts
<1>2. PICK z \in Nat : z = x + y
    BY <1>1
<1>3. z < Modulus => z % Modulus = z
    BY <1>1
<1>4. z % Modulus \in 0 .. (Modulus - 1)
    BY <1>1, ModParts
<1>5. z % Modulus <= z /\ z % Modulus \in Nat
    BY <1>1, <1>3, <1>4
<1>. QED BY <1>2, <1>5 DEF Plus

(* A payment the balance covers.                                           *)
LEMMA PaysType ==
    ASSUME NEW p \in Table, NEW q \in Players, NEW amount \in Chips, amount <= p.balance[q]
    PROVE  /\ Pays(p, q, amount) \in Table
           /\ ActedBy(p, Pays(p, q, amount), q)
           /\ Pays(p, q, amount).bet[q] = Plus(p.bet[q], amount)
           /\ Pays(p, q, amount).current_bet = p.current_bet
           /\ Pays(p, q, amount).is_sb_must_call = p.is_sb_must_call
<1> DEFINE balance == [p.balance EXCEPT ![q] = p.balance[q] - amount]
           bet == [p.bet EXCEPT ![q] = Plus(p.bet[q], amount)]
           pot == Plus(p.pot_amount, amount)
           r == [p EXCEPT !.balance = balance, !.bet = bet, !.pot_amount = pot]
<1>1. p.balance[q] - amount \in Chips BY FieldTypes, ChipFacts DEF Chips
<1>2. Plus(p.bet[q], amount) \in Chips /\ pot \in Chips
    BY FieldTypes, WrapType, amount \in Int
<1>3. p.balance \in [Players -> Chips] /\ p.bet \in [Players -> Chips] BY DEF Table
<1>4. balance \in [Players -> Chips] /\ bet \in [Players -> Chips] BY <1>1, <1>2, <1>3
<1>5. /\ bet[q] = Plus(p.bet[q], amount)
      /\ \A o \in Players \ {q} : bet[o] = p.bet[o]
      /\ balance[q] = p.balance[q] - amount
      /\ \A o \in Players \ {q} : balance[o] = p.balance[o]
    BY <1>3
<1>6. Pays(p, q, amount) = r BY DEF Pays
<1>7. balance[q] + pot <= p.balance[q] + p.pot_amount
    <2>1. pot <= p.pot_amount + amount /\ pot \in Nat
        <3>1. p.pot_amount \in Nat /\ amount \in Nat BY FieldTypes, ChipFacts DEF Chips
        <3>. QED BY <3>1, PlusAtMost
    <2>2. p.balance[q] \in Int /\ p.pot_amount \in Int /\ amount \in Int BY FieldTypes
    <2> HIDE DEF pot, balance
    <2>. QED BY <1>5, <2>1, <2>2
<1> HIDE DEF balance, pot, bet
<1>8. r \in Table BY <1>2, <1>4 DEF Table
<1>9. /\ r.bet = bet /\ r.state = p.state
      /\ r.players = p.players /\ r.account = p.account /\ r.playing = p.playing
      /\ r.sb_player = p.sb_player /\ r.bb_player = p.bb_player
      /\ r.current_bet = p.current_bet /\ r.is_sb_must_call = p.is_sb_must_call
      /\ r.pot_amount = pot /\ r.balance = balance /\ r.left = p.left
    BY DEF Table
<1> HIDE DEF r
<1>10. PaidFor(p, r, q) BY <1>5, <1>7, <1>9 DEF PaidFor
<1>11. ActedBy(p, r, q) BY <1>5, <1>9, <1>10 DEF ActedBy, PaidIn, pot
<1>. QED BY <1>5, <1>6, <1>8, <1>9, <1>11

(* What a check or a call makes of the bets.                               *)
LEMMA CheckType ==
    ASSUME NEW p \in Table, NEW q \in Players, CheckAllowed(p, q)
    PROVE  /\ Check(p, q) \in Table /\ ActedBy(p, Check(p, q), q)
           /\ Check(p, q).current_bet = p.current_bet
           /\ \/ /\ MustCall(p, q)
                 /\ ~Check(p, q).is_sb_must_call
                 /\ Check(p, q).bet[q] = Plus(p.bet[q], SmallBlind)
              \/ /\ ~MustCall(p, q)
                 /\ Check(p, q).is_sb_must_call = p.is_sb_must_call
                 /\ \/ Check(p, q).bet[q] = p.bet[q]
                    \/ \E x \in Chips : /\ x <= Minus(p.current_bet, p.bet[q])
                                        /\ Check(p, q).bet[q] = Plus(p.bet[q], x)
<1> DEFINE to_bet == Minus(p.current_bet, p.bet[q])
           small == Pays(p, q, SmallBlind)
           called == [small EXCEPT !.is_sb_must_call = FALSE]
           full == Pays(p, q, to_bet)
           rest == Pays(p, q, p.balance[q])
           allin == rest.allin \cup {q}
           short == [rest EXCEPT !.allin = allin]
<1>1. to_bet \in Chips /\ p.balance[q] \in Chips /\ p.balance[q] <= p.balance[q]
    <2>1. p.current_bet \in Int /\ p.bet[q] \in Int /\ p.balance[q] \in Chips /\ p.balance[q] \in Int
        BY FieldTypes
    <2>. QED BY <2>1, WrapType
<1>2. /\ MustCall(p, q) => Check(p, q) = called /\ SmallBlind <= p.balance[q]
      /\ ~MustCall(p, q) /\ p.balance[q] >= to_bet => Check(p, q) \in {full, p}
      /\ ~MustCall(p, q) /\ ~(p.balance[q] >= to_bet) => Check(p, q) \in {short, p}
    BY <1>1, ChipFacts DEF Check, CheckAllowed, Chips
<1> HIDE DEF to_bet
<1>4. CASE MustCall(p, q)
    <2>1. /\ small \in Table /\ ActedBy(p, small, q) /\ small.current_bet = p.current_bet
          /\ small.bet[q] = Plus(p.bet[q], SmallBlind)
        BY <1>2, <1>4, ChipFacts, PaysType
    <2> HIDE DEF small
    <2>2. called \in Table BY <2>1 DEF Table
    <2>3. /\ called.state = small.state
          /\ called.players = small.players /\ called.account = small.account
          /\ called.playing = small.playing /\ called.current_bet = small.current_bet
          /\ called.sb_player = small.sb_player /\ called.bb_player = small.bb_player
          /\ called.bet = small.bet /\ ~called.is_sb_must_call
          /\ called.pot_amount = small.pot_amount /\ called.balance = small.balance
          /\ called.left = small.left
        BY <2>1 DEF Table
    <2> HIDE DEF called
    <2>4. ActedBy(p, called, q) BY <2>1, <2>3 DEF ActedBy, PaidIn, PaidFor
    <2>. QED BY <1>2, <1>4, <2>1, <2>2, <2>3, <2>4
<1>5. CASE ~MustCall(p, q) /\ p.balance[q] >= to_bet
    <2>1. CASE Check(p, q) = full
        <3>1. /\ full \in Table /\ ActedBy(p, full, q) /\ full.current_bet = p.current_bet
              /\ full.bet[q] = Plus(p.bet[q], to_bet)
              /\ full.is_sb_must_call = p.is_sb_must_call
            <4>1. to_bet <= p.balance[q] BY <1>1, <1>5, FieldTypes DEF Chips
            <4>. QED BY <1>1, <4>1, PaysType
        <3>2. to_bet <= to_bet BY <1>1, FieldTypes
        <3> HIDE DEF full
        <3>. QED BY <1>1, <1>5, <2>1, <3>1, <3>2 DEF to_bet
    <2>2. CASE Check(p, q) = p
        BY <1>5, <2>2, PaidNothing DEF ActedBy
    <2>. QED BY <1>2, <1>5, <2>1, <2>2
<1>6. CASE ~MustCall(p, q) /\ ~(p.balance[q] >= to_bet)
    <2>1. CASE Check(p, q) = short
        <3>1. /\ rest \in Table /\ ActedBy(p, rest, q) /\ rest.current_bet = p.current_bet
              /\ rest.bet[q] = Plus(p.bet[q], p.balance[q])
              /\ rest.is_sb_must_call = p.is_sb_must_call
            BY <1>1, PaysType
        <3> HIDE DEF rest
        <3>2. allin \in SUBSET Players BY <3>1 DEF Table
        <3> HIDE DEF allin
        <3>3. short \in Table BY <3>1, <3>2 DEF Table
        <3>4. /\ short.state = rest.state
              /\ short.players = rest.players /\ short.account = rest.account
              /\ short.playing = rest.playing /\ short.current_bet = rest.current_bet
              /\ short.sb_player = rest.sb_player /\ short.bb_player = rest.bb_player
              /\ short.bet = rest.bet /\ short.is_sb_must_call = rest.is_sb_must_call
              /\ short.pot_amount = rest.pot_amount /\ short.balance = rest.balance
              /\ short.left = rest.left
            BY <3>1 DEF Table
        <3> HIDE DEF short
        <3>5. ActedBy(p, short, q) BY <3>1, <3>4 DEF ActedBy, PaidIn, PaidFor
        <3>6. p.balance[q] <= to_bet BY <1>1, <1>6, FieldTypes DEF Chips
        <3>. QED BY <1>1, <1>6, <2>1, <3>1, <3>3, <3>4, <3>5, <3>6 DEF to_bet
    <2>2. CASE Check(p, q) = p
        BY <1>6, <2>2, PaidNothing DEF ActedBy
    <2>. QED BY <1>2, <1>6, <2>1, <2>2
<1>. QED BY <1>4, <1>5, <1>6

(* What a raise makes of the bets.                                         *)
LEMMA RaiseType ==
    ASSUME NEW p \in Table, NEW q \in Players, NEW amount \in Chips,
           RaiseAllowed(p, q, amount), InHand(p)
    PROVE  /\ Raise(p, q, amount) \in Table /\ ActedBy(p, Raise(p, q, amount), q)
           /\ Raise(p, q, amount).is_sb_must_call <=> (p.is_sb_must_call /\ p.sb_player # q)
           /\ \/ /\ Raise(p, q, amount).bet[q] = p.bet[q]
                 /\ Raise(p, q, amount).current_bet = p.current_bet
              \/ /\ amount >= p.current_bet
                 /\ Raise(p, q, amount).bet[q] = Plus(p.bet[q], Minus(amount, p.bet[q]))
                 /\ Raise(p, q, amount).current_bet = amount
<1> DEFINE to_bet == Minus(amount, p.bet[q])
           raise_by == Minus(amount, p.current_bet)
           balance == [p.balance EXCEPT ![q] = p.balance[q] - to_bet]
           must == p.is_sb_must_call /\ p.sb_player # q
           counter == p.synced_action_counter + 1
           paid == [p EXCEPT !.balance = balance, !.is_sb_must_call = must,
                             !.synced_action_counter = counter]
           current_raise == IF raise_by >= p.current_raise THEN raise_by ELSE p.current_raise
           raised == IF amount > p.current_bet THEN p.raised \cup {p.state} ELSE p.raised
           bet == [p.bet EXCEPT ![q] = Plus(p.bet[q], to_bet)]
           pot == Plus(p.pot_amount, to_bet)
           seat == p.position[q]
           full == [p EXCEPT !.balance = balance, !.is_sb_must_call = must,
                             !.synced_action_counter = counter,
                             !.current_raise = current_raise, !.raised = raised,
                             !.current_bet = amount, !.bet = bet, !.pot_amount = pot,
                             !.last_raised_pos = seat]
<1>1. to_bet \in Chips /\ raise_by \in Chips /\ to_bet \in Int
    <2>1. p.current_bet \in Int /\ p.bet[q] \in Int /\ amount \in Int BY FieldTypes
    <2>. QED BY <2>1, WrapType, FieldTypes
<1>2. p.balance \in [Players -> Chips] /\ p.bet \in [Players -> Chips] BY DEF Table
<1>3. balance \in [Players -> Chips]
    <2>1. p.balance[q] >= to_bet BY DEF RaiseAllowed
    <2>2. p.balance[q] - to_bet \in Chips BY <1>1, <2>1, FieldTypes, ChipFacts DEF Chips
    <2>. QED BY <1>2, <2>2
<1>4. Plus(p.bet[q], to_bet) \in Chips /\ pot \in Chips
    <2>1. p.bet[q] \in Int /\ p.pot_amount \in Int BY FieldTypes
    <2>. QED BY <1>1, <2>1, WrapType
<1>5. bet \in [Players -> Chips] BY <1>2, <1>4
<1>6. must \in BOOLEAN /\ counter \in Nat BY FieldTypes DEF Table
<1>7. current_raise \in Chips BY <1>1, FieldTypes
<1>8. raised \in SUBSET (PREFLOP .. RIVER)
    BY DEF Table, InHand
<1>9. seat \in Int BY FieldTypes
<1>10. /\ bet[q] = Plus(p.bet[q], Minus(amount, p.bet[q]))
       /\ \A o \in Players \ {q} : bet[o] = p.bet[o]
       /\ balance[q] = p.balance[q] - to_bet
       /\ \A o \in Players \ {q} : balance[o] = p.balance[o]
    BY <1>2
<1>11. /\ balance[q] + p.pot_amount <= p.balance[q] + p.pot_amount
       /\ balance[q] + pot <= p.balance[q] + p.pot_amount
    <2>1. pot <= p.pot_amount + to_bet /\ pot \in Nat
        <3>1. p.pot_amount \in Nat /\ to_bet \in Nat BY <1>1, FieldTypes, ChipFacts DEF Chips
        <3>. QED BY <3>1, PlusAtMost
    <2>2. p.balance[q] \in Int /\ p.pot_amount \in Int /\ to_bet \in Int /\ to_bet >= 0
        BY <1>1, FieldTypes DEF Chips
    <2> HIDE DEF pot, balance, to_bet
    <2>. QED BY <1>10, <2>1, <2>2
<1> HIDE DEF balance, counter, current_raise, raised, bet, pot, seat
<1>12. paid \in Table BY <1>3, <1>6 DEF Table
<1>13. /\ paid.bet = p.bet /\ paid.state = p.state /\ paid.current_bet = p.current_bet
       /\ paid.players = p.players /\ paid.account = p.account /\ paid.playing = p.playing
       /\ paid.sb_player = p.sb_player /\ paid.bb_player = p.bb_player
       /\ paid.is_sb_must_call = must /\ paid.pot_amount = p.pot_amount
       /\ paid.balance = balance /\ paid.left = p.left
    BY DEF Table
<1>14. full \in Table BY <1>3, <1>4, <1>5, <1>6, <1>7, <1>8, <1>9 DEF Table
<1>15. /\ full.bet = bet /\ full.state = p.state /\ full.current_bet = amount
       /\ full.players = p.players /\ full.account = p.account /\ full.playing = p.playing
       /\ full.sb_player = p.sb_player /\ full.bb_player = p.bb_player
       /\ full.is_sb_must_call = must /\ full.pot_amount = pot
       /\ full.balance = balance /\ full.left = p.left
    BY DEF Table
<1>16. Raise(p, q, amount) = IF amount < p.current_bet THEN paid ELSE full
    <2>1. /\ paid.current_raise = p.current_raise /\ paid.raised = p.raised
          /\ paid.bet = p.bet /\ paid.pot_amount = p.pot_amount
        BY DEF Table
    <2>2. CASE amount < p.current_bet
        BY <2>2 DEF Raise, balance, counter
    <2>3. CASE ~(amount < p.current_bet)
        <3>1. Raise(p, q, amount) =
                 [paid EXCEPT !.current_raise = current_raise, !.raised = raised,
                              !.current_bet = amount, !.bet = bet, !.pot_amount = pot,
                              !.last_raised_pos = seat]
            BY <2>1, <2>3 DEF Raise, balance, counter, current_raise, raised, bet, pot, seat
        <3>. QED BY <2>3, <3>1
    <2>. QED BY <2>2, <2>3
<1> HIDE DEF paid, full
<1>17. ActedBy(p, paid, q) /\ ActedBy(p, full, q)
    <2>1. PaidIn(p, paid, q) BY <1>13, PaidNothing
    <2>2. PaidIn(p, full, q) BY <1>1, <1>10, <1>15 DEF PaidIn, pot
    <2>3. PaidFor(p, paid, q) /\ PaidFor(p, full, q)
        BY <1>10, <1>11, <1>13, <1>15 DEF PaidFor
    <2>. QED BY <1>10, <1>13, <1>15, <2>1, <2>2, <2>3 DEF ActedBy
<1>18. ~(amount < p.current_bet) => amount >= p.current_bet BY FieldTypes
<1>. QED BY <1>10, <1>12, <1>13, <1>14, <1>15, <1>16, <1>17, <1>18

(* A table as the lobby sees it between tasks.                             *)
Visible(p) ==
    /\ p.state \notin {SMALL_BLIND, BIG_BLIND}
    /\ InHand(p) => p.bb_player \in Players

(* The pot is the players' bets, as a uint64_t counts them.                *)
PotAdds(p) == p.pot_amount = SumOf(p.bet, Listed(p)) % Modulus

(* In a hand the pot is the bets.  And what keeps the bets within the      *)
(* current bet: the small blind is at the table, and while his first call  *)
(* is due he has at most his blind in, and nobody who plays shares his     *)
(* account.                                                                *)
HandInv(p) ==
    /\ PotAdds(p)
    /\ p.sb_player \in Listed(p)
    /\ p.current_bet >= BigBlind
    /\ \A q \in Listed(p) : p.bet[q] <= p.current_bet
    /\ p.is_sb_must_call =>
          \A q \in Listed(p) \cap p.playing :
              p.account[q] = p.account[p.sb_player]
                  => q = p.sb_player /\ p.bet[q] <= SmallBlind

(* A step that leaves the bets alone keeps HandInv.                        *)
LEMMA SameBetsInv ==
    ASSUME NEW p, NEW r, SameBets(p, r), HandInv(p)
    PROVE  HandInv(r)
BY DEF SameBets, HandInv, PotAdds, Listed

(* A player's payment keeps the pot the bets.                              *)
LEMMA PaidPot ==
    ASSUME NEW p \in Table, NEW r \in Table, NEW q \in Listed(p), r.players = p.players,
           \A o \in Players \ {q} : r.bet[o] = p.bet[o], PaidIn(p, r, q), PotAdds(p)
    PROVE  PotAdds(r)
<1> DEFINE L == Listed(p)
           R == SumOf(p.bet, L \ {q})
<1>1. L \in SUBSET Players /\ IsFiniteSet(L) /\ IsFiniteSet(L \ {q}) /\ q \in L
    BY ListedType, PlayersCount, FS_Subset
<1>2. \A o \in L : p.bet[o] \in Chips /\ r.bet[o] \in Chips
    BY <1>1, FieldTypes
<1>3. Chips \subseteq Nat /\ Modulus \in Nat /\ Modulus > 0
    BY ChipFacts DEF Chips
<1>4. \A o \in L : p.bet[o] \in Nat /\ r.bet[o] \in Nat
    BY <1>2, <1>3
<1>5. SumOf(p.bet, L) = p.bet[q] + R /\ R \in Nat
    BY <1>1, <1>4, SumStep
<1>6. SumOf(r.bet, L) = r.bet[q] + SumOf(r.bet, L \ {q})
    BY <1>1, <1>4, SumStep
<1>7. SumOf(r.bet, L \ {q}) = R
    <2>1. \A o \in L \ {q} : r.bet[o] = p.bet[o] /\ r.bet[o] <= p.bet[o]
        BY <1>1, <1>4
    <2>. QED BY <1>1, <1>4, <2>1, SumMonotone
<1>8. PICK x \in Chips : /\ r.bet[q] = Plus(p.bet[q], x)
                         /\ r.pot_amount = Plus(p.pot_amount, x)
    BY DEF PaidIn
<1>9. p.pot_amount = (p.bet[q] + R) % Modulus
    BY <1>5 DEF PotAdds
<1> HIDE DEF R, L
<1>11. r.pot_amount = (r.bet[q] + R) % Modulus
    <2>1. p.bet[q] \in Nat /\ x \in Nat
        BY <1>1, <1>3, <1>4
    <2>2. r.pot_amount = (((p.bet[q] + R) % Modulus) + x) % Modulus
        BY <1>8, <1>9 DEF Plus
    <2>3. r.bet[q] = (p.bet[q] + x) % Modulus
        BY <1>8 DEF Plus
    <2>4. ASSUME NEW M \in Nat, M > 0, NEW b \in Nat, NEW c \in Nat, NEW d \in Nat
          PROVE  (((b + c) % M) + d) % M = (((b + d) % M) + c) % M
        BY <2>4, SumsWrap
    <2>5. (((p.bet[q] + R) % Modulus) + x) % Modulus = (((p.bet[q] + x) % Modulus) + R) % Modulus
        BY <1>3, <1>5, <2>1, <2>4
    <2>. QED BY <2>2, <2>3, <2>5
<1>12. Listed(r) = L
    BY DEF Listed, L
<1>. QED BY <1>6, <1>7, <1>11, <1>12 DEF PotAdds

(* A sum that is an amount does not wrap.                                  *)
LEMMA PlusExact ==
    ASSUME NEW x \in Chips, NEW y \in Chips, NEW z \in Chips, x + y <= z
    PROVE  Plus(x, y) = x + y
BY ChipFacts DEF Plus, Chips

(* A difference that is no less than 0 does not wrap.                      *)
LEMMA MinusExact ==
    ASSUME NEW x \in Chips, NEW y \in Chips, y <= x
    PROVE  Minus(x, y) = x - y
BY ChipFacts DEF Minus, Chips

(* A check or a call keeps HandInv.                                        *)
LEMMA CheckInv ==
    ASSUME NEW p \in Table, NEW q \in Listed(p) \cap p.playing, CheckAllowed(p, q), HandInv(p)
    PROVE  HandInv(Check(p, q))
<1> DEFINE r == Check(p, q)
<1>1. q \in Players BY ListedType
<1>2. /\ r \in Table /\ ActedBy(p, r, q) /\ r.current_bet = p.current_bet
      /\ \/ MustCall(p, q) /\ ~r.is_sb_must_call /\ r.bet[q] = Plus(p.bet[q], SmallBlind)
         \/ /\ ~MustCall(p, q) /\ r.is_sb_must_call = p.is_sb_must_call
            /\ \/ r.bet[q] = p.bet[q]
               \/ \E x \in Chips : /\ x <= Minus(p.current_bet, p.bet[q])
                                   /\ r.bet[q] = Plus(p.bet[q], x)
    BY <1>1, CheckType
<1> HIDE DEF r
<1>3. /\ p.bet[q] \in Chips /\ p.current_bet \in Chips /\ Chips \subseteq Int
      /\ p.bet[q] <= p.current_bet
    BY <1>1, FieldTypes DEF HandInv
<1>4. r.bet[q] <= p.current_bet
    <2>1. CASE MustCall(p, q)
        <3>1. p.bet[q] <= SmallBlind /\ p.current_bet >= BigBlind
            BY <2>1 DEF MustCall, HandInv
        <3>2. p.bet[q] + SmallBlind <= p.current_bet
            <4>1. SmallBlind \in Int /\ BigBlind \in Int /\ SmallBlind + SmallBlind <= BigBlind
                BY BlindsAssumption
            <4>2. p.bet[q] \in Int /\ p.current_bet \in Int BY <1>3
            <4>. QED BY <3>1, <4>1, <4>2
        <3>. QED BY <1>2, <1>3, <2>1, <3>2, PlusExact, ChipFacts
    <2>2. ASSUME NEW x \in Chips, x <= Minus(p.current_bet, p.bet[q]),
                 r.bet[q] = Plus(p.bet[q], x)
          PROVE  r.bet[q] <= p.current_bet
        <3>1. p.bet[q] + x <= p.current_bet
            <4>1. x <= p.current_bet - p.bet[q] BY <1>3, <2>2, MinusExact
            <4>2. x \in Int /\ p.bet[q] \in Int /\ p.current_bet \in Int BY <1>3
            <4>. QED BY <4>1, <4>2
        <3>. QED BY <1>3, <2>2, <3>1, PlusExact
    <2>. QED BY <1>2, <1>3, <2>1, <2>2
<1>5. Listed(r) = Listed(p) /\ Listed(p) \subseteq Players
    BY <1>2, ListedType DEF ActedBy, Listed
<1>6. \A o \in Listed(r) : r.bet[o] <= r.current_bet
    BY <1>2, <1>4, <1>5 DEF ActedBy, HandInv
<1>7. r.is_sb_must_call => ~MustCall(p, q) /\ p.is_sb_must_call
    BY <1>2 DEF MustCall
<1>8. r.is_sb_must_call =>
         \A o \in Listed(r) \cap r.playing :
             r.account[o] = r.account[r.sb_player] => o = r.sb_player /\ r.bet[o] <= SmallBlind
    BY <1>2, <1>5, <1>7 DEF ActedBy, HandInv, MustCall
<1>9. PotAdds(r) BY <1>2, PaidPot DEF ActedBy, HandInv
<1>. QED BY <1>2, <1>5, <1>6, <1>8, <1>9 DEF ActedBy, HandInv, r

(* A raise keeps HandInv.                                                  *)
LEMMA RaiseInv ==
    ASSUME NEW p \in Table, NEW q \in Listed(p) \cap p.playing, NEW amount \in Chips,
           RaiseAllowed(p, q, amount), InHand(p), HandInv(p)
    PROVE  HandInv(Raise(p, q, amount))
<1> DEFINE r == Raise(p, q, amount)
<1>1. q \in Players BY ListedType
<1>2. /\ r \in Table /\ ActedBy(p, r, q)
      /\ r.is_sb_must_call <=> (p.is_sb_must_call /\ p.sb_player # q)
      /\ \/ r.bet[q] = p.bet[q] /\ r.current_bet = p.current_bet
         \/ /\ amount >= p.current_bet /\ r.current_bet = amount
            /\ r.bet[q] = Plus(p.bet[q], Minus(amount, p.bet[q]))
    BY <1>1, RaiseType
<1> HIDE DEF r
<1>3. Listed(r) = Listed(p) /\ Listed(p) \subseteq Players
    BY <1>2, ListedType DEF ActedBy, Listed
<1>4. \A o \in Players : p.bet[o] \in Int /\ p.current_bet \in Int /\ amount \in Int
    BY FieldTypes
<1>5. p.bet[q] <= p.current_bet /\ p.current_bet >= BigBlind BY DEF HandInv
<1>6. /\ p.current_bet <= r.current_bet /\ r.bet[q] <= r.current_bet
      /\ r.current_bet \in Int
    <2>1. CASE r.bet[q] = p.bet[q] /\ r.current_bet = p.current_bet
        BY <1>1, <1>4, <1>5, <2>1
    <2>2. CASE /\ amount >= p.current_bet /\ r.current_bet = amount
               /\ r.bet[q] = Plus(p.bet[q], Minus(amount, p.bet[q]))
        <3>1. p.bet[q] \in Chips /\ p.bet[q] <= amount
            BY <1>1, <1>4, <1>5, <2>2, FieldTypes
        <3>2. Minus(amount, p.bet[q]) = amount - p.bet[q] /\ Minus(amount, p.bet[q]) \in Chips
            BY <1>1, <1>4, <3>1, MinusExact, WrapType
        <3>3. p.bet[q] + Minus(amount, p.bet[q]) = amount BY <1>1, <1>4, <3>2
        <3>4. r.bet[q] = amount
            BY <1>1, <1>4, <2>2, <3>1, <3>2, <3>3, PlusExact
        <3>. QED BY <1>1, <1>4, <2>2, <3>4
    <2>. QED BY <1>2, <2>1, <2>2
<1>7. r.current_bet >= BigBlind BY <1>1, <1>4, <1>5, <1>6, BlindsAssumption
<1>8. \A o \in Listed(r) : r.bet[o] <= r.current_bet
    <2>1. ASSUME NEW o \in Listed(p) PROVE r.bet[o] <= r.current_bet
        <3>1. CASE o = q BY <1>6, <3>1
        <3>2. CASE o # q
            <4>1. r.bet[o] = p.bet[o] /\ p.bet[o] <= p.current_bet /\ o \in Players
                BY <1>2, <1>3, <3>2 DEF ActedBy, HandInv
            <4>. QED BY <1>4, <1>6, <4>1
        <3>. QED BY <3>1, <3>2
    <2>. QED BY <1>3, <2>1
<1>9. r.is_sb_must_call =>
         \A o \in Listed(r) \cap r.playing :
             r.account[o] = r.account[r.sb_player] => o = r.sb_player /\ r.bet[o] <= SmallBlind
    BY <1>2, <1>3 DEF ActedBy, HandInv
<1>10. PotAdds(r) BY <1>2, PaidPot DEF ActedBy, HandInv
<1>. QED BY <1>2, <1>3, <1>7, <1>8, <1>9, <1>10 DEF ActedBy, HandInv, r

(* An action, whoever's it is, keeps the type, the players and HandInv.    *)
LEMMA DoActionType ==
    ASSUME NEW p \in Table, NEW q \in Listed(p), NEW kind, NEW amount \in Chips,
           NEW ranking \in Rankings(p), Visible(p)
    PROVE  /\ DoAction(p, q, kind, amount, ranking) \in Table
           /\ Visible(DoAction(p, q, kind, amount, ranking))
           /\ InHand(DoAction(p, q, kind, amount, ranking)) => InHand(p)
           /\ InHand(p) /\ HandInv(p) => HandInv(DoAction(p, q, kind, amount, ranking))
           /\ DoAction(p, q, kind, amount, ranking).players = p.players
           /\ DoAction(p, q, kind, amount, ranking).left = p.left
           /\ \/ DoAction(p, q, kind, amount, ranking) = p
              \/ InHand(p) /\ DoAction(p, q, kind, amount, ranking).state \in PREFLOP .. DONE
<1> DEFINE r == DoAction(p, q, kind, amount, ranking)
           raised == Raise(p, q, amount)
           checked == Check(p, q)
           folds == p.folded \cup {q}
           folded == [p EXCEPT !.folded = folds]
<1>1. q \in Players /\ p.players # << >> BY ListedType DEF Listed
<1>2. CASE r = p BY <1>2
<1>3. CASE r # p
    <2>1. InHand(p) /\ q \in p.playing
        BY <1>3 DEF DoAction, MayAct, InHand, Visible, SMALL_BLIND, BIG_BLIND, PREFLOP, RIVER
    <2>2. PICK a : /\ r = Accepted(a, q, kind, ranking)
                   /\ \/ a = raised /\ RaiseAllowed(p, q, amount)
                      \/ a = checked /\ CheckAllowed(p, q)
                      \/ a \in {folded, p}
        BY <1>3 DEF DoAction
    <2>3. folds \in SUBSET Players BY <1>1 DEF Table
    <2> HIDE DEF folds, r
    <2>4. folded \in Table /\ SameBets(p, folded) /\ folded.state = p.state
        BY <2>3 DEF Table, SameBets
    <2> HIDE DEF folded
    <2>5. /\ a \in Table /\ a.players = p.players /\ a.bb_player = p.bb_player
          /\ a.state = p.state /\ a.left = p.left
        <3>1. CASE a = raised /\ RaiseAllowed(p, q, amount)
            BY <1>1, <2>1, <3>1, RaiseType DEF ActedBy
        <3>2. CASE a = checked /\ CheckAllowed(p, q)
            BY <1>1, <3>2, CheckType DEF ActedBy
        <3>3. CASE a \in {folded, p} BY <2>4, <3>3 DEF SameBets
        <3>. QED BY <2>2, <3>1, <3>2, <3>3
    <2>6. HandInv(p) => HandInv(a)
        <3>1. CASE a = raised /\ RaiseAllowed(p, q, amount) BY <2>1, <3>1, RaiseInv
        <3>2. CASE a = checked /\ CheckAllowed(p, q) BY <2>1, <3>2, CheckInv
        <3>3. CASE a \in {folded, p} BY <2>4, <3>3, SameBetsInv
        <3>. QED BY <2>2, <3>1, <3>2, <3>3
    <2> HIDE DEF raised, checked
    <2>7. /\ ranking \in Rankings(a) /\ a.players # << >> /\ InHand(a)
          /\ a.bb_player \in Players
        BY <1>1, <2>1, <2>5 DEF Rankings, Listed, InHand, Visible
    <2>8. r \in Table /\ SameBets(a, r) /\ r.state \in PREFLOP .. DONE
        BY <1>1, <2>2, <2>5, <2>7, AcceptedType
    <2>9. HandInv(p) => HandInv(r) BY <2>6, <2>8, SameBetsInv
    <2>10. Visible(r)
        BY <2>5, <2>7, <2>8
        DEF Visible, SameBets, SMALL_BLIND, BIG_BLIND, PREFLOP, DONE
    <2>11. r.players = p.players /\ r.left = p.left BY <2>5, <2>8 DEF SameBets
    <2>. QED BY <2>1, <2>8, <2>9, <2>10, <2>11 DEF r
<1>. QED BY <1>2, <1>3

-------------------------------------------------------------------------------
(* Starting and restarting a hand.                                         *)

(* What posting a blind of q makes of the table.                           *)
Posted(p, r, q, amount) ==
    /\ r \in Table
    /\ r.players = p.players /\ r.account = p.account /\ r.playing = p.playing
    /\ r.sb_player = p.sb_player /\ r.bb_player = p.bb_player /\ r.left = p.left
    /\ \A o \in Players \ {q} : r.bet[o] = p.bet[o]
    /\ r # p => q \in Players /\ r.bet[q] = Plus(p.bet[q], amount)
    /\ r.is_sb_must_call => p.is_sb_must_call \/ p.state = SMALL_BLIND
    /\ q \in Listed(p) /\ PotAdds(p) => PotAdds(r)

(* Posting a blind does what Posted says.                                  *)
LEMMA PostBlindType ==
    ASSUME NEW p \in Table, NEW q \in Players \cup {None},
           NEW amount \in {SmallBlind, BigBlind}, NEW ranking \in Rankings(p),
           p.state \in {SMALL_BLIND, BIG_BLIND}, p.players # << >>
    PROVE  Posted(p, PostBlind(p, q, amount, ranking), q, amount)
<1> DEFINE r == PostBlind(p, q, amount, ranking)
           paid == Pays(p, q, amount)
           small == [paid EXCEPT !.is_sb_must_call = TRUE]
           raised == paid.raised \cup {PREFLOP}
           big == [paid EXCEPT !.raised = raised]
           a == IF p.state = SMALL_BLIND THEN small ELSE big
<1>1. CASE r = p
    BY <1>1 DEF Posted
<1>2. CASE r # p
    <2>1. /\ q \in p.playing /\ ~(p.balance[q] < amount)
          /\ r = Accepted(a, q, "BLIND", ranking)
        BY <1>2 DEF PostBlind, MayAct
    <2>2. q \in Players BY <2>1 DEF Table
    <2>3. amount \in Chips /\ amount <= p.balance[q]
        BY <2>1, <2>2, ChipFacts, FieldTypes DEF Chips
    <2>4. /\ paid \in Table /\ ActedBy(p, paid, q) /\ paid.bet[q] = Plus(p.bet[q], amount)
          /\ paid.is_sb_must_call = p.is_sb_must_call
        BY <2>2, <2>3, PaysType
    <2> HIDE DEF paid
    <2>5. raised \in SUBSET (PREFLOP .. RIVER) BY <2>4 DEF Table, PREFLOP, RIVER
    <2> HIDE DEF raised
    <2>6. small \in Table /\ big \in Table BY <2>4, <2>5 DEF Table
    <2>7. /\ SameBets(paid, big) /\ big.state = paid.state
          /\ small.players = paid.players /\ small.account = paid.account
          /\ small.playing = paid.playing /\ small.bet = paid.bet
          /\ small.sb_player = paid.sb_player /\ small.bb_player = paid.bb_player
          /\ small.state = paid.state /\ small.pot_amount = paid.pot_amount
          /\ small.left = paid.left
        BY <2>4 DEF Table, SameBets
    <2> HIDE DEF small, big
    <2>8. /\ a \in Table /\ a.state = p.state
          /\ a.players = p.players /\ a.account = p.account /\ a.playing = p.playing
          /\ a.sb_player = p.sb_player /\ a.bb_player = p.bb_player /\ a.bet = paid.bet
          /\ a.pot_amount = paid.pot_amount /\ a.left = p.left
          /\ a.is_sb_must_call => p.is_sb_must_call \/ p.state = SMALL_BLIND
        BY <2>4, <2>6, <2>7 DEF ActedBy, SameBets
    <2> HIDE DEF a, r
    <2>9. ranking \in Rankings(a) /\ a.players # << >> /\ ~InHand(a)
        BY <2>8 DEF Rankings, Listed, InHand, SMALL_BLIND, BIG_BLIND, PREFLOP, RIVER
    <2>10. r \in Table /\ SameBets(a, r) BY <2>1, <2>2, <2>8, <2>9, AcceptedType
    <2>11. \A o \in Players \ {q} : r.bet[o] = p.bet[o]
        BY <2>4, <2>8, <2>10 DEF ActedBy, SameBets
    <2>12. /\ r.players = p.players /\ r.account = p.account /\ r.playing = p.playing
           /\ r.sb_player = p.sb_player /\ r.bb_player = p.bb_player
           /\ r.bet[q] = Plus(p.bet[q], amount) /\ r.left = p.left
           /\ r.is_sb_must_call => p.is_sb_must_call \/ p.state = SMALL_BLIND
        BY <2>4, <2>8, <2>10 DEF SameBets
    <2>13. PaidIn(p, r, q)
        BY <2>4, <2>8, <2>10 DEF ActedBy, PaidIn, SameBets
    <2>14. q \in Listed(p) /\ PotAdds(p) => PotAdds(r)
        BY <2>10, <2>11, <2>12, <2>13, PaidPot
    <2>. QED BY <2>2, <2>10, <2>11, <2>12, <2>14 DEF r, Posted
<1>. QED BY <1>1, <1>2

(* One player to a seat.                                                   *)
OneToASeat(p) ==
    \A i, j \in DOMAIN p.players :
        i # j => p.position[p.players[i]] # p.position[p.players[j]]

(* What dealing a hand makes of the table.                                 *)
Dealt(p, r) ==
    /\ r \in Table /\ r.state = PREFLOP /\ r.current_bet = BigBlind
    /\ r.players = p.players /\ r.account = p.account /\ r.playing = p.playing
    /\ r.left = p.left
    /\ r.sb_player \in Listed(p) /\ r.bb_player \in Listed(p)
    /\ OneToASeat(p) => r.sb_player # r.bb_player
    /\ PotAdds(p) => PotAdds(r)
    /\ \A o \in Players \ {r.sb_player, r.bb_player} : r.bet[o] = p.bet[o]
    /\ r.sb_player # r.bb_player =>
          /\ r.bet[r.sb_player] \in {p.bet[r.sb_player], Plus(p.bet[r.sb_player], SmallBlind)}
          /\ r.bet[r.bb_player] \in {p.bet[r.bb_player], Plus(p.bet[r.bb_player], BigBlind)}

(* A seat of a seated player has a player to be found.                     *)
LEMMA SeatedType ==
    ASSUME NEW p \in Table
    PROVE  /\ Seated(p) \subseteq Players
           /\ Seated(p) # {} => Seats(p, Seated(p)) # {}
           /\ Seats(p, Seated(p)) \in SUBSET Nat
           /\ \A seat \in Seats(p, Seated(p)) :
                 GetByPosition(p, seat) \in Listed(p) /\ p.position[GetByPosition(p, seat)] = seat
<1>1. Seated(p) \subseteq Players /\ Seated(p) \subseteq Listed(p) BY ListedType DEF Seated
<1>2. \A q \in Seated(p) : q = GetByPosition(p, p.position[q]) BY DEF Seated
<1>. QED BY <1>1, <1>2, SeatsType DEF Seats

(* The search for the big blind's seat does not come back to the small     *)
(* blind's when another seat is taken.                                     *)
LEMMA NextSeatDiffers ==
    ASSUME NEW S \in SUBSET Nat, NEW seat \in S, NEW other \in S, other # seat
    PROVE  SeatFrom(S, seat + 1) # seat
<1>1. CASE {s \in S : s >= seat + 1} # {}
    <2>1. Min({s \in S : s >= seat + 1}) \in {s \in S : s >= seat + 1}
        BY <1>1, MinNat, {s \in S : s >= seat + 1} \in SUBSET Nat
    <2>. QED BY <1>1, <2>1, seat \in Nat DEF SeatFrom
<1>2. CASE {s \in S : s >= seat + 1} = {}
    <2>1. Min(S) <= other BY MinNat
    <2>2. other < seat
        <3>1. ~(other >= seat + 1) BY <1>2
        <3>. QED BY <3>1, other \in Nat, seat \in Nat
    <2>3. Min(S) \in Nat BY MinNat
    <2>. QED BY <1>2, <2>1, <2>2, <2>3, seat \in Nat, other \in Nat DEF SeatFrom
<1>. QED BY <1>1, <1>2

(* Two players who stay, one to a seat, sit on two seats.                  *)
LEMMA TwoSeats ==
    ASSUME NEW p \in Table, OneToASeat(p),
           Cardinality({i \in DOMAIN p.players : p.players[i] \notin p.left}) >= 2
    PROVE  \E s, t \in Seats(p, Seated(p)) : s # t
<1> DEFINE staying == {i \in DOMAIN p.players : p.players[i] \notin p.left}
<1>1. PICK i \in staying, j \in staying : i # j
    <2>1. IsFiniteSet(staying)
        <3>1. IsFiniteSet(DOMAIN p.players) BY ListedType, FS_Interval
        <3>. QED BY <3>1, FS_Subset
    <2>2. Cardinality(staying) # 0 /\ Cardinality(staying) # 1
        <3>1. Cardinality(staying) \in Nat BY <2>1, FS_CardinalityType
        <3>. QED BY <3>1
    <2>3. staying # {} BY <2>1, <2>2, FS_EmptySet
    <2>4. \A x : staying # {x} BY <2>1, <2>2, FS_Singleton
    <2>. QED BY <2>3, <2>4
<1>2. \A k \in staying : p.players[k] \in Seated(p)
    <2>1. ASSUME NEW k \in staying PROVE p.players[k] \in Seated(p)
        <3> DEFINE q == p.players[k]
                   o == GetByPosition(p, p.position[q])
        <3>1. q \in Listed(p) \ p.left BY DEF Listed
        <3>2. o \in Listed(p) /\ p.position[o] = p.position[q] BY <3>1, LookupType
        <3>3. o = q BY <3>2 DEF Listed, OneToASeat
        <3>. QED BY <3>1, <3>3 DEF Seated
    <2>. QED BY <2>1
<1>3. p.position[p.players[i]] # p.position[p.players[j]] BY <1>1 DEF OneToASeat
<1>. QED BY <1>1, <1>2, <1>3 DEF Seats

(* Starting deals a hand, or leaves the table as it is, or spins.          *)
LEMMA StartType ==
    ASSUME NEW p \in Table, NEW ranking \in Rankings(p)
    PROVE  IF Cardinality({i \in DOMAIN p.players : p.players[i] \notin p.left}) < 2
           THEN Start(p, ranking) = p
           ELSE Start(p, ranking) = Fails(p, "spin") \/ Dealt(p, Start(p, ranking))
<1> DEFINE button == SeatFrom(Seats(p, Seated(p)), p.button_position)
           big_seat == SeatFrom(Seats(p, Seated(p)), button + 1)
           sb == GetByPosition(p, button)
           bb == GetByPosition(p, big_seat)
           seated == [p EXCEPT !.sb_player = sb, !.bb_player = bb,
                               !.button_position = button, !.playing_position = button,
                               !.overdue = FALSE, !.state = SMALL_BLIND]
           small == PostBlind(seated, seated.sb_player, SmallBlind, ranking)
           between == [small EXCEPT !.state = BIG_BLIND]
           big == PostBlind(between, seated.bb_player, BigBlind, ranking)
           starters == Cardinality(Able(big))
           r == [big EXCEPT !.current_bet = BigBlind, !.current_raise = BigBlind,
                            !.starter_players_num = starters, !.state = PREFLOP]
           staying == Cardinality({i \in DOMAIN p.players : p.players[i] \notin p.left})
<1>1. CASE staying < 2
    BY <1>1 DEF Start
<1>2. CASE ~(staying < 2) /\ Seated(p) = {}
    BY <1>2 DEF Start
<1>3. CASE ~(staying < 2) /\ Seated(p) # {}
    <2>1. Start(p, ranking) = r
        BY <1>3 DEF Start
    <2>2. p.button_position \in Int BY DEF Table
    <2>3. button \in Seats(p, Seated(p)) /\ button \in Nat
        BY <1>3, <2>2, SeatedType, SeatFromType
    <2> HIDE DEF button
    <2>4. big_seat \in Seats(p, Seated(p))
        BY <1>3, <2>3, SeatedType, SeatFromType
    <2>5. OneToASeat(p) => button # big_seat
        <3>1. SUFFICES ASSUME OneToASeat(p) PROVE button # big_seat
            OBVIOUS
        <3>2. staying >= 2
            <4>1. IsFiniteSet(DOMAIN p.players) BY ListedType, FS_Interval
            <4>2. staying \in Nat BY <4>1, FS_Subset, FS_CardinalityType
            <4>. QED BY <1>3, <4>2
        <3>3. PICK x \in Seats(p, Seated(p)) : x # button BY <3>1, <3>2, TwoSeats
        <3>. QED BY <2>3, <3>3, SeatedType, NextSeatDiffers
    <2> HIDE DEF big_seat
    <2>6. /\ sb \in Listed(p) /\ bb \in Listed(p)
          /\ p.position[sb] = button /\ p.position[bb] = big_seat
        BY <2>3, <2>4, SeatedType
    <2>7. sb \in Players /\ bb \in Players /\ p.players # << >>
        BY <2>6, ListedType DEF Listed
    <2> HIDE DEF sb, bb
    <2>8. SMALL_BLIND \in CREATED .. DONE /\ BIG_BLIND \in CREATED .. DONE
          /\ PREFLOP \in CREATED .. DONE /\ SMALL_BLIND # BIG_BLIND
        BY DEF CREATED, DONE, SMALL_BLIND, BIG_BLIND, PREFLOP
    <2>9. seated \in Table
        <3>1. /\ sb \in Players \cup {None} /\ bb \in Players \cup {None}
              /\ button \in Int
            BY <2>3, <2>7
        <3>2. SMALL_BLIND \in CREATED .. DONE BY <2>8
        <3>. QED BY <2>3, <3>1, <3>2 DEF Table
    <2>10. /\ seated.players = p.players /\ seated.account = p.account
           /\ seated.playing = p.playing /\ seated.bet = p.bet
           /\ seated.sb_player = sb /\ seated.bb_player = bb
           /\ seated.state = SMALL_BLIND /\ seated.pot_amount = p.pot_amount
           /\ seated.left = p.left
        BY DEF Table
    <2> HIDE DEF seated
    <2>11. Posted(seated, small, sb, SmallBlind)
        <3>1. ranking \in Rankings(seated) /\ seated.players # << >>
            BY <2>7, <2>10 DEF Rankings, Listed
        <3>. QED BY <2>7, <2>9, <2>10, <3>1, PostBlindType
    <2> HIDE DEF small
    <2>12. between \in Table
        BY <2>8, <2>11 DEF Table, Posted
    <2>13. /\ between.players = small.players /\ between.account = small.account
           /\ between.playing = small.playing /\ between.bet = small.bet
           /\ between.sb_player = small.sb_player /\ between.bb_player = small.bb_player
           /\ between.state = BIG_BLIND /\ between.pot_amount = small.pot_amount
           /\ between.left = small.left
        <3>1. small \in Table BY <2>11 DEF Posted
        <3>. QED BY <3>1 DEF Table
    <2> HIDE DEF between
    <2>14. /\ between.players = p.players /\ between.account = p.account
           /\ between.playing = p.playing
           /\ between.sb_player = sb /\ between.bb_player = bb /\ between.left = p.left
        BY <2>10, <2>11, <2>13 DEF Posted
    <2>15. big = PostBlind(between, bb, BigBlind, ranking)
        BY <2>10, <2>11 DEF Posted, between
    <2>16. Posted(between, big, bb, BigBlind)
        <3>1. ranking \in Rankings(between) /\ between.players # << >>
            BY <2>7, <2>14 DEF Rankings, Listed
        <3>. QED BY <2>7, <2>12, <2>13, <2>15, <3>1, PostBlindType
    <2> HIDE DEF big
    <2>17. big \in Table BY <2>16 DEF Posted
    <2>18. starters \in Nat
        <3>1. Able(big) \subseteq Players BY <2>17, ListedType DEF Able
        <3>. QED BY <3>1, PlayersCount
    <2> HIDE DEF starters
    <2>19. r \in Table
        BY <2>8, <2>17, <2>18, ChipFacts DEF Table
    <2>20. /\ r.players = big.players /\ r.account = big.account
           /\ r.playing = big.playing /\ r.bet = big.bet
           /\ r.sb_player = big.sb_player /\ r.bb_player = big.bb_player
           /\ r.state = PREFLOP /\ r.current_bet = BigBlind
           /\ r.pot_amount = big.pot_amount /\ r.left = big.left
        BY <2>17 DEF Table
    <2> HIDE DEF r
    <2>21. /\ r.players = p.players /\ r.account = p.account /\ r.playing = p.playing
           /\ r.sb_player = sb /\ r.bb_player = bb /\ r.left = p.left
        BY <2>14, <2>16, <2>20 DEF Posted
    <2>22. OneToASeat(p) => sb # bb BY <2>5, <2>6
    <2>23. \A o \in Players \ {sb, bb} : r.bet[o] = p.bet[o]
        BY <2>10, <2>11, <2>13, <2>16, <2>20 DEF Posted
    <2>24. sb # bb => /\ r.bet[sb] \in {p.bet[sb], Plus(p.bet[sb], SmallBlind)}
                      /\ r.bet[bb] \in {p.bet[bb], Plus(p.bet[bb], BigBlind)}
        <3>1. small.bet[sb] \in {p.bet[sb], Plus(p.bet[sb], SmallBlind)}
            BY <2>10, <2>11 DEF Posted
        <3>2. sb # bb => r.bet[sb] = small.bet[sb] /\ small.bet[bb] = p.bet[bb]
            BY <2>7, <2>10, <2>11, <2>13, <2>16, <2>20 DEF Posted
        <3>3. r.bet[bb] \in {small.bet[bb], Plus(small.bet[bb], BigBlind)}
            BY <2>13, <2>16, <2>20 DEF Posted
        <3>. QED BY <3>1, <3>2, <3>3
    <2>25. PotAdds(p) => PotAdds(r)
        <3>1. /\ sb \in Listed(seated) /\ bb \in Listed(between)
              /\ PotAdds(p) => PotAdds(seated)
            BY <2>6, <2>10, <2>14 DEF Listed, PotAdds
        <3>2. PotAdds(seated) => PotAdds(small)
            BY <2>11, <3>1 DEF Posted
        <3>3. PotAdds(small) => PotAdds(between)
            BY <2>13 DEF Listed, PotAdds
        <3>4. PotAdds(between) => PotAdds(big)
            BY <2>16, <3>1 DEF Posted
        <3>5. PotAdds(big) => PotAdds(r)
            BY <2>20 DEF Listed, PotAdds
        <3>. QED BY <3>1, <3>2, <3>3, <3>4, <3>5
    <2>26. Dealt(p, r)
        BY <2>6, <2>19, <2>20, <2>21, <2>22, <2>23, <2>24, <2>25 DEF Dealt
    <2>. QED BY <1>3, <2>1, <2>26
<1>. QED BY <1>1, <1>2, <1>3

(* Restarting keeps the type and the players.                              *)
LEMMA ResetType ==
    ASSUME NEW p \in Table
    PROVE  /\ Reset(p) \in Table /\ Reset(p).state = W4P
           /\ Reset(p).players = p.players /\ Reset(p).left = p.left
<1> DEFINE nobody == -1
           button == IF p.button_position + 1 >= Len(p.players) THEN 0
                     ELSE p.button_position + 1
           playing == p.playing \cup Listed(p)
           folded == p.folded \ Listed(p)
           allin == p.allin \ Listed(p)
           bet == [q \in Players |-> IF q \in Listed(p) THEN 0 ELSE p.bet[q]]
           full == Modulus - 1
           nil == {}
           nothing == 0
           r == [p EXCEPT
                   !.state = W4P, !.synced_action_counter = nothing, !.last_raised_pos = nobody,
                   !.is_sb_must_call = FALSE, !.winner = None, !.is_playing_last = FALSE,
                   !.pot_amount = nothing, !.current_raise = full, !.current_bet = full,
                   !.raised = nil, !.sb_player = None, !.bb_player = None,
                   !.button_position = button, !.playing = playing, !.folded = folded,
                   !.allin = allin, !.bet = bet]
<1>1. Reset(p) = r BY DEF Reset
<1>2. nobody \in Int /\ full \in Chips /\ nil \in SUBSET (PREFLOP .. RIVER)
      /\ nothing \in Chips /\ nothing \in Nat
    BY ChipFacts
<1>3. button \in Nat BY DEF Table
<1>4. playing \in SUBSET Players /\ folded \in SUBSET Players /\ allin \in SUBSET Players
    BY ListedType DEF Table
<1>5. bet \in [Players -> Chips] BY FieldTypes, ChipFacts
<1>6. W4P \in CREATED .. DONE /\ None \in Players \cup {None} BY DEF W4P, CREATED, DONE
<1> HIDE DEF nobody, button, playing, folded, allin, bet, full, nil, nothing
<1>7. r \in Table BY <1>2, <1>3, <1>4, <1>5, <1>6 DEF Table
<1>8. r.state = W4P /\ r.players = p.players /\ r.left = p.left BY DEF Table
<1> HIDE DEF r
<1>. QED BY <1>1, <1>7, <1>8

(* Restarting leaves nothing of the hand before.                           *)
LEMMA ResetClears ==
    ASSUME NEW p \in Table
    PROVE  ~Reset(p).is_sb_must_call /\ \A q \in Listed(p) : Reset(p).bet[q] = 0
<1>1. Listed(p) \subseteq Players BY ListedType
<1> DEFINE bet == [q \in Players |-> IF q \in Listed(p) THEN 0 ELSE p.bet[q]]
<1>2. \A q \in Listed(p) : bet[q] = 0 BY <1>1
<1> HIDE DEF bet
<1>3. ~Reset(p).is_sb_must_call /\ Reset(p).bet = bet BY DEF Reset, Table, bet
<1>. QED BY <1>2, <1>3

(* Adding a player keeps the type and the state.                           *)
LEMMA PlayersAddType ==
    ASSUME NEW p \in Table, NEW q \in Players, NEW a \in Accounts, NEW pos \in Nat,
           NEW amount \in Chips
    PROVE  LET r == PlayersAdd(p, q, a, pos, amount)
           IN  /\ r \in Table /\ r.state = p.state
               /\ \/ r = Fails(p, "null")
                  \/ r.players = Append(p.players, q) /\ r.left = p.left \ {q}
<1> DEFINE seat == pos % MaxPlayers
           players == Append(p.players, q)
           account == [p.account EXCEPT ![q] = a]
           position == [p.position EXCEPT ![q] = seat]
           balance == [p.balance EXCEPT ![q] = amount]
           bet == [p.bet EXCEPT ![q] = 0]
           playing == IF p.state < SMALL_BLIND THEN p.playing \cup {q} ELSE p.playing \ {q}
           folded == p.folded \ {q}
           allin == p.allin \ {q}
           left == p.left \ {q}
           on_turn == IF p.sb_player = None THEN seat ELSE p.playing_position
           sb == IF p.sb_player = None THEN q ELSE p.sb_player
           bb == IF p.sb_player # None /\ p.bb_player = None THEN q ELSE p.bb_player
           r == [p EXCEPT !.players = players, !.account = account, !.position = position,
                          !.balance = balance, !.bet = bet, !.playing = playing,
                          !.folded = folded, !.allin = allin, !.left = left,
                          !.playing_position = on_turn, !.sb_player = sb, !.bb_player = bb]
<1>1. PlayersAdd(p, q, a, pos, amount) \in {Fails(p, "null"), r}
    BY DEF PlayersAdd
<1>2. seat \in 0 .. MaxPlayers - 1 /\ seat \in Int BY TableAssumption
<1> HIDE DEF seat
<1>3. players \in Seq(Players) BY DEF Table
<1>4. account \in [Players -> Accounts \cup {None}] BY DEF Table
<1>5. position \in [Players -> 0 .. MaxPlayers - 1] BY <1>2 DEF Table
<1>6. balance \in [Players -> Chips] /\ bet \in [Players -> Chips] BY ChipFacts DEF Table
<1>7. /\ playing \in SUBSET Players /\ folded \in SUBSET Players
      /\ allin \in SUBSET Players /\ left \in SUBSET Players
    BY DEF Table
<1>8. on_turn \in Int BY <1>2 DEF Table
<1>9. sb \in Players \cup {None} /\ bb \in Players \cup {None} BY DEF Table
<1> HIDE DEF account, position, balance, bet, playing, folded, allin, on_turn, sb, bb
<1>. HIDE DEF players, left
<1>10. r \in Table BY <1>3, <1>4, <1>5, <1>6, <1>7, <1>8, <1>9 DEF Table
<1>11. r.state = p.state /\ r.players = players /\ r.left = left BY DEF Table
<1>12. Fails(p, "null") \in Table /\ Fails(p, "null").state = p.state
    BY DEF Table, Fails, Faults
<1> HIDE DEF r
<1>. QED BY <1>1, <1>10, <1>11, <1>12 DEF players, left

(* Removing players keeps the type and the state.                          *)
LEMMA PlayersRemoveType ==
    ASSUME NEW p \in Table, NEW S
    PROVE  /\ PlayersRemove(p, S) \in Table /\ PlayersRemove(p, S).state = p.state
           /\ PlayersRemove(p, S).players = Without(p.players, S)
           /\ PlayersRemove(p, S).left = p.left \ S
<1> DEFINE players == Without(p.players, S)
           account == [q \in Players |-> IF q \in S THEN None ELSE p.account[q]]
           position == [q \in Players |-> IF q \in S THEN 0 ELSE p.position[q]]
           balance == [q \in Players |-> IF q \in S THEN 0 ELSE p.balance[q]]
           bet == [q \in Players |-> IF q \in S THEN 0 ELSE p.bet[q]]
           playing == p.playing \ S
           folded == p.folded \ S
           allin == p.allin \ S
           left == p.left \ S
           r == [p EXCEPT !.players = players, !.account = account, !.position = position,
                          !.balance = balance, !.bet = bet, !.playing = playing,
                          !.folded = folded, !.allin = allin, !.left = left]
<1>1. PlayersRemove(p, S) = r BY DEF PlayersRemove
<1>2. players \in Seq(Players) BY ListedType, WithoutType
<1>3. account \in [Players -> Accounts \cup {None}] BY DEF Table
<1>4. position \in [Players -> 0 .. MaxPlayers - 1] BY ChipFacts DEF Table
<1>5. balance \in [Players -> Chips] /\ bet \in [Players -> Chips] BY ChipFacts, FieldTypes
<1>6. /\ playing \in SUBSET Players /\ folded \in SUBSET Players
      /\ allin \in SUBSET Players /\ left \in SUBSET Players
    BY DEF Table
<1> HIDE DEF players, account, position, balance, bet, playing, folded, allin, left
<1>7. r \in Table BY <1>2, <1>3, <1>4, <1>5, <1>6 DEF Table
<1>8. r.state = p.state /\ r.players = players /\ r.left = left BY DEF Table
<1> HIDE DEF r
<1>. QED BY <1>1, <1>7, <1>8 DEF players, left

(* Setting the state to a state keeps the type.                            *)
LEMMA SetStateType ==
    ASSUME NEW p \in Table, NEW state \in CREATED .. DONE
    PROVE  LET r == [p EXCEPT !.state = state]
           IN  r \in Table /\ r.state = state /\ r.players = p.players
               /\ r.bb_player = p.bb_player /\ r.left = p.left
BY DEF Table

(* A fault changes the field fault only.                                   *)
LEMMA FailsType ==
    ASSUME NEW p \in Table, NEW how \in Faults
    PROVE  /\ Fails(p, how) \in Table /\ Fails(p, how).state = p.state
           /\ Fails(p, how).fault = how /\ SameBets(p, Fails(p, how))
BY DEF Table, Fails, SameBets

(* The periodic step of the table keeps the type and HandInv.              *)
LEMMA ProceedType ==
    ASSUME NEW p \in Table, NEW ranking \in Rankings(p), Visible(p)
    PROVE  /\ Proceed(p, ranking) \in Table /\ Visible(Proceed(p, ranking))
           /\ InHand(Proceed(p, ranking)) => InHand(p)
           /\ InHand(p) /\ InHand(Proceed(p, ranking)) /\ HandInv(p)
                 => HandInv(Proceed(p, ranking))
           /\ Proceed(p, ranking).players = p.players /\ Proceed(p, ranking).left = p.left
           /\ \/ Proceed(p, ranking).state = p.state
              \/ Proceed(p, ranking).state = W4P /\ Len(p.players) < 2
              \/ InHand(p) /\ Proceed(p, ranking).state \in PREFLOP .. DONE
<1> DEFINE idle == [p EXCEPT !.state = W4P]
           waiting == IF Len(p.players) < 2 THEN idle ELSE p
           on_turn == GetByPosition(p, p.playing_position)
<1>1. /\ idle \in Table /\ idle.state = W4P /\ idle.players = p.players
      /\ idle.left = p.left
    <2>1. W4P \in CREATED .. DONE BY DEF W4P, CREATED, DONE
    <2>. QED BY <2>1, SetStateType
<1> HIDE DEF idle
<1>2. Visible(idle) /\ ~InHand(idle)
    BY <1>1 DEF Visible, InHand, W4P, SMALL_BLIND, BIG_BLIND, PREFLOP, RIVER
<1>3. Proceed(p, ranking) \in {waiting, Fails(p, "null"), DoAction(waiting, on_turn, "FOLD", 0, ranking)}
      /\ (Proceed(p, ranking) = DoAction(waiting, on_turn, "FOLD", 0, ranking)
             => on_turn # None \/ Proceed(p, ranking) \in {waiting, Fails(p, "null")})
    BY DEF Proceed, idle
<1>4. CASE Proceed(p, ranking) = waiting
    BY <1>1, <1>2, <1>4
<1>5. CASE Proceed(p, ranking) = Fails(p, "null")
    <2>1. /\ Fails(p, "null") \in Table /\ Fails(p, "null").state = p.state
          /\ SameBets(p, Fails(p, "null"))
        BY FailsType DEF Faults
    <2>2. HandInv(p) => HandInv(Fails(p, "null")) BY <2>1, SameBetsInv
    <2>. QED BY <1>5, <2>1, <2>2 DEF Visible, InHand, SameBets
<1>6. CASE /\ Proceed(p, ranking) = DoAction(waiting, on_turn, "FOLD", 0, ranking)
           /\ on_turn # None
    <2>1. on_turn \in Listed(p) BY <1>6, LookupType
    <2> HIDE DEF on_turn
    <2>2. waiting \in Table /\ Visible(waiting) /\ waiting.players = p.players
          /\ (InHand(waiting) => waiting = p) /\ waiting.left = p.left
          /\ (waiting.state = p.state \/ (waiting.state = W4P /\ Len(p.players) < 2))
        <3>1. CASE Len(p.players) < 2
            <4>1. waiting = idle BY <3>1
            <4> HIDE DEF waiting
            <4>. QED BY <1>1, <1>2, <3>1, <4>1
        <3>2. CASE ~(Len(p.players) < 2)
            <4>1. waiting = p BY <3>2
            <4> HIDE DEF waiting
            <4>. QED BY <4>1
        <3>. QED BY <3>1, <3>2
    <2> HIDE DEF waiting
    <2>3. on_turn \in Listed(waiting) /\ ranking \in Rankings(waiting)
        BY <2>1, <2>2 DEF Listed, Rankings
    <2> DEFINE r == DoAction(waiting, on_turn, "FOLD", 0, ranking)
    <2>4. /\ r \in Table /\ Visible(r) /\ (InHand(r) => InHand(waiting))
          /\ (InHand(waiting) /\ HandInv(waiting) => HandInv(r))
          /\ r.players = waiting.players /\ r.left = waiting.left
          /\ (r = waiting \/ (InHand(waiting) /\ r.state \in PREFLOP .. DONE))
        <3>1. 0 \in Chips BY ChipFacts
        <3>. QED BY <2>2, <2>3, <3>1, DoActionType
    <2> HIDE DEF r
    <2>5. Proceed(p, ranking) = r BY <1>6 DEF r
    <2>. QED BY <2>2, <2>4, <2>5
<1>. QED BY <1>3, <1>4, <1>5, <1>6

(* A new table is a table, and no hand is on.                              *)
LEMMA NewTableType == NewTable \in Table /\ Visible(NewTable) /\ ~InHand(NewTable)
<1>1. NewTable.state = CREATED BY DEF NewTable
<1>2. Visible(NewTable) /\ ~InHand(NewTable)
    BY <1>1 DEF Visible, InHand, CREATED, SMALL_BLIND, BIG_BLIND, PREFLOP, RIVER
<1> DEFINE nobody == -1
           full == Modulus - 1
           nothing == 0
           noone == [q \in Players |-> None]
           zero == [q \in Players |-> nothing]
           start == CREATED
           nil == {}
           empty == << >>
           no == FALSE
<1>3. /\ nobody \in Int /\ full \in Chips /\ nothing \in Chips /\ nothing \in Nat
      /\ start \in CREATED .. DONE /\ nil \in SUBSET Players
      /\ nil \in SUBSET (PREFLOP .. RIVER) /\ no \in BOOLEAN
    BY ChipFacts DEF CREATED, DONE
<1>4. noone \in [Players -> Accounts \cup {None}] OBVIOUS
<1>5. zero \in [Players -> Chips] /\ zero \in [Players -> 0 .. MaxPlayers - 1] BY ChipFacts
<1>6. empty \in Seq(Players) BY EmptySeq
<1>7. NewTable =
        [state |-> start, players |-> empty, account |-> noone, position |-> zero,
         balance |-> zero, bet |-> zero,
         playing |-> nil, folded |-> nil, allin |-> nil, left |-> nil,
         sb_player |-> None, bb_player |-> None, winner |-> None,
         button_position |-> nothing, playing_position |-> nobody,
         last_raised_pos |-> nobody, synced_action_counter |-> nothing,
         starter_players_num |-> nothing, is_sb_must_call |-> no,
         is_playing_last |-> no, raised |-> nil, pot_amount |-> nothing,
         current_bet |-> full, current_raise |-> full, overdue |-> no,
         reflections |-> nothing, fault |-> "none"]
    BY DEF NewTable
<1> HIDE DEF nobody, full, nothing, noone, zero, start, nil, empty, no
<1>8. NewTable \in Table BY <1>3, <1>4, <1>5, <1>6, <1>7 DEF Table, Faults
<1>. QED BY <1>2, <1>8

-------------------------------------------------------------------------------
(* The chips at the table.                                                 *)

(* What the listed players have, and with it, during a hand, the pot.      *)
Balances(p) == SumOf(p.balance, Listed(p))
ChipsAt(p) == Balances(p) + (IF InHand(p) THEN p.pot_amount ELSE 0)

LEMMA ChipsType ==
    ASSUME NEW p \in Table
    PROVE  /\ Balances(p) \in Nat /\ p.pot_amount \in Nat /\ ChipsAt(p) \in Nat
           /\ IsFiniteSet(Listed(p)) /\ IsFiniteSet(Players)
           /\ \A q \in Players : p.balance[q] \in Nat /\ p.bet[q] \in Nat
           /\ Balances(p) <= ChipsAt(p) /\ ChipsAt(p) <= Balances(p) + p.pot_amount
<1>1. IsFiniteSet(Listed(p)) /\ IsFiniteSet(Players) /\ Listed(p) \subseteq Players
    BY ListedType, PlayersCount
<1>2. Chips \subseteq Nat BY ChipFacts DEF Chips
<1>3. \A q \in Players : p.balance[q] \in Nat /\ p.bet[q] \in Nat
    BY <1>2, FieldTypes
<1>4. p.pot_amount \in Nat BY <1>2, FieldTypes
<1>5. Balances(p) \in Nat BY <1>1, <1>3, SumStep DEF Balances
<1>. QED BY <1>1, <1>3, <1>4, <1>5 DEF ChipsAt

(* A step that touches neither balances nor pot, and starts no hand.       *)
SameChips(p, r) ==
    r.players = p.players /\ r.balance = p.balance /\ r.pot_amount = p.pot_amount

LEMMA SameChipsAt ==
    ASSUME NEW p \in Table, NEW r, SameChips(p, r), InHand(r) => InHand(p)
    PROVE  ChipsAt(r) <= ChipsAt(p) /\ Balances(r) = Balances(p)
<1>1. Balances(r) = Balances(p) /\ r.pot_amount = p.pot_amount
    BY DEF SameChips, Balances, Listed
<1>. QED BY <1>1, ChipsType DEF ChipsAt

(* An action pays out of a balance no less than the pot gains.             *)
LEMMA ActedChips ==
    ASSUME NEW p \in Table, NEW r \in Table, NEW q \in Listed(p), ActedBy(p, r, q), InHand(p)
    PROVE  ChipsAt(r) <= ChipsAt(p)
<1> DEFINE L == Listed(p)
<1>1. /\ L \subseteq Players /\ Listed(r) = L /\ (InHand(r) <=> InHand(p))
      /\ \A o \in Players \ {q} : r.balance[o] = p.balance[o]
      /\ r.balance[q] + r.pot_amount <= p.balance[q] + p.pot_amount
    BY ListedType DEF ActedBy, PaidFor, Listed, InHand
<1>2. /\ IsFiniteSet(L) /\ p.pot_amount \in Nat /\ r.pot_amount \in Nat
      /\ Balances(p) \in Nat /\ Balances(r) \in Nat
      /\ \A o \in L : r.balance[o] \in Nat /\ p.balance[o] \in Nat
    BY <1>1, ChipsType
<1>3. SumOf(p.balance, L) + r.balance[q] = SumOf(r.balance, L) + p.balance[q]
    <2>1. \A o \in L \ {q} : p.balance[o] = r.balance[o] BY <1>1
    <2>. QED BY <1>2, <2>1, SumChange
<1>4. Balances(p) + r.balance[q] = Balances(r) + p.balance[q]
    BY <1>1, <1>3 DEF Balances
<1>5. p.balance[q] \in Nat /\ r.balance[q] \in Nat BY <1>2
<1>. QED BY <1>1, <1>2, <1>4, <1>5 DEF ChipsAt

(* So does passing the turn, and closing a street.                         *)
LEMMA TurnChips ==
    ASSUME NEW p \in Table, NEW q, NEW kind
    PROVE  SameChips(p, NextPlayer(p)) /\ SameChips(p, CloseStreet(p, q, kind))
<1>1. SameChips(p, NextPlayer(p))
    <2> DEFINE seat == SeatFrom(Seats(p, {o \in Able(p) : o = GetByPositionInSorted(p, p.position[o])}),
                               p.playing_position + 1)
               next == [p EXCEPT !.playing_position = seat]
               spin == [p EXCEPT !.fault = "spin"]
    <2>1. NextPlayer(p) \in {spin, next} BY DEF NextPlayer, Fails
    <2> HIDE DEF seat
    <2>2. SameChips(p, next) /\ SameChips(p, spin) BY DEF Table, SameChips
    <2> HIDE DEF next, spin
    <2>. QED BY <2>1, <2>2
<1>2. SameChips(p, CloseStreet(p, q, kind))
    <2> DEFINE counter == p.synced_action_counter + 1
               counted == [p EXCEPT !.synced_action_counter = counter]
    <2>1. CloseStreet(p, q, kind) \in {p, counted, NextStreet(p), NextStreet(counted)}
        BY DEF CloseStreet
    <2>2. counter \in Nat BY FieldTypes
    <2> HIDE DEF counter
    <2>3. counted \in Table /\ SameChips(p, counted) BY <2>2 DEF Table, SameChips
    <2> HIDE DEF counted
    <2>4. ASSUME NEW c \in Table PROVE SameChips(c, NextStreet(c))
        <3> DEFINE state == c.state + 1
                   seat == IF c.starter_players_num = 2 THEN c.position[c.bb_player]
                           ELSE c.playing_position
                   nobody == -1
                   r == [c EXCEPT !.state = state, !.synced_action_counter = 0,
                                  !.last_raised_pos = nobody, !.playing_position = seat]
        <3>1. NextStreet(c) = r BY DEF NextStreet
        <3> HIDE DEF state, seat, nobody
        <3>2. SameChips(c, r) BY DEF SameChips, Table
        <3>. QED BY <3>1, <3>2
    <2>5. SameChips(p, NextStreet(p)) /\ SameChips(p, NextStreet(counted))
        BY <2>3, <2>4 DEF SameChips
    <2>6. SameChips(p, p) BY DEF SameChips
    <2>. QED BY <2>1, <2>3, <2>5, <2>6
<1>. QED BY <1>1, <1>2

(* A win by fold moves the pot.                                            *)
LEMMA WinByFoldChips ==
    ASSUME NEW p \in Table
    PROVE  ChipsAt(WinByFold(p)) <= Balances(p) + p.pot_amount
<1> DEFINE winner == FirstOf(p.players, p.playing \ p.folded)
           won == Plus(p.balance[winner], p.pot_amount)
           balance == [p.balance EXCEPT ![winner] = won]
           r == [p EXCEPT !.winner = winner, !.state = DONE, !.balance = balance]
<1>1. /\ winner \in Players \cup {None}
      /\ winner # None => winner \in Listed(p)
      /\ None \notin Listed(p) /\ Listed(p) \subseteq Players
    <2>1. p.players \in Seq(Players) /\ Listed(p) \subseteq Players BY ListedType
    <2>. QED BY <2>1, FirstOfType, NoneAssumption DEF Listed
<1> HIDE DEF winner
<1>2. WinByFold(p) = r BY DEF WinByFold, winner
<1>3. r.players = p.players /\ r.state = DONE /\ r.balance = balance BY DEF Table
<1>4. ~InHand(r) BY <1>3 DEF InHand, DONE, PREFLOP, RIVER
<1>5. ChipsAt(r) = SumOf(balance, Listed(p))
    <2>1. Listed(r) = Listed(p) /\ Balances(r) = SumOf(balance, Listed(p))
        BY <1>3 DEF Balances, Listed
    <2>2. r \in Table BY <1>2, WinByFoldType
    <2>3. Balances(r) \in Nat BY <2>2, ChipsType
    <2>. QED BY <1>4, <2>1, <2>3 DEF ChipsAt
<1> HIDE DEF r
<1>6. /\ IsFiniteSet(Listed(p)) /\ p.pot_amount \in Nat /\ Balances(p) \in Nat
      /\ \A q \in Listed(p) : p.balance[q] \in Nat
    BY <1>1, ChipsType
<1>7. p.balance \in [Players -> Chips] BY DEF Table
<1>8. CASE winner = None
    <2>1. \A q \in Listed(p) : balance[q] = p.balance[q] BY <1>1, <1>7, <1>8
    <2>2. \A q \in Listed(p) : balance[q] \in Nat /\ balance[q] <= p.balance[q]
        BY <1>6, <2>1
    <2>3. SumOf(balance, Listed(p)) = SumOf(p.balance, Listed(p))
        BY <1>6, <2>1, <2>2, SumMonotone
    <2>. QED BY <1>2, <1>5, <1>6, <2>3 DEF Balances
<1>9. CASE winner # None
    <2>1. winner \in Listed(p) /\ winner \in Players BY <1>1, <1>9
    <2>2. won <= p.balance[winner] + p.pot_amount /\ won \in Nat
        BY <1>6, <2>1, PlusAtMost
    <2>3. balance[winner] = won /\ \A q \in Listed(p) \ {winner} : balance[q] = p.balance[q]
        BY <1>1, <1>7, <2>1
    <2> HIDE DEF won, balance
    <2>4. \A q \in Listed(p) : balance[q] \in Nat BY <1>6, <2>2, <2>3
    <2>5. SumOf(balance, Listed(p)) + p.balance[winner] = SumOf(p.balance, Listed(p)) + balance[winner]
        BY <1>6, <2>1, <2>3, <2>4, SumChange
    <2>6. SumOf(balance, Listed(p)) \in Nat BY <1>6, <2>4, SumStep
    <2>7. SumOf(p.balance, Listed(p)) = Balances(p) BY DEF Balances
    <2>8. p.balance[winner] \in Nat BY <1>6, <2>1
    <2>9. SumOf(balance, Listed(p)) <= Balances(p) + p.pot_amount
        BY <1>6, <2>2, <2>3, <2>5, <2>6, <2>7, <2>8
    <2>. QED BY <1>2, <1>5, <2>9
<1>. QED BY <1>8, <1>9

(* The order the sort left the listed players in makes a showdown.         *)
LEMMA TableShowdown ==
    ASSUME NEW p \in Table, NEW ranking \in Rankings(p)
    PROVE  Showdowns(ranking, InGame(p) \ p.left, p.bet)
<1> DEFINE n == Len(p.players)
           contenders == InGame(p) \ p.left
<1>1. /\ DOMAIN p.players = 1 .. n /\ n \in Nat /\ Listed(p) \subseteq Players
      /\ IsFiniteSet(Players) /\ IsFiniteSet(Listed(p))
    BY ListedType, ChipsType
<1>2. /\ ranking \in [1 .. n -> Listed(p)]
      /\ \A i, j \in 1 .. n : ranking[i] = ranking[j] => i = j
    BY <1>1 DEF Rankings
<1>3. ranking \in Seq(Players) /\ Len(ranking) = n
    <2>1. ranking \in [1 .. n -> Players] BY <1>1, <1>2
    <2>2. ranking \in Seq(Players) BY <1>1, <2>1, SeqDef
    <2>3. Len(ranking) \in Nat /\ DOMAIN ranking = 1 .. Len(ranking) BY <2>2, LenProperties
    <2>. QED BY <1>1, <2>1, <2>2, <2>3
<1>4. p.bet \in [Players -> Nat]
    <2>1. p.bet \in [Players -> Chips] BY DEF Table
    <2>. QED BY <2>1, ChipFacts DEF Chips
<1>5. contenders \subseteq Listed(p) BY DEF InGame
<1>6. Cardinality(contenders) <= n
    <2>1. IsFiniteSet(1 .. n) /\ Cardinality(1 .. n) = n BY <1>1, FS_Interval
    <2>2. Listed(p) = {p.players[i] : i \in 1 .. n} BY <1>1 DEF Listed
    <2>3. Cardinality(Listed(p)) <= n
        <3> DEFINE f == [i \in 1 .. n |-> p.players[i]]
        <3>1. {p.players[i] : i \in 1 .. n} = {f[i] : i \in 1 .. n} OBVIOUS
        <3>2. f \in Surjection(1 .. n, Listed(p))
            BY <2>2 DEF Surjection
        <3>. QED BY <2>1, <3>2, FS_Surjection
    <2>4. Cardinality(contenders) <= Cardinality(Listed(p))
        BY <1>1, <1>5, FS_Subset
    <2>5. Cardinality(contenders) \in Nat /\ Cardinality(Listed(p)) \in Nat
        BY <1>1, <1>5, FS_Subset, FS_CardinalityType
    <2>. QED BY <1>1, <2>3, <2>4, <2>5
<1>7. DOMAIN p.bet = Players BY <1>4
<1>. QED BY <1>1, <1>2, <1>3, <1>4, <1>5, <1>6, <1>7 DEF Showdowns

(* A showdown hands out no more than the pot, when the pot is the bets.    *)
LEMMA ShowDownChips ==
    ASSUME NEW p \in Table, NEW ranking \in Rankings(p), p.players # << >>,
           p.pot_amount = SumOf(p.bet, Listed(p))
    PROVE  ChipsAt(ShowDown(p, ranking)) <= Balances(p) + p.pot_amount
<1> DEFINE d == [p EXCEPT !.state = DONE]
           contenders == InGame(p) \ p.left
           s == Settle(ranking, contenders, p.bet, p.pot_amount)
           first == ranking[1]
           L == Listed(p)
           balance == [q \in Players |-> Plus(p.balance[q], s.pay[q])]
           paid == [d EXCEPT !.balance = balance, !.winner = first]
           undef == [d EXCEPT !.fault = "undefined"]
           r == ShowDown(p, ranking)
<1>1. /\ d.players = p.players /\ d.balance = p.balance /\ d.pot_amount = p.pot_amount
      /\ d.playing = p.playing /\ d.folded = p.folded /\ d.left = p.left /\ d.bet = p.bet
      /\ d.state = DONE
    BY DEF Table
<1>2. InGame(d) \ d.left = contenders
    BY <1>1 DEF InGame, Listed
<1>3. r = IF s.is_defined /\ s.pay \in [Players -> Nat] THEN paid ELSE undef
    <2> DEFINE z == Settle(ranking, InGame(d) \ d.left, d.bet, d.pot_amount)
               due == [q \in Players |-> Plus(d.balance[q], z.pay[q])]
               won == [d EXCEPT !.balance = due, !.winner = first]
    <2>1. r = IF z.is_defined /\ z.pay \in [Players -> Nat] THEN won ELSE undef
        BY DEF ShowDown, PayWinners, Fails
    <2>2. z = s
        <3> HIDE DEF contenders, d
        <3>. QED BY <1>1, <1>2
    <2>3. due = balance
        <3> HIDE DEF z, s, d
        <3>. QED BY <1>1, <2>2
    <2> HIDE DEF z, due, d, s, balance
    <2>. QED BY <2>1, <2>2, <2>3
<1>4. r \in Table /\ r.state = DONE /\ r.players = p.players
    BY ShowDownType DEF SameBets
<1>5. ~InHand(r) /\ Listed(r) = L
    BY <1>4 DEF InHand, DONE, PREFLOP, RIVER, Listed
<1>6. Balances(r) \in Nat /\ ChipsAt(r) = Balances(r) /\ Balances(r) = SumOf(r.balance, L)
    <2>1. Balances(r) \in Nat BY <1>4, ChipsType
    <2>. QED BY <1>5, <2>1 DEF ChipsAt, Balances
<1>7. /\ Balances(p) = SumOf(p.balance, L) /\ Balances(p) \in Nat /\ p.pot_amount \in Nat
      /\ IsFiniteSet(L) /\ IsFiniteSet(Players) /\ L \subseteq Players
      /\ \A q \in Players : p.balance[q] \in Nat /\ p.bet[q] \in Nat
    BY ChipsType, ListedType DEF Balances
<1>8. /\ s \in Settlements(Players)
      /\ s.is_defined => SumOf(s.pay, Players) <= SumOf(p.bet, contenders)
    <2>1. Showdowns(ranking, contenders, p.bet) BY TableShowdown
    <2>2. DOMAIN p.bet = Players BY DEF Table
    <2>3. p.pot_amount \in Int BY <1>7
    <2> HIDE DEF contenders
    <2>. QED BY <2>1, <2>2, <2>3, SettleWithin
<1>9. contenders \in SUBSET L BY DEF InGame
<1>10. paid.balance = balance /\ undef.balance = p.balance
    <2>1. d \in Table
        <3>1. DONE \in CREATED .. DONE BY DEF CREATED, DONE
        <3>. QED BY <3>1, SetStateType
    <2> HIDE DEF d, balance
    <2>. QED BY <1>1, <2>1 DEF Table
<1> HIDE DEF r, d, s, contenders, paid, undef
<1>11. CASE s.is_defined /\ s.pay \in [Players -> Nat]
    <2>1. r.balance = balance BY <1>3, <1>10, <1>11
    <2>2. \A q \in L : /\ balance[q] \in Nat /\ s.pay[q] \in Nat /\ p.balance[q] \in Nat
                        /\ balance[q] <= p.balance[q] + s.pay[q]
        <3>1. ASSUME NEW q \in L
              PROVE  /\ balance[q] \in Nat /\ s.pay[q] \in Nat /\ p.balance[q] \in Nat
                     /\ balance[q] <= p.balance[q] + s.pay[q]
            <4>1. q \in Players /\ p.balance[q] \in Nat /\ s.pay[q] \in Nat
                BY <1>7, <1>11
            <4>2. balance[q] = Plus(p.balance[q], s.pay[q]) BY <4>1
            <4>3. Plus(p.balance[q], s.pay[q]) <= p.balance[q] + s.pay[q]
                  /\ Plus(p.balance[q], s.pay[q]) \in Nat
                BY <4>1, PlusAtMost
            <4> HIDE DEF balance
            <4>. QED BY <4>1, <4>2, <4>3
        <3>. QED BY <3>1
    <2>3. SumOf(balance, L) <= SumOf(p.balance, L) + SumOf(s.pay, L)
        <3> HIDE DEF L, balance
        <3>. QED BY <1>7, <2>2, SumWithin
    <2>4. /\ SumOf(s.pay, L) <= SumOf(s.pay, Players)
          /\ SumOf(s.pay, L) \in Nat /\ SumOf(s.pay, Players) \in Nat
        <3>1. \A q \in Players : s.pay[q] \in Nat BY <1>11
        <3>2. L \in SUBSET Players /\ \A q \in L : s.pay[q] \in Nat BY <1>7, <3>1
        <3> HIDE DEF L
        <3>. QED BY <1>7, <3>1, <3>2, SumOfPart, SumStep
    <2>5. /\ SumOf(p.bet, contenders) <= p.pot_amount /\ SumOf(p.bet, contenders) \in Nat
        <3>1. IsFiniteSet(contenders) /\ \A q \in contenders : p.bet[q] \in Nat
            BY <1>7, <1>9, FS_Subset
        <3>2. SumOf(p.bet, contenders) <= SumOf(p.bet, L)
            <4>1. \A q \in L : p.bet[q] \in Nat BY <1>7
            <4> HIDE DEF L
            <4>. QED BY <1>7, <1>9, <4>1, SumOfPart
        <3>. QED BY <3>1, <3>2, SumStep
    <2>6. SumOf(balance, L) \in Nat BY <1>6, <2>1
    <2>7. SumOf(balance, L) <= Balances(p) + p.pot_amount
        <3> HIDE DEF balance, L
        <3>. QED BY <1>7, <1>8, <1>11, <2>3, <2>4, <2>5, <2>6
    <2>. QED BY <1>6, <2>1, <2>7 DEF r
<1>12. CASE ~(s.is_defined /\ s.pay \in [Players -> Nat])
    <2>1. r.balance = p.balance BY <1>3, <1>10, <1>12
    <2>. QED BY <1>6, <1>7, <2>1 DEF r
<1>. QED BY <1>11, <1>12

(* What follows an accepted action creates no chips.                       *)
LEMMA FinishChips ==
    ASSUME NEW p \in Table, NEW q, NEW kind, NEW ranking \in Rankings(p),
           p.players # << >>, InHand(p), p.bb_player \in Players,
           p.pot_amount = SumOf(p.bet, Listed(p))
    PROVE  ChipsAt(Finish(p, q, kind, ranking)) <= ChipsAt(p)
<1> DEFINE s == CloseStreet(p, q, kind)
           last == s.is_playing_last \/ Cardinality(Able(p)) = 1
           r == [s EXCEPT !.is_playing_last = last]
<1>1. s \in Table /\ SameBets(p, s) /\ SameChips(p, s)
    BY CloseStreetType, TurnChips
<1>2. Finish(p, q, kind, ranking) \in {WinByFold(p), ShowDown(s, ranking), r}
    BY DEF Finish
<1>3. last \in BOOLEAN BY <1>1 DEF Table
<1> HIDE DEF s, last
<1>4. SameChips(s, r) BY <1>1, <1>3 DEF Table, SameChips
<1> HIDE DEF r
<1>5. ChipsAt(p) = Balances(p) + p.pot_amount BY DEF ChipsAt
<1>6. ChipsAt(WinByFold(p)) <= ChipsAt(p) BY <1>5, WinByFoldChips
<1>7. ChipsAt(r) <= ChipsAt(p) BY <1>1, <1>4, SameChipsAt DEF SameChips
<1>8. ChipsAt(ShowDown(s, ranking)) <= ChipsAt(p)
    <2>1. /\ ranking \in Rankings(s) /\ s.players # << >> /\ Listed(s) = Listed(p)
          /\ s.pot_amount = p.pot_amount /\ s.bet = p.bet
        BY <1>1 DEF Rankings, Listed, SameBets
    <2>2. Balances(s) = Balances(p) BY <1>1 DEF SameChips, Balances, Listed
    <2>3. ChipsAt(ShowDown(s, ranking)) <= Balances(s) + s.pot_amount
        BY <1>1, <2>1, ShowDownChips
    <2>. QED BY <1>5, <2>1, <2>2, <2>3
<1>. QED BY <1>2, <1>6, <1>7, <1>8

LEMMA AcceptedChips ==
    ASSUME NEW p \in Table, NEW q \in Players, NEW kind, NEW ranking \in Rankings(p),
           p.players # << >>, InHand(p), p.bb_player \in Players,
           p.pot_amount = SumOf(p.bet, Listed(p))
    PROVE  ChipsAt(Accepted(p, q, kind, ranking)) <= ChipsAt(p)
<1> DEFINE allin == p.allin \cup {q}
           b == [p EXCEPT !.allin = allin]
           broke == IF p.balance[q] = 0 THEN b ELSE p
           turned == IF Able(broke) = {} THEN broke ELSE NextPlayer(broke)
           f == Finish(turned, q, kind, ranking)
           reflections == f.reflections + 1
           r == [f EXCEPT !.overdue = FALSE, !.reflections = reflections]
<1>1. allin \in SUBSET Players BY DEF Table
<1>2. Accepted(p, q, kind, ranking) \in {turned, r} BY DEF Accepted
<1> HIDE DEF allin
<1>3. b \in Table /\ SameBets(p, b) /\ SameChips(p, b) /\ b.state = p.state
    BY <1>1 DEF Table, SameBets, SameChips
<1> HIDE DEF b
<1>4. broke \in Table /\ SameBets(p, broke) /\ SameChips(p, broke) /\ broke.state = p.state
    BY <1>3 DEF SameBets, SameChips
<1> HIDE DEF broke
<1>5. /\ turned \in Table /\ SameBets(broke, turned) /\ SameChips(broke, turned)
      /\ turned.state = broke.state
    BY <1>4, NextPlayerType, TurnChips DEF SameBets, SameChips
<1>6. SameBets(p, turned) /\ SameChips(p, turned) /\ turned.state = p.state
    BY <1>4, <1>5 DEF SameBets, SameChips
<1> HIDE DEF turned
<1>7. /\ ranking \in Rankings(turned) /\ turned.players # << >> /\ InHand(turned)
      /\ turned.bb_player \in Players
      /\ turned.pot_amount = SumOf(turned.bet, Listed(turned))
    BY <1>6 DEF SameBets, Rankings, Listed, InHand
<1>8. ChipsAt(turned) <= ChipsAt(p) BY <1>6, SameChipsAt
<1>9. f \in Table /\ ChipsAt(f) <= ChipsAt(turned)
    BY <1>5, <1>7, FinishType, FinishChips
<1>10. reflections \in Nat BY <1>9, FieldTypes
<1> HIDE DEF f, reflections
<1>11. SameChips(f, r) /\ r.state = f.state /\ r \in Table
    BY <1>9, <1>10 DEF Table, SameChips
<1> HIDE DEF r
<1>12. ChipsAt(r) <= ChipsAt(f) BY <1>9, <1>11, SameChipsAt DEF InHand
<1>13. /\ ChipsAt(p) \in Nat /\ ChipsAt(turned) \in Nat /\ ChipsAt(f) \in Nat /\ ChipsAt(r) \in Nat
    BY <1>5, <1>9, <1>11, ChipsType
<1>14. ChipsAt(r) <= ChipsAt(p) BY <1>8, <1>9, <1>12, <1>13
<1>. QED BY <1>2, <1>8, <1>14

(* While the bets fit their type, an action creates no chips.              *)
LEMMA DoActionChips ==
    ASSUME NEW p \in Table, NEW q \in Listed(p), NEW kind, NEW amount \in Chips,
           NEW ranking \in Rankings(p), Visible(p), InHand(p), HandInv(p),
           LET r == DoAction(p, q, kind, amount, ranking)
           IN  SumOf(r.bet, Listed(r)) < Modulus
    PROVE  LET r == DoAction(p, q, kind, amount, ranking)
           IN  ChipsAt(r) <= ChipsAt(p) /\ r.players = p.players /\ p.left \subseteq r.left
<1> DEFINE r == DoAction(p, q, kind, amount, ranking)
           raised == Raise(p, q, amount)
           checked == Check(p, q)
           folds == p.folded \cup {q}
           folded == [p EXCEPT !.folded = folds]
<1>1. q \in Players /\ p.players # << >> BY ListedType DEF Listed
<1>2. ChipsAt(p) \in Nat BY ChipsType
<1>3. CASE r = p BY <1>2, <1>3
<1>4. CASE r # p
    <2>1. q \in p.playing
        BY <1>4 DEF DoAction, MayAct
    <2>2. PICK a : /\ r = Accepted(a, q, kind, ranking)
                   /\ \/ a = raised /\ RaiseAllowed(p, q, amount)
                      \/ a = checked /\ CheckAllowed(p, q)
                      \/ a \in {folded, p}
        BY <1>4 DEF DoAction
    <2>3. folds \in SUBSET Players BY <1>1 DEF Table
    <2>4. SumOf(r.bet, Listed(r)) < Modulus OBVIOUS
    <2> HIDE DEF folds, r
    <2>5. folded \in Table /\ SameBets(p, folded) /\ SameChips(p, folded) /\ folded.state = p.state
        BY <2>3 DEF Table, SameBets, SameChips
    <2> HIDE DEF folded
    <2>6. /\ a \in Table /\ a.players = p.players /\ a.bb_player = p.bb_player
          /\ a.state = p.state /\ p.left \subseteq a.left
          /\ ChipsAt(a) <= ChipsAt(p) /\ HandInv(a)
        <3>1. CASE a = raised /\ RaiseAllowed(p, q, amount)
            <4>1. a \in Table /\ ActedBy(p, a, q) BY <1>1, <3>1, RaiseType
            <4>2. HandInv(a) BY <2>1, <3>1, RaiseInv
            <4> HIDE DEF raised
            <4>. QED BY <4>1, <4>2, ActedChips DEF ActedBy
        <3>2. CASE a = checked /\ CheckAllowed(p, q)
            <4>1. a \in Table /\ ActedBy(p, a, q) BY <1>1, <3>2, CheckType
            <4>2. HandInv(a) BY <2>1, <3>2, CheckInv
            <4> HIDE DEF checked
            <4>. QED BY <4>1, <4>2, ActedChips DEF ActedBy
        <3>3. CASE a = folded
            <4>1. HandInv(folded) BY <2>5, SameBetsInv
            <4>2. ChipsAt(folded) <= ChipsAt(p) BY <2>5, SameChipsAt
            <4>. QED BY <2>5, <3>3, <4>1, <4>2 DEF SameBets
        <3>4. CASE a = p BY <1>2, <3>4
        <3>. QED BY <2>2, <3>1, <3>2, <3>3, <3>4
    <2> HIDE DEF raised, checked
    <2>7. /\ ranking \in Rankings(a) /\ a.players # << >> /\ InHand(a)
          /\ a.bb_player \in Players
        BY <1>1, <2>6 DEF Rankings, Listed, InHand, Visible
    <2>8. r \in Table /\ SameBets(a, r) BY <1>1, <2>2, <2>6, <2>7, AcceptedType
    <2>9. a.pot_amount = SumOf(a.bet, Listed(a))
        <3>1. SumOf(a.bet, Listed(a)) < Modulus
            BY <2>4, <2>8 DEF SameBets, Listed
        <3>2. SumOf(a.bet, Listed(a)) \in Nat
            <4>1. IsFiniteSet(Listed(a)) /\ \A o \in Listed(a) : a.bet[o] \in Nat
                BY <2>6, ChipsType, ListedType
            <4>. QED BY <4>1, SumStep
        <3>3. a.pot_amount = SumOf(a.bet, Listed(a)) % Modulus
            BY <2>6 DEF HandInv, PotAdds
        <3>. QED BY <3>1, <3>2, <3>3, ChipFacts
    <2>10. ChipsAt(r) <= ChipsAt(a) BY <1>1, <2>2, <2>6, <2>7, <2>9, AcceptedChips
    <2>11. ChipsAt(r) \in Nat /\ ChipsAt(a) \in Nat BY <2>6, <2>8, ChipsType
    <2>12. ChipsAt(r) <= ChipsAt(p) BY <1>2, <2>6, <2>10, <2>11
    <2>13. r.players = p.players /\ p.left \subseteq r.left BY <2>6, <2>8 DEF SameBets
    <2>. QED BY <2>12, <2>13 DEF r
<1>. QED BY <1>3, <1>4

(* Nor does the periodic step of the table.                                *)
LEMMA ProceedChips ==
    ASSUME NEW p \in Table, NEW ranking \in Rankings(p), Visible(p), InHand(p), HandInv(p),
           SumOf(Proceed(p, ranking).bet, Listed(Proceed(p, ranking))) < Modulus
    PROVE  LET r == Proceed(p, ranking)
           IN  ChipsAt(r) <= ChipsAt(p) /\ r.players = p.players /\ p.left \subseteq r.left
<1> DEFINE idle == [p EXCEPT !.state = W4P]
           waiting == IF Len(p.players) < 2 THEN idle ELSE p
           null == [p EXCEPT !.fault = "null"]
           on_turn == GetByPosition(p, p.playing_position)
           acted == DoAction(p, on_turn, "FOLD", 0, ranking)
<1>1. /\ idle.state = W4P /\ SameChips(p, idle) /\ SameChips(p, null)
      /\ idle.left = p.left /\ null.left = p.left
      /\ idle.players = p.players /\ null.players = p.players
    BY DEF Table, SameChips
<1>2. \/ Proceed(p, ranking) \in {waiting, null}
      \/ Proceed(p, ranking) = acted /\ on_turn # None
    <2>1. waiting.state \in SMALL_BLIND .. RIVER => waiting = p
        BY <1>1 DEF W4P, SMALL_BLIND, RIVER
    <2>. QED BY <2>1 DEF Proceed, Fails
<1>3. on_turn # None => on_turn \in Listed(p) BY LookupType
<1> HIDE DEF idle, null, on_turn
<1>4. ChipsAt(p) \in Nat BY ChipsType
<1>5. ChipsAt(idle) <= ChipsAt(p) /\ ChipsAt(null) <= ChipsAt(p) BY <1>1, SameChipsAt
<1>6. CASE Proceed(p, ranking) \in {waiting, null}
    <2>1. \A o \in {p, idle, null} :
            ChipsAt(o) <= ChipsAt(p) /\ o.players = p.players /\ p.left \subseteq o.left
        BY <1>1, <1>4, <1>5
    <2>2. Proceed(p, ranking) \in {p, idle, null} BY <1>6
    <2>. QED BY <2>1, <2>2
<1>7. CASE Proceed(p, ranking) = acted /\ on_turn # None
    <2>1. on_turn \in Listed(p) /\ 0 \in Chips BY <1>3, <1>7, ChipFacts
    <2>2. SumOf(acted.bet, Listed(acted)) < Modulus BY <1>7
    <2>3. ChipsAt(acted) <= ChipsAt(p) /\ acted.players = p.players /\ p.left \subseteq acted.left
        BY <2>1, <2>2, DoActionChips
    <2> HIDE DEF acted
    <2>. QED BY <1>7, <2>3
<1>. QED BY <1>2, <1>6, <1>7

-------------------------------------------------------------------------------

(* The inductive invariant.  Type correctness needs Visible, since the     *)
(* blinds' states would let a raise mark a street that does not exist; the *)
(* bound on the bets needs HandInv, for the small blind's first call adds  *)
(* his blind without looking at the current bet.                           *)
IInv ==
    /\ TypeOK
    /\ Visible(poker)
    /\ orderly /\ InHand(poker) => HandInv(poker)

(* The invariant holds at the start.                                       *)
LEMMA InitInv == Init => IInv
<1>1. SUFFICES ASSUME Init PROVE IInv
    OBVIOUS
<1>2. <<"proceed">> \in Seq(Tasks) /\ << >> \in Seq(DealTasks)
    BY EmptySeq DEF Tasks, DealTasks
<1>. QED BY <1>1, <1>2, NewTableType DEF Init, IInv, TypeOK

-------------------------------------------------------------------------------

(* What a task leaves of the table and the queue.                          *)
LEMMA BecomesType ==
    ASSUME NEW p \in Table, NEW q \in Seq(Tasks), Becomes(p, q)
    PROVE  /\ poker' \in Table /\ queue' \in Seq(Tasks)
           /\ poker'.state = p.state /\ SameBets(p, poker')
<1> DEFINE none == 0
           r == [p EXCEPT !.reflections = none]
           echoes == [i \in 1 .. p.reflections |-> "on_action"]
<1>1. poker' = r /\ queue' = q \o echoes BY DEF Becomes
<1>2. none \in Nat OBVIOUS
<1> HIDE DEF none
<1>3. r \in Table BY <1>2 DEF Table
<1>4. r.state = p.state /\ SameBets(p, r) BY DEF Table, SameBets
<1> HIDE DEF r
<1>5. echoes \in Seq(Tasks)
    <2>1. p.reflections \in Nat BY FieldTypes
    <2>2. echoes \in [1 .. p.reflections -> Tasks] BY DEF Tasks
    <2>. QED BY <2>1, <2>2, SeqDef
<1> HIDE DEF echoes
<1>6. q \o echoes \in Seq(Tasks) BY <1>5, ConcatProperties
<1>. QED BY <1>1, <1>3, <1>4, <1>6

(* A task that leaves the table as p keeps the invariant.                  *)
LEMMA BecomesInv ==
    ASSUME NEW p \in Table, NEW q \in Seq(Tasks), Becomes(p, q), Visible(p),
           orderly' /\ InHand(p) => HandInv(p)
    PROVE  /\ poker' \in Table /\ queue' \in Seq(Tasks)
           /\ Visible(poker')
           /\ orderly' /\ InHand(poker') => HandInv(poker')
<1>1. /\ poker' \in Table /\ queue' \in Seq(Tasks)
      /\ poker'.state = p.state /\ SameBets(p, poker')
    BY BecomesType
<1>2. Visible(poker') /\ (InHand(poker') <=> InHand(p))
    BY <1>1 DEF Visible, InHand, SameBets
<1>3. HandInv(p) => HandInv(poker') BY <1>1, SameBetsInv
<1>. QED BY <1>1, <1>2, <1>3

(* A player who joins during a hand keeps HandInv.                         *)
LEMMA PlayersAddInv ==
    ASSUME NEW p \in Table, NEW q \in Players \ Listed(p), NEW a \in Accounts, NEW pos \in Nat,
           NEW amount \in Chips, InHand(p), HandInv(p)
    PROVE  HandInv(PlayersAdd(p, q, a, pos, amount))
<1> DEFINE r == PlayersAdd(p, q, a, pos, amount)
<1>1. CASE r = Fails(p, "null")
    <2>1. SameBets(p, Fails(p, "null")) BY FailsType DEF Faults
    <2>. QED BY <1>1, <2>1, SameBetsInv
<1>2. CASE r # Fails(p, "null")
    <2> DEFINE players == Append(p.players, q)
               account == [p.account EXCEPT ![q] = a]
               bet == [p.bet EXCEPT ![q] = 0]
               playing == p.playing \ {q}
    <2>1. p.sb_player \in Listed(p) /\ Listed(p) \subseteq Players /\ p.sb_player # None
        BY ListedType, NoneAssumption DEF HandInv
    <2>2. ~(p.state < SMALL_BLIND) BY DEF InHand, PREFLOP, RIVER, SMALL_BLIND
    <2>3. /\ r.players = players /\ r.account = account /\ r.bet = bet /\ r.playing = playing
          /\ r.sb_player = p.sb_player /\ r.current_bet = p.current_bet
          /\ r.is_sb_must_call = p.is_sb_must_call /\ r.pot_amount = p.pot_amount
        BY <1>2, <2>1, <2>2 DEF PlayersAdd, Table
    <2>4. {players[i] : i \in DOMAIN players} = Listed(p) \cup {q}
        <3>1. p.players \in Seq(Players) BY ListedType
        <3>2. /\ DOMAIN players = 1 .. Len(p.players) + 1
              /\ \A i \in 1 .. Len(p.players) : players[i] = p.players[i]
              /\ players[Len(p.players) + 1] = q
            BY <3>1, AppendProperties, LenProperties
        <3>3. DOMAIN p.players = 1 .. Len(p.players) /\ Len(p.players) \in Nat BY ListedType
        <3>. QED BY <3>2, <3>3 DEF Listed
    <2>5. /\ bet[q] = 0 /\ account[p.sb_player] = p.account[p.sb_player]
          /\ \A o \in Listed(p) : bet[o] = p.bet[o] /\ account[o] = p.account[o]
        BY <2>1 DEF Table
    <2> HIDE DEF players, account, bet, playing, r
    <2>6. Listed(r) = Listed(p) \cup {q} BY <2>3, <2>4 DEF Listed
    <2>7. 0 <= p.current_bet /\ q \notin playing /\ playing \subseteq p.playing
        BY FieldTypes, ChipFacts DEF Chips, playing
    <2>8. r.sb_player \in Listed(r) /\ r.current_bet >= BigBlind
        BY <2>1, <2>3, <2>6 DEF HandInv
    <2>9. \A o \in Listed(r) : r.bet[o] <= r.current_bet
        BY <2>3, <2>5, <2>6, <2>7 DEF HandInv
    <2>10. r.is_sb_must_call =>
             \A o \in Listed(r) \cap r.playing :
                r.account[o] = r.account[r.sb_player] => o = r.sb_player /\ r.bet[o] <= SmallBlind
        BY <2>3, <2>5, <2>6, <2>7 DEF HandInv
    <2>11. PotAdds(r)
        <3>1. /\ IsFiniteSet(Listed(r)) /\ IsFiniteSet(Listed(p)) /\ q \in Listed(r)
              /\ Listed(r) \ {q} = Listed(p)
            BY <2>1, <2>6, PlayersCount
        <3>2. \A o \in Listed(p) : bet[o] = p.bet[o] /\ p.bet[o] \in Nat /\ bet[o] <= p.bet[o]
            BY <2>1, <2>5, FieldTypes, ChipFacts DEF Chips
        <3>3. SumOf(bet, Listed(p)) = SumOf(p.bet, Listed(p)) /\ SumOf(bet, Listed(p)) \in Nat
            BY <3>1, <3>2, SumMonotone, SumStep
        <3>4. SumOf(bet, Listed(r)) = bet[q] + SumOf(bet, Listed(p))
            <4>1. \A o \in Listed(r) : bet[o] \in Nat
                BY <2>5, <2>6, <3>2
            <4>. QED BY <3>1, <4>1, SumStep
        <3>5. SumOf(bet, Listed(r)) = SumOf(p.bet, Listed(p))
            BY <2>5, <3>3, <3>4
        <3>. QED BY <2>3, <3>5 DEF PotAdds, HandInv
    <2>. QED BY <2>8, <2>9, <2>10, <2>11 DEF HandInv, r
<1>. QED BY <1>1, <1>2

(* A forgotten start stays where it is.                                    *)
LEMMA ForgottenType ==
    ASSUME NEW T, "forgotten" \in T, NEW s \in Seq(T)
    PROVE  /\ Forgotten(s) \in Seq(T) /\ DOMAIN Forgotten(s) = DOMAIN s
           /\ \A i \in DOMAIN s :
                 Forgotten(s)[i] = IF s[i] = "start" THEN "forgotten" ELSE s[i]
<1>1. Len(s) \in Nat /\ DOMAIN s = 1 .. Len(s) /\ \A i \in 1 .. Len(s) : s[i] \in T
    BY LenProperties, ElementOfSeq
<1>2. Forgotten(s) \in [1 .. Len(s) -> T] BY <1>1 DEF Forgotten
<1>3. Forgotten(s) \in Seq(T) BY <1>1, <1>2, SeqDef
<1>. QED BY <1>3 DEF Forgotten

(* A join keeps the invariant.                                             *)
LEMMA JoinInv ==
    ASSUME IInv, NEW req \in JoinRequests, NEW q \in Players, Join(req, q)
    PROVE  IInv'
<1> DEFINE seated == PlayersAdd(poker, q, req.account, req.position, req.amount)
           starting == [seated EXCEPT !.state = STARTING]
<1>1. /\ poker \in Table /\ timers \in Seq(DealTasks)
      /\ req.account \in Accounts /\ req.position \in Nat /\ req.amount \in Chips
    BY JoinAssumption DEF IInv, TypeOK
<1>2. seated \in Table /\ seated.state = poker.state BY <1>1, PlayersAddType
<1>3. orderly /\ InHand(poker) => HandInv(seated)
    BY <1>1, PlayersAddInv DEF IInv, Join
<1>4. seated.state = W4P \/ poker' = seated
    BY DEF Join
<1>5. poker' \in {seated, starting} BY DEF Join
<1>6. Visible(seated)
    <2>1. InHand(seated) => poker.bb_player \in Players
        BY <1>2 DEF IInv, Visible, InHand
    <2>2. seated.bb_player = poker.bb_player \/ seated.bb_player = q
        BY <1>1 DEF PlayersAdd, Table, Fails
    <2>. QED BY <1>2, <2>1, <2>2 DEF IInv, Visible
<1> HIDE DEF seated
<1>7. starting \in Table /\ starting.state = STARTING
    <2>1. STARTING \in CREATED .. DONE BY DEF STARTING, CREATED, DONE
    <2>. QED BY <1>2, <2>1, SetStateType
<1> HIDE DEF starting
<1>8. Visible(starting) /\ ~InHand(starting)
    BY <1>7 DEF Visible, InHand, STARTING, SMALL_BLIND, BIG_BLIND, PREFLOP, RIVER
<1>9. timers' \in Seq(DealTasks) /\ queue' \in Seq(Tasks)
    <2>1. "start" \in DealTasks /\ "forgotten" \in DealTasks /\ "forgotten" \in Tasks
        BY DEF Tasks, DealTasks
    <2>2. queue \in Seq(Tasks) BY DEF IInv, TypeOK
    <2>3. Forgotten(timers) \in Seq(DealTasks) /\ Forgotten(queue) \in Seq(Tasks)
        BY <1>1, <2>1, <2>2, ForgottenType
    <2>4. Append(Forgotten(timers), "start") \in Seq(DealTasks)
        BY <2>1, <2>3, AppendProperties
    <2>. QED BY <1>1, <2>2, <2>3, <2>4 DEF Join
<1>10. /\ joined' \subseteq Accounts /\ joins' \in Nat
       /\ UNCHANGED <<napping, hands, orderly>>
    BY <1>1 DEF Join, IInv, TypeOK
<1>11. TypeOK'
    BY <1>2, <1>5, <1>7, <1>9, <1>10 DEF IInv, TypeOK
<1>12. InHand(seated) <=> InHand(poker) BY <1>2 DEF InHand
<1>. QED BY <1>3, <1>5, <1>6, <1>8, <1>10, <1>11, <1>12 DEF IInv

(* Leaving during a hand changes no bet.                                   *)
LEMMA AfterLeavingType ==
    ASSUME NEW p \in Table, NEW S \in SUBSET Players, Visible(p)
    PROVE  /\ AfterLeaving(p, S) \in Table /\ Visible(AfterLeaving(p, S))
           /\ InHand(AfterLeaving(p, S)) => InHand(p)
           /\ InHand(AfterLeaving(p, S)) /\ HandInv(p) => HandInv(AfterLeaving(p, S))
<1> DEFINE left == p.left \cup S
           leaving == [p EXCEPT !.left = left]
           removed == IF p.state <= STARTING \/ p.state = DONE
                      THEN PlayersRemove(leaving, S) ELSE leaving
           idle == [removed EXCEPT !.state = W4P]
<1>1. left \in SUBSET Players BY DEF Table
<1> HIDE DEF left
<1>2. /\ leaving \in Table /\ leaving.state = p.state /\ leaving.bb_player = p.bb_player
      /\ HandInv(p) => HandInv(leaving)
    <2>1. leaving \in Table BY <1>1 DEF Table
    <2>2. /\ leaving.state = p.state /\ leaving.bb_player = p.bb_player
          /\ leaving.players = p.players /\ leaving.account = p.account
          /\ leaving.playing = p.playing /\ leaving.bet = p.bet
          /\ leaving.current_bet = p.current_bet /\ leaving.pot_amount = p.pot_amount
          /\ leaving.sb_player = p.sb_player /\ leaving.is_sb_must_call = p.is_sb_must_call
        BY DEF Table
    <2> HIDE DEF leaving
    <2>. QED BY <2>1, <2>2 DEF HandInv, PotAdds, Listed
<1>3. AfterLeaving(p, S) \in {removed, idle} BY DEF AfterLeaving, left
<1> HIDE DEF leaving
<1>4. removed \in Table /\ removed.state = p.state BY <1>2, PlayersRemoveType
<1>5. InHand(p) => removed = leaving
    BY DEF InHand, STARTING, PREFLOP, RIVER, DONE
<1> HIDE DEF removed
<1>6. idle \in Table /\ idle.state = W4P
    <2>1. W4P \in CREATED .. DONE BY DEF W4P, CREATED, DONE
    <2>. QED BY <1>4, <2>1, SetStateType
<1> HIDE DEF idle
<1>7. Visible(idle) /\ ~InHand(idle)
    BY <1>6 DEF Visible, InHand, W4P, SMALL_BLIND, BIG_BLIND, PREFLOP, RIVER
<1>8. InHand(removed) <=> InHand(p) BY <1>4 DEF InHand
<1>9. Visible(removed)
    BY <1>2, <1>4, <1>5, <1>8 DEF Visible
<1>. QED BY <1>2, <1>3, <1>4, <1>5, <1>6, <1>7, <1>8, <1>9

(* An unjoin keeps the invariant.                                          *)
LEMMA UnjoinInv ==
    ASSUME IInv, NEW a \in Leavers, Unjoin(a)
    PROVE  IInv'
<1> DEFINE q == GetById(poker, a)
           r == AfterLeaving(poker, {q})
<1>1. poker \in Table /\ Visible(poker) BY DEF IInv, TypeOK
<1>2. q # None => q \in Players BY <1>1, LookupType
<1> HIDE DEF q
<1>3. q # None => /\ r \in Table /\ Visible(r)
                  /\ InHand(r) => InHand(poker)
                  /\ InHand(r) /\ HandInv(poker) => HandInv(r)
    BY <1>1, <1>2, AfterLeavingType
<1>4. poker' = IF q = None THEN poker ELSE r BY DEF Unjoin, q
<1> HIDE DEF r
<1>5. /\ Cancelled(timers) \in Seq(DealTasks)
      /\ Cancelled(queue) \in Seq(Tasks)
    BY WithoutType DEF IInv, TypeOK, Cancelled
<1>6. /\ timers' \in Seq(DealTasks) /\ queue' \in Seq(Tasks)
      /\ joined' \subseteq Accounts
    BY <1>5 DEF Unjoin, IInv, TypeOK
<1>7. TypeOK' BY <1>1, <1>3, <1>4, <1>6 DEF Unjoin, IInv, TypeOK
<1>8. orderly' = orderly BY DEF Unjoin
<1>9. /\ Visible(poker') /\ (InHand(poker') => InHand(poker))
      /\ InHand(poker') /\ HandInv(poker) => HandInv(poker')
    BY <1>1, <1>3, <1>4
<1>10. orderly' /\ InHand(poker') => HandInv(poker')
    BY <1>8, <1>9 DEF IInv
<1>. QED BY <1>7, <1>9, <1>10 DEF IInv

(* A client's action keeps the invariant.                                  *)
LEMMA ClientActionInv ==
    ASSUME IInv, NEW a \in Accounts, NEW req \in ActionRequests,
           NEW ranking \in Rankings(poker), ClientAction(a, req, ranking)
    PROVE  IInv'
<1> DEFINE q == GetById(poker, a)
           r == DoAction(poker, q, req.kind, req.amount, ranking)
<1>1. poker \in Table /\ Visible(poker) /\ req.amount \in Chips /\ queue \in Seq(Tasks)
    BY ActionAssumption DEF IInv, TypeOK
<1>2. q \in Listed(poker) BY <1>1, LookupType DEF ClientAction
<1>3. Becomes(r, queue) BY DEF ClientAction
<1> HIDE DEF q
<1>4. /\ r \in Table /\ Visible(r) /\ (InHand(r) => InHand(poker))
      /\ (InHand(poker) /\ HandInv(poker) => HandInv(r))
    BY <1>1, <1>2, DoActionType
<1> HIDE DEF r
<1>5. /\ UNCHANGED <<joined, napping, timers, joins, hands, orderly>>
    BY DEF ClientAction
<1>6. orderly' /\ InHand(r) => HandInv(r) BY <1>4, <1>5 DEF IInv
<1>. QED BY <1>1, <1>3, <1>4, <1>5, <1>6, BecomesInv DEF IInv, TypeOK

(* What is left of the queue when a task is popped.                        *)
LEMMA QueueTail ==
    ASSUME IInv, NEW t, Pops(t)
    PROVE  Tail(queue) \in Seq(Tasks)
BY HeadTailProperties DEF Pops, IInv, TypeOK

(* The reflection of an action keeps the invariant.                        *)
LEMMA OnPokerActionInv ==
    ASSUME IInv, NEW ranking \in Rankings(poker), OnPokerAction(ranking)
    PROVE  IInv'
<1> DEFINE on_turn == GetByPosition(poker, poker.playing_position)
           null == Fails(poker, "null")
           r == DoAction(poker, on_turn, "FOLD", 0, ranking)
<1>1. poker \in Table /\ Visible(poker) /\ Tail(queue) \in Seq(Tasks)
    BY QueueTail DEF IInv, TypeOK, OnPokerAction
<1>2. on_turn # None => on_turn \in Listed(poker) BY <1>1, LookupType
<1>3. \/ Becomes(null, Tail(queue))
      \/ on_turn # None /\ Becomes(r, Tail(queue))
      \/ Becomes(poker, Tail(queue))
    BY DEF OnPokerAction
<1> HIDE DEF on_turn
<1>4. null \in Table /\ null.state = poker.state /\ SameBets(poker, null)
    BY <1>1, FailsType DEF Faults
<1> HIDE DEF null
<1>5. on_turn # None =>
         /\ r \in Table /\ Visible(r) /\ (InHand(r) => InHand(poker))
         /\ (InHand(poker) /\ HandInv(poker) => HandInv(r))
    BY <1>1, <1>2, ChipFacts, DoActionType
<1> HIDE DEF r
<1>6. UNCHANGED <<joined, napping, timers, joins, hands, orderly>>
    BY DEF OnPokerAction
<1>7. PICK p \in Table : /\ Becomes(p, Tail(queue)) /\ Visible(p)
                         /\ (InHand(p) => InHand(poker))
                         /\ (InHand(poker) /\ HandInv(poker) => HandInv(p))
    <2>1. CASE Becomes(null, Tail(queue))
        <3>1. HandInv(poker) => HandInv(null) BY <1>4, SameBetsInv
        <3>. QED BY <1>1, <1>4, <2>1, <3>1 DEF Visible, InHand, SameBets
    <2>2. CASE on_turn # None /\ Becomes(r, Tail(queue)) BY <1>5, <2>2
    <2>3. CASE Becomes(poker, Tail(queue)) BY <1>1, <2>3
    <2>. QED BY <1>3, <2>1, <2>2, <2>3
<1>8. orderly' /\ InHand(p) => HandInv(p) BY <1>6, <1>7 DEF IInv
<1>. QED BY <1>1, <1>6, <1>7, <1>8, BecomesInv DEF IInv, TypeOK

(* The proceed task keeps the invariant.                                   *)
LEMMA ProceedTaskInv ==
    ASSUME IInv, NEW ranking \in Rankings(poker), ProceedTask(ranking)
    PROVE  IInv'
<1> DEFINE r == Proceed(poker, ranking)
<1>1. poker \in Table /\ Visible(poker) /\ Tail(queue) \in Seq(Tasks)
    BY QueueTail DEF IInv, TypeOK, ProceedTask
<1>2. /\ r \in Table /\ Visible(r) /\ (InHand(r) => InHand(poker))
      /\ (InHand(poker) /\ InHand(r) /\ HandInv(poker) => HandInv(r))
    BY <1>1, ProceedType
<1>3. Becomes(r, Tail(queue)) BY DEF ProceedTask
<1> HIDE DEF r
<1>4. napping' \in Nat /\ UNCHANGED <<joined, timers, joins, hands, orderly>>
    BY DEF ProceedTask, IInv, TypeOK
<1>5. orderly' /\ InHand(r) => HandInv(r) BY <1>2, <1>4 DEF IInv
<1>. QED BY <1>1, <1>2, <1>3, <1>4, <1>5, BecomesInv DEF IInv, TypeOK

(* The end of a hand keeps the invariant.                                  *)
LEMMA FinishTaskInv ==
    ASSUME IInv, FinishTask
    PROVE  IInv'
<1>1. \E S : poker' = [PlayersRemove(poker, S) EXCEPT
                       !.state = IF Len(PlayersRemove(poker, S).players) < 2
                                 THEN W4P ELSE STARTING]
    BY DEF FinishTask
<1>. PICK S : poker' = [PlayersRemove(poker, S) EXCEPT
                       !.state = IF Len(PlayersRemove(poker, S).players) < 2
                                 THEN W4P ELSE STARTING]
    BY <1>1
<1> DEFINE removed == PlayersRemove(poker, S)
           state == IF Len(removed.players) < 2 THEN W4P ELSE STARTING
<1>2. poker' = [removed EXCEPT !.state = state] OBVIOUS
<1>3. removed \in Table BY PlayersRemoveType DEF IInv, TypeOK
<1> HIDE DEF removed
<1>4. /\ state \in CREATED .. DONE
      /\ state \notin {SMALL_BLIND, BIG_BLIND} /\ state \notin PREFLOP .. RIVER
    BY DEF W4P, STARTING, CREATED, DONE, SMALL_BLIND, BIG_BLIND, PREFLOP, RIVER
<1> HIDE DEF state
<1>5. poker' \in Table /\ poker'.state = state BY <1>2, <1>3, <1>4, SetStateType
<1>6. Visible(poker') /\ ~InHand(poker') BY <1>4, <1>5 DEF Visible, InHand
<1>7. /\ queue \in Seq(Tasks) /\ timers \in Seq(DealTasks)
      /\ Tail(queue) \in Seq(Tasks)
    BY QueueTail DEF IInv, TypeOK, FinishTask
<1>8. /\ Cancelled(timers) \in Seq(DealTasks)
      /\ Cancelled(Tail(queue)) \in Seq(Tasks)
    BY <1>7, WithoutType DEF Cancelled
<1>9. timers' \in Seq(DealTasks) /\ queue' \in Seq(Tasks)
    <2>1. "restart" \in DealTasks BY DEF DealTasks
    <2>. QED BY <1>7, <1>8, <2>1, AppendProperties DEF FinishTask
<1>10. joined' \subseteq Accounts /\ UNCHANGED <<napping, joins, hands, orderly>>
    BY DEF FinishTask, IInv, TypeOK
<1>. QED BY <1>5, <1>6, <1>9, <1>10 DEF IInv, TypeOK

(* A hand dealt on a cleared table starts with its bets in order.          *)
LEMMA DealtInv ==
    ASSUME NEW p \in Table, NEW r, Dealt(p, r), Cleared(p)
    PROVE  Visible(r) /\ HandInv(r)
<1>1. /\ r \in Table /\ r.players = p.players /\ r.account = p.account
      /\ r.sb_player \in Listed(p) /\ r.bb_player \in Listed(p)
      /\ r.state = PREFLOP /\ r.current_bet = BigBlind
    BY DEF Dealt
<1>2. Listed(r) = Listed(p) /\ Listed(p) \subseteq Players BY <1>1, ListedType DEF Listed
<1>3. OneToASeat(p) BY DEF Cleared, OneToASeat
<1>4. r.sb_player # r.bb_player BY <1>3 DEF Dealt
<1>5. \A q \in Listed(p) : p.bet[q] = 0 BY DEF Cleared
<1>6. Plus(0, SmallBlind) = SmallBlind /\ Plus(0, BigBlind) = BigBlind
    BY ChipFacts, PlusExact DEF Chips
<1>7. /\ 0 <= BigBlind /\ SmallBlind <= BigBlind /\ BigBlind <= BigBlind /\ 0 <= SmallBlind
    BY BlindsAssumption
<1>8. /\ r.bet[r.sb_player] \in {0, SmallBlind} /\ r.bet[r.bb_player] \in {0, BigBlind}
      /\ \A q \in Listed(p) \ {r.sb_player, r.bb_player} : r.bet[q] = 0
    BY <1>1, <1>2, <1>4, <1>5, <1>6 DEF Dealt
<1>9. \A q \in Listed(r) : r.bet[q] <= r.current_bet
    BY <1>1, <1>2, <1>7, <1>8
<1>10. \A q \in Listed(r) : r.account[q] = r.account[r.sb_player] => q = r.sb_player
    BY <1>1, <1>2 DEF Cleared, Listed
<1>11. Visible(r)
    BY <1>1, <1>2 DEF Visible, PREFLOP, SMALL_BLIND, BIG_BLIND
<1>12. r.bet[r.sb_player] <= SmallBlind /\ r.current_bet >= BigBlind
    BY <1>1, <1>8, BlindsAssumption
<1>13. r.sb_player \in Listed(r) BY <1>1, <1>2
<1>14. PotAdds(r)
    <2>1. IsFiniteSet(Listed(p)) BY <1>2, PlayersCount
    <2>2. SumOf(p.bet, Listed(p)) = 0 BY <1>5, <2>1, SumOfNothing
    <2>3. 0 % Modulus = 0 BY ChipFacts
    <2>4. PotAdds(p) BY <2>2, <2>3 DEF PotAdds, Cleared
    <2>. QED BY <2>4 DEF Dealt
<1>. QED BY <1>9, <1>10, <1>11, <1>12, <1>13, <1>14 DEF HandInv

(* A dealt hand is visible.                                                *)
LEMMA DealtVisible ==
    ASSUME NEW p \in Table, NEW r, Dealt(p, r)
    PROVE  r \in Table /\ Visible(r)
BY ListedType DEF Dealt, Visible, PREFLOP, SMALL_BLIND, BIG_BLIND

(* Starting keeps the invariant.                                           *)
LEMMA StartTaskInv ==
    ASSUME IInv, NEW ranking \in Rankings(poker), StartTask(ranking)
    PROVE  IInv'
<1> DEFINE r == Start(poker, ranking)
<1>1. /\ poker \in Table /\ Visible(poker)
      /\ Forgotten(Tail(queue)) \in Seq(Tasks) /\ Forgotten(timers) \in Seq(DealTasks)
    <2>1. Tail(queue) \in Seq(Tasks) /\ timers \in Seq(DealTasks)
        BY QueueTail DEF IInv, TypeOK, StartTask, Pops
    <2>2. "forgotten" \in DealTasks /\ "forgotten" \in Tasks BY DEF Tasks, DealTasks
    <2>. QED BY <2>1, <2>2, ForgottenType DEF IInv, TypeOK
<1>2. r \in {poker, Fails(poker, "spin")} \/ Dealt(poker, r) BY <1>1, StartType
<1>3. /\ Becomes(r, Forgotten(Tail(queue))) /\ timers' = Forgotten(timers)
      /\ hands' \in Nat /\ UNCHANGED <<joined, napping, joins>>
      /\ orderly' = IF r = poker THEN orderly ELSE ~InHand(poker) /\ Cleared(poker)
    BY DEF StartTask, IInv, TypeOK
<1> HIDE DEF r
<1>4. orderly' \in BOOLEAN BY <1>3 DEF IInv, TypeOK
<1>5. r \in Table /\ Visible(r) /\ (orderly' /\ InHand(r) => HandInv(r))
    <2>1. CASE r = poker BY <1>1, <1>3, <2>1 DEF IInv
    <2>2. CASE r # poker /\ r = Fails(poker, "spin")
        <3>1. r \in Table /\ r.state = poker.state /\ SameBets(poker, r)
            BY <1>1, <2>2, FailsType DEF Faults
        <3>2. Visible(r) /\ (InHand(r) <=> InHand(poker))
            BY <1>1, <3>1 DEF Visible, InHand, SameBets
        <3>. QED BY <1>3, <2>2, <3>1, <3>2
    <2>3. CASE r # poker /\ Dealt(poker, r)
        BY <1>1, <1>3, <2>3, DealtVisible, DealtInv
    <2>. QED BY <1>2, <2>1, <2>2, <2>3
<1>. QED BY <1>1, <1>3, <1>4, <1>5, BecomesInv DEF IInv, TypeOK

(* Restarting keeps the invariant.                                         *)
LEMMA RestartTaskInv ==
    ASSUME IInv, NEW ranking \in Rankings(poker), RestartTask(ranking)
    PROVE  IInv'
<1> DEFINE p == Reset(poker)
           r == Start(p, ranking)
<1>1. poker \in Table /\ Tail(queue) \in Seq(Tasks)
    BY QueueTail DEF IInv, TypeOK, RestartTask
<1>2. p \in Table /\ p.state = W4P /\ p.players = poker.players BY <1>1, ResetType
<1>3. /\ Becomes(r, Tail(queue))
      /\ hands' \in Nat /\ napping' \in Nat /\ UNCHANGED <<joined, timers, joins>>
      /\ orderly' = (~InHand(poker) /\ Cleared(p))
    BY DEF RestartTask, IInv, TypeOK
<1> HIDE DEF p
<1>4. ranking \in Rankings(p) BY <1>2 DEF Rankings, Listed
<1>5. r \in {p, Fails(p, "spin")} \/ Dealt(p, r) BY <1>2, <1>4, StartType
<1> HIDE DEF r
<1>6. r \in Table /\ Visible(r) /\ (orderly' /\ InHand(r) => HandInv(r))
    <2>1. CASE r \in {p, Fails(p, "spin")}
        <3>1. Fails(p, "spin") \in Table /\ Fails(p, "spin").state = p.state
            BY <1>2, FailsType DEF Faults
        <3>2. r \in Table /\ r.state = W4P BY <1>2, <2>1, <3>1
        <3>. QED BY <3>2 DEF Visible, InHand, W4P, SMALL_BLIND, BIG_BLIND, PREFLOP, RIVER
    <2>2. CASE Dealt(p, r) BY <1>2, <1>3, <2>2, DealtVisible, DealtInv
    <2>. QED BY <1>5, <2>1, <2>2
<1>. QED BY <1>1, <1>3, <1>6, BecomesInv DEF IInv, TypeOK

(* The timers keep the invariant.                                          *)
LEMMA ClockInv ==
    ASSUME IInv, ProceedDue \/ DealDue \/ Tick
    PROVE  IInv'
<1>1. poker \in Table /\ queue \in Seq(Tasks) /\ timers \in Seq(DealTasks)
    BY DEF IInv, TypeOK
<1>2. CASE ProceedDue
    <2>1. "proceed" \in Tasks BY DEF Tasks
    <2>2. queue' \in Seq(Tasks) BY <1>1, <1>2, <2>1, AppendProperties DEF ProceedDue
    <2>. QED BY <1>2, <2>2 DEF ProceedDue, IInv, TypeOK
<1>3. CASE DealDue
    <2>1. Head(timers) \in Tasks /\ Tail(timers) \in Seq(DealTasks)
        BY <1>1, <1>3, HeadTailProperties DEF DealDue, Tasks
    <2>2. queue' \in Seq(Tasks) BY <1>1, <1>3, <2>1, AppendProperties DEF DealDue
    <2>. QED BY <1>3, <2>1, <2>2 DEF DealDue, IInv, TypeOK
<1>4. CASE Tick
    <2>1. poker' = [poker EXCEPT !.overdue = TRUE] BY <1>4 DEF Tick
    <2>2. poker' \in Table BY <1>1, <2>1 DEF Table
    <2>3. SameBets(poker, poker') /\ poker'.state = poker.state
        BY <1>1, <2>1 DEF Table, SameBets
    <2>4. Visible(poker') /\ (InHand(poker') <=> InHand(poker))
        BY <2>3 DEF IInv, Visible, InHand, SameBets
    <2>5. HandInv(poker) => HandInv(poker') BY <2>3, SameBetsInv
    <2>. QED BY <1>4, <2>2, <2>4, <2>5 DEF Tick, IInv, TypeOK
<1>. QED BY <1>2, <1>3, <1>4

(* Every step keeps the invariant.                                         *)
LEMMA NextInv == IInv /\ [Next]_vars => IInv'
<1>1. SUFFICES ASSUME IInv, [Next]_vars PROVE IInv'
    OBVIOUS
<1>2. CASE UNCHANGED vars BY <1>1, <1>2 DEF vars, IInv, TypeOK
<1>3. CASE ClientStep
    BY <1>1, <1>3, JoinInv, UnjoinInv, ClientActionInv, LeaversAssumption DEF ClientStep
<1>4. CASE TaskStep
    BY <1>1, <1>4, FinishTaskInv, OnPokerActionInv, ProceedTaskInv, StartTaskInv, RestartTaskInv
    DEF TaskStep, Deals
<1>5. CASE ProceedDue \/ DealDue \/ Tick BY <1>1, <1>5, ClockInv
<1>. QED BY <1>1, <1>2, <1>3, <1>4, <1>5 DEF Next

-------------------------------------------------------------------------------

(* The invariant always holds.                                             *)
LEMMA Invariance == Spec => []IInv
<1>1. Init => IInv BY InitInv
<1>2. IInv /\ [Next]_vars => IInv' BY NextInv
<1>. QED BY <1>1, <1>2, PTL DEF Spec

(* Whatever the clients send and in whatever order the tasks run, the      *)
(* table, the clients joined, the queue and the timers stay of their type: *)
(* no balance, bet or pot leaves the range of a uint64_t, and no street    *)
(* outside the enumeration is reached or marked as raised.                 *)
THEOREM TypeCorrect == Spec => []TypeOK
<1>1. IInv => TypeOK BY DEF IInv
<1>. QED BY <1>1, Invariance, PTL

(* In a hand dealt on a cleared table no listed player's bet exceeds the   *)
(* current bet, so what a call costs (poker.c:562) never wraps.            *)
THEOREM BetsStayWithin == Spec => []BetsWithinCurrentBet
<1>1. IInv => BetsWithinCurrentBet BY DEF IInv, HandInv, BetsWithinCurrentBet
<1>. QED BY <1>1, Invariance, PTL

-------------------------------------------------------------------------------
(* The pot and the chips.                                                  *)

(* The module's sums over the players are those of the list lemmas.        *)
LEMMA SumsAgree ==
    ASSUME NEW f, NEW S
    PROVE  MapThenSumSet(LAMBDA q : f[q], S) = SumOf(f, S)
BY DEF SumOf, MapThenSumSet, MapThenFoldSet

(* What the players have bet together fits the uint64_t of the pot.        *)
BetsFit == SumOf(poker.bet, Listed(poker)) < Modulus

(* While it does, the pot is that sum and not only equal to it modulo the  *)
(* width.                                                                  *)
LEMMA PotExact ==
    ASSUME NEW p \in Table, HandInv(p), SumOf(p.bet, Listed(p)) < Modulus
    PROVE  p.pot_amount = SumOf(p.bet, Listed(p))
<1>1. IsFiniteSet(Listed(p)) /\ \A q \in Listed(p) : p.bet[q] \in Nat
    BY ListedType, ChipsType
<1>2. SumOf(p.bet, Listed(p)) \in Nat BY <1>1, SumStep
<1>. QED BY <1>2, ChipFacts DEF HandInv, PotAdds

(* What a task leaves of the chips.                                        *)
LEMMA BecomesChips ==
    ASSUME NEW p \in Table, NEW q, Becomes(p, q)
    PROVE  /\ ChipsAt(poker') = ChipsAt(p) /\ poker'.players = p.players
           /\ poker'.left = p.left /\ poker'.bet = p.bet
<1> DEFINE none == 0
           r == [p EXCEPT !.reflections = none]
<1>1. poker' = r BY DEF Becomes
<1> HIDE DEF none
<1>2. /\ r.players = p.players /\ r.balance = p.balance /\ r.pot_amount = p.pot_amount
      /\ r.state = p.state /\ r.left = p.left /\ r.bet = p.bet
    BY DEF Table
<1> HIDE DEF r
<1>. QED BY <1>1, <1>2 DEF ChipsAt, Balances, Listed, InHand

(* A step that plays a hand: nobody joins it, and none is dealt.           *)
PlaysOn == orderly /\ InHand(poker) /\ UNCHANGED poker.players /\ ~Deals

ChipsKept == ChipsAt(poker') <= ChipsAt(poker) /\ poker.left \subseteq poker'.left

(* A join that adds no player has failed.                                  *)
LEMMA JoinChips ==
    ASSUME IInv, PlaysOn, NEW req \in JoinRequests, NEW q \in Players, Join(req, q)
    PROVE  ChipsKept
<1> DEFINE seated == PlayersAdd(poker, q, req.account, req.position, req.amount)
           null == [poker EXCEPT !.fault = "null"]
<1>1. poker \in Table /\ poker.players \in Seq(Players)
    BY ListedType DEF IInv, TypeOK
<1>2. seated.state = poker.state
    BY <1>1, JoinAssumption, PlayersAddType DEF Join
<1>3. poker' = seated
    BY <1>2 DEF Join, PlaysOn, InHand, W4P, PREFLOP, RIVER
<1>4. null.players = poker.players /\ SameChips(poker, null) /\ null.left = poker.left
      /\ null.state = poker.state
    BY <1>1 DEF Table, SameChips
<1>5. CASE Len(poker.players) > MaxPlayers
    <2>1. poker' = null BY <1>3, <1>5 DEF PlayersAdd, Fails
    <2> HIDE DEF null
    <2>. QED BY <1>1, <1>4, <2>1, SameChipsAt DEF ChipsKept, InHand
<1>6. CASE ~(Len(poker.players) > MaxPlayers)
    <2>1. seated.players = Append(poker.players, q) BY <1>1, <1>6 DEF PlayersAdd, Table
    <2>2. Len(Append(poker.players, q)) = Len(poker.players) + 1 /\ Len(poker.players) \in Nat
        BY <1>1, AppendProperties, LenProperties
    <2> HIDE DEF seated
    <2>. QED BY <1>3, <2>1, <2>2 DEF PlaysOn
<1>. QED BY <1>5, <1>6

(* Who leaves during a hand stays with his chips, marked as left.          *)
LEMMA UnjoinChips ==
    ASSUME IInv, PlaysOn, NEW a \in Leavers, Unjoin(a)
    PROVE  ChipsKept
<1> DEFINE q == GetById(poker, a)
           left == poker.left \cup {q}
           leaving == [poker EXCEPT !.left = left]
<1>1. poker \in Table BY DEF IInv, TypeOK
<1>2. /\ SameChips(poker, leaving) /\ leaving.left = left
      /\ leaving.state = poker.state /\ poker.left \subseteq left
    BY <1>1 DEF Table, SameChips
<1>3. AfterLeaving(poker, {q}) = leaving
    BY <1>2 DEF PlaysOn, InHand, AfterLeaving, STARTING, PREFLOP, RIVER, DONE
<1>4. poker' \in {poker, leaving} BY <1>3 DEF Unjoin
<1> HIDE DEF leaving, left
<1>5. ChipsAt(leaving) <= ChipsAt(poker) BY <1>1, <1>2, SameChipsAt DEF InHand
<1>6. ChipsAt(poker) \in Nat BY <1>1, ChipsType
<1>. QED BY <1>2, <1>4, <1>5, <1>6 DEF ChipsKept

(* A client's action moves chips to the pot, or the pot to the winners.    *)
LEMMA ClientActionChips ==
    ASSUME IInv, PlaysOn, BetsFit', NEW a \in Accounts, NEW req \in ActionRequests,
           NEW ranking \in Rankings(poker), ClientAction(a, req, ranking)
    PROVE  ChipsKept
<1> DEFINE q == GetById(poker, a)
           r == DoAction(poker, q, req.kind, req.amount, ranking)
<1>1. /\ poker \in Table /\ Visible(poker) /\ req.amount \in Chips
      /\ InHand(poker) /\ HandInv(poker)
    BY ActionAssumption DEF IInv, TypeOK, PlaysOn
<1>2. q \in Listed(poker) BY <1>1, LookupType DEF ClientAction
<1>3. Becomes(r, queue) BY DEF ClientAction
<1> HIDE DEF q
<1>4. r \in Table BY <1>1, <1>2, DoActionType
<1>5. SumOf(r.bet, Listed(r)) < Modulus
    <2> HIDE DEF r
    <2>. QED BY <1>3, <1>4, BecomesChips DEF BetsFit, Listed
<1>6. ChipsAt(r) <= ChipsAt(poker) /\ poker.left \subseteq r.left
    BY <1>1, <1>2, <1>5, DoActionChips
<1> HIDE DEF r
<1>. QED BY <1>3, <1>4, <1>6, BecomesChips DEF ChipsKept

(* The reflection of an action folds for a player who left, if at all.     *)
LEMMA OnPokerActionChips ==
    ASSUME IInv, PlaysOn, BetsFit', NEW ranking \in Rankings(poker), OnPokerAction(ranking)
    PROVE  ChipsKept
<1> DEFINE on_turn == GetByPosition(poker, poker.playing_position)
           null == Fails(poker, "null")
           r == DoAction(poker, on_turn, "FOLD", 0, ranking)
<1>1. poker \in Table /\ Visible(poker) /\ InHand(poker) /\ HandInv(poker)
    BY DEF IInv, TypeOK, PlaysOn
<1>2. on_turn # None => on_turn \in Listed(poker) BY <1>1, LookupType
<1>3. \/ Becomes(null, Tail(queue))
      \/ on_turn # None /\ Becomes(r, Tail(queue))
      \/ Becomes(poker, Tail(queue))
    BY DEF OnPokerAction
<1> HIDE DEF on_turn
<1>4. null \in Table /\ ChipsAt(null) <= ChipsAt(poker) /\ poker.left \subseteq null.left
    <2>1. /\ null \in Table /\ null.state = poker.state /\ poker.left \subseteq null.left
        BY <1>1, FailsType DEF Faults, SameBets
    <2>2. SameChips(poker, null) BY <1>1 DEF Table, SameChips, Fails
    <2> HIDE DEF null
    <2>. QED BY <1>1, <2>1, <2>2, SameChipsAt DEF InHand
<1> HIDE DEF null
<1>5. ASSUME on_turn # None, Becomes(r, Tail(queue)) PROVE ChipsKept
    <2>1. on_turn \in Listed(poker) BY <1>2, <1>5
    <2>2. r \in Table BY <1>1, <2>1, ChipFacts, DoActionType
    <2>3. SumOf(r.bet, Listed(r)) < Modulus
        <3> HIDE DEF r
        <3>. QED BY <1>5, <2>2, BecomesChips DEF BetsFit, Listed
    <2>4. ChipsAt(r) <= ChipsAt(poker) /\ poker.left \subseteq r.left
        BY <1>1, <2>1, <2>3, ChipFacts, DoActionChips
    <2> HIDE DEF r
    <2>. QED BY <1>5, <2>2, <2>4, BecomesChips DEF ChipsKept
<1>6. ChipsAt(poker) \in Nat BY <1>1, ChipsType
<1> HIDE DEF r
<1>. QED BY <1>1, <1>3, <1>4, <1>5, <1>6, BecomesChips DEF ChipsKept

(* The proceed task folds for a player whose time is over, if at all.      *)
LEMMA ProceedTaskChips ==
    ASSUME IInv, PlaysOn, BetsFit', NEW ranking \in Rankings(poker), ProceedTask(ranking)
    PROVE  ChipsKept
<1> DEFINE r == Proceed(poker, ranking)
<1>1. poker \in Table /\ Visible(poker) /\ InHand(poker) /\ HandInv(poker)
    BY DEF IInv, TypeOK, PlaysOn
<1>2. r \in Table BY <1>1, ProceedType
<1>3. Becomes(r, Tail(queue)) BY DEF ProceedTask
<1>4. SumOf(r.bet, Listed(r)) < Modulus
    <2> HIDE DEF r
    <2>. QED BY <1>2, <1>3, BecomesChips DEF BetsFit, Listed
<1>5. ChipsAt(r) <= ChipsAt(poker) /\ poker.left \subseteq r.left
    BY <1>1, <1>4, ProceedChips
<1> HIDE DEF r
<1>. QED BY <1>2, <1>3, <1>5, BecomesChips DEF ChipsKept

(* No step that plays a hand creates chips.                                *)
LEMMA StepChips == IInv /\ BetsFit' /\ [Next]_vars /\ PlaysOn => ChipsKept
<1>1. SUFFICES ASSUME IInv, BetsFit', [Next]_vars, PlaysOn PROVE ChipsKept
    OBVIOUS
<1>2. poker \in Table /\ ChipsAt(poker) \in Nat BY <1>1, ChipsType DEF IInv, TypeOK
<1>3. CASE UNCHANGED poker BY <1>2, <1>3 DEF ChipsKept
<1>4. CASE ClientStep
    BY <1>1, <1>4, JoinChips, UnjoinChips, ClientActionChips DEF ClientStep
<1>5. CASE TaskStep
    <2>1. ~FinishTask
        <3>1. FinishTask => poker.state = DONE BY DEF FinishTask
        <3>2. poker.state \in PREFLOP .. RIVER BY <1>1 DEF PlaysOn, InHand
        <3>. QED BY <3>1, <3>2 DEF PREFLOP, RIVER, DONE
    <2>2. ~Deals BY <1>1 DEF PlaysOn
    <2>. QED BY <1>1, <1>5, <2>1, <2>2, OnPokerActionChips, ProceedTaskChips DEF TaskStep
<1>6. CASE Tick
    <2>1. poker' = [poker EXCEPT !.overdue = TRUE] BY <1>6 DEF Tick
    <2>2. /\ poker'.players = poker.players /\ poker'.balance = poker.balance
          /\ poker'.pot_amount = poker.pot_amount /\ poker'.state = poker.state
          /\ poker'.left = poker.left
        BY <1>2, <2>1 DEF Table
    <2>3. ChipsAt(poker') = ChipsAt(poker)
        BY <2>2 DEF ChipsAt, Balances, Listed, InHand
    <2>. QED BY <1>2, <2>2, <2>3 DEF ChipsKept
<1>. QED BY <1>1, <1>3, <1>4, <1>5, <1>6 DEF Next, vars, ProceedDue, DealDue

(* In a hand dealt on a cleared table the pot is, at the width of its      *)
(* type, what the listed players have bet: raises, calls, the blinds and   *)
(* players who join or leave included (poker.c:504-572).                   *)
THEOREM PotIsTheBetsModuloWidth ==
    Spec => [](orderly /\ InHand(poker) =>
                  poker.pot_amount = SumOf(poker.bet, Listed(poker)) % Modulus)
<1>1. IInv => (orderly /\ InHand(poker) =>
                  poker.pot_amount = SumOf(poker.bet, Listed(poker)) % Modulus)
    BY DEF IInv, HandInv, PotAdds
<1>. QED BY <1>1, Invariance, PTL

(* As long as what the players have bet fits the uint64_t, the pot the     *)
(* clients are told is what the players have bet in this hand.             *)
THEOREM PotIsWhatWasBet == Spec /\ []BetsFit => []PotIsTheBets
<1>1. IInv /\ BetsFit => PotIsTheBets
    <2>1. SUFFICES ASSUME IInv, BetsFit, orderly, InHand(poker)
                   PROVE  poker.pot_amount = SumOf(poker.bet, Listed(poker))
        BY SumsAgree DEF PotIsTheBets
    <2>. QED BY <2>1, PotExact DEF IInv, TypeOK, BetsFit
<1>. QED BY <1>1, Invariance, PTL

(* As long as the bets fit, no step that plays a hand, its payout          *)
(* included, creates chips: what the listed players have, those who left   *)
(* among them, and the pot never grow together (poker.c:504-530, 549-572   *)
(* and 881-962).                                                           *)
THEOREM PlayCreatesNoChips ==
    Spec /\ []BetsFit => [][PlaysOn => ChipsAt(poker') <= ChipsAt(poker)]_vars
<1>1. IInv /\ BetsFit' /\ [Next]_vars => [PlaysOn => ChipsAt(poker') <= ChipsAt(poker)]_vars
    BY StepChips DEF ChipsKept
<1>. QED BY <1>1, Invariance, PTL DEF Spec

(* No player who has left puts chips on the table.                         *)
LeftPayNothing == [][\A q \in poker.left : poker'.balance[q] >= poker.balance[q]]_vars

(* The chips of the players still at the table and of the pot do not grow  *)
(* either, as long as nobody who has left pays: his chips are not counted  *)
(* in OnTable, the bet he makes is.                                        *)
THEOREM NoChipsCreated == Spec /\ []BetsFit /\ LeftPayNothing => ChipsNeverCreated
<1> DEFINE A == PlaysOn => OnTable(poker') <= OnTable(poker)
           B == \A q \in poker.left : poker'.balance[q] >= poker.balance[q]
<1>1. IInv /\ IInv' /\ BetsFit' /\ [Next]_vars /\ [B]_vars => [A]_vars
    <2>1. SUFFICES ASSUME IInv, IInv', BetsFit', [Next]_vars, B, PlaysOn
                   PROVE  OnTable(poker') <= OnTable(poker)
        OBVIOUS
    <2> DEFINE L == Listed(poker)
               here == L \ poker.left
               here2 == L \ poker'.left
               gone == L \cap poker.left
               pot == IF InHand(poker) THEN poker.pot_amount ELSE 0
               pot2 == IF InHand(poker') THEN poker'.pot_amount ELSE 0
    <2>2. poker \in Table /\ poker' \in Table BY <2>1 DEF IInv, TypeOK
    <2>3. Listed(poker') = L BY <2>1 DEF PlaysOn, Listed
    <2>4. ChipsAt(poker') <= ChipsAt(poker) /\ poker.left \subseteq poker'.left
        BY <2>1, StepChips DEF ChipsKept
    <2>5. /\ IsFiniteSet(L) /\ pot \in Nat /\ pot2 \in Nat
          /\ \A q \in L : poker.balance[q] \in Nat /\ poker'.balance[q] \in Nat
        BY <2>2, ChipsType, ListedType
    <2>6. /\ OnTable(poker) = SumOf(poker.balance, here) + pot
          /\ OnTable(poker') = SumOf(poker'.balance, here2) + pot2
        BY <2>3, SumsAgree DEF OnTable
    <2>7. /\ ChipsAt(poker) = SumOf(poker.balance, L) + pot
          /\ ChipsAt(poker') = SumOf(poker'.balance, L) + pot2
        BY <2>3 DEF ChipsAt, Balances
    <2>8. /\ gone \in SUBSET L /\ here \in SUBSET L /\ here2 \in SUBSET here
          /\ L \ gone = here
        BY <2>4
    <2>9. \A q \in gone : poker.balance[q] <= poker'.balance[q] BY <2>1, <2>5
    <2> HIDE DEF L, here, here2, gone, pot, pot2
    <2>10. /\ SumOf(poker.balance, L) = SumOf(poker.balance, gone) + SumOf(poker.balance, here)
           /\ SumOf(poker'.balance, L) = SumOf(poker'.balance, gone) + SumOf(poker'.balance, here)
        BY <2>5, <2>8, SumSplit
    <2>11. /\ IsFiniteSet(gone) /\ IsFiniteSet(here) /\ IsFiniteSet(here2)
        BY <2>5, <2>8, FS_Subset
    <2>12. SumOf(poker.balance, gone) <= SumOf(poker'.balance, gone)
        BY <2>5, <2>8, <2>9, <2>11, SumMonotone
    <2>13. SumOf(poker'.balance, here2) <= SumOf(poker'.balance, here)
        BY <2>5, <2>8, <2>11, SumOfPart
    <2>14. /\ SumOf(poker.balance, gone) \in Nat /\ SumOf(poker.balance, here) \in Nat
           /\ SumOf(poker'.balance, gone) \in Nat /\ SumOf(poker'.balance, here) \in Nat
           /\ SumOf(poker'.balance, here2) \in Nat
        BY <2>5, <2>8, <2>11, SumStep
    <2>. QED BY <2>4, <2>5, <2>6, <2>7, <2>10, <2>12, <2>13, <2>14
<1>2. [][A]_vars => ChipsNeverCreated
    <2>1. [A]_vars => [orderly /\ InHand(poker) /\ UNCHANGED poker.players /\ ~Deals =>
                          OnTable(poker') <= OnTable(poker)]_vars
        BY DEF PlaysOn
    <2>. QED BY <2>1, PTL DEF ChipsNeverCreated
<1> HIDE DEF A, B
<1>3. LeftPayNothing => [][B]_vars BY DEF LeftPayNothing, B
<1>. QED BY <1>1, <1>2, <1>3, Invariance, PTL DEF Spec

-------------------------------------------------------------------------------
(* One chain of timers.                                                    *)

(* The places of t among the first n entries of s.                         *)
Places(s, t, n) == {i \in 1 .. n : s[i] = t}

(* Their number grows by one where t is.                                   *)
LEMMA PlacesStep ==
    ASSUME NEW s, NEW t, NEW n \in Nat
    PROVE  /\ IsFiniteSet(Places(s, t, n)) /\ Cardinality(Places(s, t, n)) \in Nat
           /\ Cardinality(Places(s, t, 0)) = 0
           /\ s[n + 1] = t =>
                 Cardinality(Places(s, t, n + 1)) = Cardinality(Places(s, t, n)) + 1
           /\ s[n + 1] # t =>
                 Cardinality(Places(s, t, n + 1)) = Cardinality(Places(s, t, n))
<1>1. IsFiniteSet(Places(s, t, n))
    <2>1. IsFiniteSet(1 .. n) BY FS_Interval
    <2>2. Places(s, t, n) \in SUBSET (1 .. n) BY DEF Places
    <2>. QED BY <2>1, <2>2, FS_Subset
<1>2. Places(s, t, 0) = {} BY DEF Places
<1>3. CASE s[n + 1] = t
    <2>1. Places(s, t, n + 1) = Places(s, t, n) \cup {n + 1} BY <1>3 DEF Places
    <2>2. n + 1 \notin Places(s, t, n) BY DEF Places
    <2>3. Cardinality(Places(s, t, n + 1)) = Cardinality(Places(s, t, n)) + 1
        BY <1>1, <2>1, <2>2, FS_AddElement
    <2>. QED BY <1>1, <1>2, <1>3, <2>3, FS_CardinalityType, FS_EmptySet
<1>4. CASE s[n + 1] # t
    <2>1. Places(s, t, n + 1) = Places(s, t, n) BY <1>4 DEF Places
    <2>2. Cardinality(Places(s, t, n)) \in Nat BY <1>1, FS_CardinalityType
    <2>. QED BY <1>1, <1>2, <1>4, <2>1, <2>2, FS_EmptySet
<1>. QED BY <1>3, <1>4

(* What Count counts.                                                      *)
LEMMA CountPlaces ==
    ASSUME NEW T, NEW s \in Seq(T), NEW t
    PROVE  /\ Count(s, t) = Cardinality(Places(s, t, Len(s)))
           /\ Count(s, t) \in Nat
<1>1. Len(s) \in Nat /\ DOMAIN s = 1 .. Len(s) BY LenProperties
<1>2. {i \in DOMAIN s : s[i] = t} = Places(s, t, Len(s)) BY <1>1 DEF Places
<1>3. Cardinality(Places(s, t, Len(s))) \in Nat BY <1>1, PlacesStep, Zenon
<1>. QED BY <1>2, <1>3 DEF Count

(* Appending a task.                                                       *)
LEMMA CountAppend ==
    ASSUME NEW T, NEW s \in Seq(T), NEW e \in T, NEW t
    PROVE  Count(Append(s, e), t) = Count(s, t) + (IF e = t THEN 1 ELSE 0)
<1> DEFINE r == Append(s, e)
           n == Len(s)
<1>1. /\ r \in Seq(T) /\ n \in Nat /\ Len(r) = n + 1
      /\ \A i \in 1 .. n : r[i] = s[i]
      /\ r[n + 1] = e
    BY AppendProperties, LenProperties
<1> HIDE DEF r, n
<1>2. Places(r, t, n) = Places(s, t, n) BY <1>1 DEF Places
<1>3. Count(r, t) = Cardinality(Places(r, t, n + 1)) BY <1>1, CountPlaces
<1>4. Count(s, t) = Cardinality(Places(s, t, n)) BY CountPlaces DEF n
<1>5. /\ r[n + 1] = t =>
            Cardinality(Places(r, t, n + 1)) = Cardinality(Places(r, t, n)) + 1
      /\ r[n + 1] # t =>
            Cardinality(Places(r, t, n + 1)) = Cardinality(Places(r, t, n))
    BY <1>1, PlacesStep, Zenon
<1>6. Count(s, t) \in Nat BY CountPlaces
<1>. QED BY <1>1, <1>2, <1>3, <1>4, <1>5, <1>6 DEF r

(* Taking the first task.                                                  *)
LEMMA CountTail ==
    ASSUME NEW T, NEW s \in Seq(T), s # << >>, NEW t
    PROVE  Count(s, t) = Count(Tail(s), t) + (IF Head(s) = t THEN 1 ELSE 0)
<1> DEFINE r == Tail(s)
           n == Len(s)
           later == Places(s, t, n) \ {1}
           back == [i \in Places(r, t, n - 1) |-> i + 1]
<1>1. /\ Head(s) = s[1] /\ r \in Seq(T)
      /\ n \in Nat \ {0} /\ Len(r) = n - 1
      /\ \A i \in 1 .. n - 1 : r[i] = s[i + 1]
    BY HeadTailProperties, LenProperties, EmptySeq
<1> HIDE DEF r, n
<1>2. /\ IsFiniteSet(Places(s, t, n)) /\ Cardinality(Places(s, t, n)) \in Nat
      /\ IsFiniteSet(Places(r, t, n - 1)) /\ Cardinality(Places(r, t, n - 1)) \in Nat
    BY <1>1, n - 1 \in Nat, PlacesStep
<1>3. ExistsBijection(Places(r, t, n - 1), later)
    <2>1. back \in [Places(r, t, n - 1) -> later]
        BY <1>1 DEF Places
    <2>2. \A i, j \in Places(r, t, n - 1) : back[i] = back[j] => i = j
        BY <1>1 DEF Places
    <2>3. ASSUME NEW j \in later PROVE \E i \in Places(r, t, n - 1) : back[i] = j
        <3>1. j - 1 \in Places(r, t, n - 1) /\ (j - 1) + 1 = j BY <1>1 DEF Places
        <3>. QED BY <3>1
    <2> HIDE DEF back, later
    <2>4. back \in Bijection(Places(r, t, n - 1), later)
        BY <2>1, <2>2, <2>3 DEF Bijection, Injection, Surjection, IsInjective
    <2>. QED BY <2>4 DEF ExistsBijection
<1>4. Cardinality(later) = Cardinality(Places(r, t, n - 1))
    BY <1>2, <1>3, FS_Bijection
<1>5. Cardinality(later) = IF 1 \in Places(s, t, n) THEN Cardinality(Places(s, t, n)) - 1
                                                 ELSE Cardinality(Places(s, t, n))
    BY <1>2, FS_RemoveElement
<1>6. 1 \in Places(s, t, n) <=> Head(s) = t BY <1>1 DEF Places
<1>7. Count(s, t) = Cardinality(Places(s, t, n)) BY CountPlaces DEF n
<1>8. Count(r, t) = Cardinality(Places(r, t, n - 1)) BY <1>1, CountPlaces
<1> HIDE DEF later
<1>. QED BY <1>2, <1>4, <1>5, <1>6, <1>7, <1>8 DEF r

(* Other tasks behind the queue are not counted.                           *)
LEMMA CountConcat ==
    ASSUME NEW T, NEW s \in Seq(T), NEW u \in Seq(T), NEW t,
           \A i \in 1 .. Len(u) : u[i] # t
    PROVE  Count(s \o u, t) = Count(s, t)
<1>1. /\ s \o u \in Seq(T) /\ Len(s) \in Nat /\ Len(u) \in Nat
      /\ Len(s \o u) = Len(s) + Len(u)
      /\ \A i \in 1 .. Len(s) + Len(u) :
            (s \o u)[i] = IF i <= Len(s) THEN s[i] ELSE u[i - Len(s)]
    BY ConcatProperties, LenProperties
<1>2. ASSUME NEW i \in 1 .. Len(s) + Len(u)
      PROVE  (s \o u)[i] = t <=> i \in 1 .. Len(s) /\ s[i] = t
    <2>1. CASE i <= Len(s) BY <1>1, <2>1
    <2>2. CASE ~(i <= Len(s))
        <3>1. i - Len(s) \in 1 .. Len(u) BY <1>1, <2>2
        <3>. QED BY <1>1, <2>2, <3>1
    <2>. QED BY <2>1, <2>2
<1>3. 1 .. Len(s) \subseteq 1 .. Len(s) + Len(u) BY <1>1
<1>4. Places(s \o u, t, Len(s) + Len(u)) = Places(s, t, Len(s)) BY <1>2, <1>3 DEF Places
<1>. QED BY <1>1, <1>4, CountPlaces

(* Cancelling tasks adds none.                                             *)
LEMMA CountWithout ==
    ASSUME NEW T, NEW s \in Seq(T), NEW S, NEW t
    PROVE  Count(Without(s, S), t) <= Count(s, t)
<1> DEFINE n == Len(s)
           NextKept(f, i) == IF i = 0 THEN << >>
                          ELSE IF s[i] \in S THEN f[i - 1] ELSE Append(f[i - 1], s[i])
           Kept(i, r) == r \in Seq(T) /\ Count(r, t) <= Cardinality(Places(s, t, i))
<1>1. n \in Nat BY LenProperties
<1>2. PICK kept : kept = [i \in 0 .. n |-> NextKept(kept, i)] /\ Without(s, S) = kept[n]
    BY WithoutUnfold
<1>3. Kept(0, << >>)
    <2>1. << >> \in Seq(T) /\ Len(<< >>) = 0 BY EmptySeq
    <2>2. Count(<< >>, t) = Cardinality(Places(<< >>, t, 0)) BY <2>1, CountPlaces
    <2>. QED BY <2>1, <2>2, PlacesStep
<1>4. ASSUME NEW i \in 1 .. n, NEW r, Kept(i - 1, r)
      PROVE  Kept(i, r) /\ Kept(i, Append(r, s[i]))
    <2> DEFINE k == i - 1
    <2>1. k \in Nat /\ k + 1 = i BY <1>1
    <2> HIDE DEF k
    <2>2. /\ Cardinality(Places(s, t, k)) \in Nat
          /\ s[k + 1] = t =>
                Cardinality(Places(s, t, k + 1)) = Cardinality(Places(s, t, k)) + 1
          /\ s[k + 1] # t =>
                Cardinality(Places(s, t, k + 1)) = Cardinality(Places(s, t, k))
        BY <2>1, PlacesStep, Zenon
    <2>3. /\ Cardinality(Places(s, t, k)) \in Nat
          /\ Cardinality(Places(s, t, i))
               = Cardinality(Places(s, t, k)) + (IF s[i] = t THEN 1 ELSE 0)
        BY <2>1, <2>2
    <2>4. s[i] \in T BY <1>1, ElementOfSeq
    <2>5. /\ Append(r, s[i]) \in Seq(T)
          /\ Count(Append(r, s[i]), t) = Count(r, t) + (IF s[i] = t THEN 1 ELSE 0)
        BY <1>4, <2>4, CountAppend, AppendProperties
    <2>6. Count(r, t) \in Nat BY <1>4, CountPlaces
    <2>. QED BY <1>4, <2>3, <2>5, <2>6 DEF k
<1> DEFINE Off == {i \in 0 .. n : ~Kept(i, kept[i])}
<1>5. Off = {}
    <2> HIDE DEF Kept
    <2>1. SUFFICES ASSUME Off # {} PROVE FALSE OBVIOUS
    <2>2. PICK m \in Off : \A k \in Off : m <= k
        BY <2>1, <1>1, LeastNat, Off \in SUBSET Nat
    <2>3. kept[m] = NextKept(kept, m) BY <1>2
    <2>4. CASE m = 0 BY <2>2, <2>3, <2>4, <1>3
    <2>5. CASE m # 0
        <3>1. m \in 1 .. n /\ Kept(m - 1, kept[m - 1]) BY <2>2, <2>5, <1>1
        <3>. QED BY <3>1, <2>2, <2>3, <1>4
    <2>. QED BY <2>4, <2>5
<1>6. Kept(n, Without(s, S))
    <2>1. n \in 0 .. n BY <1>1
    <2> HIDE DEF Kept, n
    <2>. QED BY <1>2, <1>5, <2>1
<1>. QED BY <1>6, CountPlaces

-------------------------------------------------------------------------------

(* The tasks that drive a session, in the queue and among the timers.      *)
Driving(s) == Count(s, "proceed") + Count(s, "restart")

(* What each operation does to them.                                       *)
LEMMA DrivingFacts ==
    ASSUME NEW s \in Seq(Tasks)
    PROVE  /\ Driving(s) \in Nat
           /\ \A e \in Tasks : Driving(Append(s, e))
                 = Driving(s) + (IF e \in {"proceed", "restart"} THEN 1 ELSE 0)
           /\ s # << >> => Driving(s)
                 = Driving(Tail(s)) + (IF Head(s) \in {"proceed", "restart"} THEN 1 ELSE 0)
           /\ Cancelled(s) \in Seq(Tasks) /\ Driving(Cancelled(s)) <= Driving(s)
<1>1. Count(s, "proceed") \in Nat /\ Count(s, "restart") \in Nat BY CountPlaces
<1>2. ASSUME NEW e \in Tasks
      PROVE  Driving(Append(s, e))
                 = Driving(s) + (IF e \in {"proceed", "restart"} THEN 1 ELSE 0)
    <2>1. Count(Append(s, e), "proceed") = Count(s, "proceed") + (IF e = "proceed" THEN 1 ELSE 0)
        BY CountAppend
    <2>2. Count(Append(s, e), "restart") = Count(s, "restart") + (IF e = "restart" THEN 1 ELSE 0)
        BY CountAppend
    <2>. QED BY <1>1, <2>1, <2>2 DEF Driving
<1>3. ASSUME s # << >>
      PROVE  Driving(s)
                 = Driving(Tail(s)) + (IF Head(s) \in {"proceed", "restart"} THEN 1 ELSE 0)
    <2>1. Tail(s) \in Seq(Tasks) BY <1>3, HeadTailProperties
    <2>2. Count(Tail(s), "proceed") \in Nat /\ Count(Tail(s), "restart") \in Nat
        BY <2>1, CountPlaces
    <2>3. Count(s, "proceed") = Count(Tail(s), "proceed") + (IF Head(s) = "proceed" THEN 1 ELSE 0)
        BY <1>3, CountTail
    <2>4. Count(s, "restart") = Count(Tail(s), "restart") + (IF Head(s) = "restart" THEN 1 ELSE 0)
        BY <1>3, CountTail
    <2>. QED BY <2>2, <2>3, <2>4 DEF Driving
<1>4. Cancelled(s) \in Seq(Tasks) BY WithoutType DEF Cancelled
<1>5. Count(Cancelled(s), "proceed") \in Nat /\ Count(Cancelled(s), "restart") \in Nat
    BY <1>4, CountPlaces
<1>6. /\ Count(Cancelled(s), "proceed") <= Count(s, "proceed")
      /\ Count(Cancelled(s), "restart") <= Count(s, "restart")
    BY CountWithout DEF Cancelled
<1>. QED BY <1>1, <1>2, <1>3, <1>4, <1>5, <1>6 DEF Driving

(* Forgetting a start makes no driver of it.                               *)
LEMMA ForgottenCounts ==
    ASSUME NEW T, "forgotten" \in T, NEW s \in Seq(T)
    PROVE  /\ Count(Forgotten(s), "start") = 0
           /\ Count(s, "start") = 0 /\ Count(s, "forgotten") = 0
                 => Count(Forgotten(s), "forgotten") = 0
           /\ \A t : t \notin {"start", "forgotten"} => Count(Forgotten(s), t) = Count(s, t)
<1> DEFINE Where(u, t) == {i \in DOMAIN u : u[i] = t}
<1>1. /\ DOMAIN Forgotten(s) = DOMAIN s
      /\ \A i \in DOMAIN s : Forgotten(s)[i] = IF s[i] = "start" THEN "forgotten" ELSE s[i]
    BY ForgottenType
<1>2. Where(Forgotten(s), "start") = {} BY <1>1
<1>3. ASSUME NEW t, t \notin {"start", "forgotten"}
      PROVE  Where(Forgotten(s), t) = Where(s, t)
    BY <1>1, <1>3
<1>4. \A t : IsFiniteSet(Where(s, t))
    <2>1. DOMAIN s = 1 .. Len(s) /\ Len(s) \in Nat BY LenProperties
    <2>2. IsFiniteSet(DOMAIN s) BY <2>1, FS_Interval
    <2>. QED BY <2>2, FS_Subset
<1>5. Where(s, "start") = {} /\ Where(s, "forgotten") = {}
          => Where(Forgotten(s), "forgotten") = {}
    BY <1>1
<1>6. \A u, t : Count(u, t) = Cardinality(Where(u, t)) BY DEF Count
<1> HIDE DEF Where
<1>. QED BY <1>2, <1>3, <1>4, <1>5, <1>6, FS_EmptySet

LEMMA ForgottenDriving ==
    ASSUME NEW s \in Seq(Tasks)
    PROVE  Forgotten(s) \in Seq(Tasks) /\ Driving(Forgotten(s)) = Driving(s)
<1>1. "forgotten" \in Tasks BY DEF Tasks, DealTasks
<1>2. /\ Count(Forgotten(s), "proceed") = Count(s, "proceed")
      /\ Count(Forgotten(s), "restart") = Count(s, "restart")
    BY <1>1, ForgottenCounts
<1>. QED BY <1>1, <1>2, ForgottenType DEF Driving

(* The reflections a task queues drive nothing.                            *)
LEMMA BecomesDriving ==
    ASSUME NEW p \in Table, NEW q \in Seq(Tasks), Becomes(p, q)
    PROVE  Driving(queue') = Driving(q)
<1> DEFINE u == [i \in 1 .. p.reflections |-> "on_action"]
<1>1. p.reflections \in Nat BY FieldTypes
<1>2. u \in Seq(Tasks)
    <2>1. u \in [1 .. p.reflections -> Tasks] BY DEF Tasks
    <2>. QED BY <1>1, <2>1, SeqDef
<1>3. Len(u) = p.reflections /\ \A i \in 1 .. p.reflections : u[i] = "on_action"
    <2>1. DOMAIN u = 1 .. p.reflections OBVIOUS
    <2>2. Len(u) \in Nat /\ DOMAIN u = 1 .. Len(u) BY <1>2, LenProperties
    <2> HIDE DEF u
    <2>3. Len(u) = p.reflections BY <1>1, <2>1, <2>2
    <2>. QED BY <2>3 DEF u
<1>4. queue' = q \o u BY DEF Becomes
<1> HIDE DEF u
<1>5. \A i \in 1 .. Len(u) : u[i] # "proceed" /\ u[i] # "restart" BY <1>3
<1>6. Count(q \o u, "proceed") = Count(q, "proceed") /\ Count(q \o u, "restart") = Count(q, "restart")
    BY <1>2, <1>5, CountConcat
<1>. QED BY <1>4, <1>6 DEF Driving

(* The tasks that drive the session, wherever they wait.                   *)
Drivers == napping + Driving(queue) + Driving(timers)

(* No proceed task is ever among the timers, so OneDriver counts them all. *)
LEMMA OneDriverIsDrivers == IInv => (OneDriver <=> Drivers <= 1)
<1>1. SUFFICES ASSUME IInv PROVE OneDriver <=> Drivers <= 1
    OBVIOUS
<1>2. queue \in Seq(Tasks) /\ timers \in Seq(DealTasks) /\ napping \in Nat
    BY <1>1 DEF IInv, TypeOK
<1>3. Count(timers, "proceed") = 0
    <2>1. Len(timers) \in Nat /\ DOMAIN timers = 1 .. Len(timers)
          /\ \A i \in 1 .. Len(timers) : timers[i] \in DealTasks
        BY <1>2, LenProperties, ElementOfSeq
    <2>2. {i \in DOMAIN timers : timers[i] = "proceed"} = {} BY <2>1 DEF DealTasks
    <2>. QED BY <2>2, FS_EmptySet DEF Count
<1>4. /\ Count(queue, "proceed") \in Nat /\ Count(queue, "restart") \in Nat
      /\ Count(timers, "restart") \in Nat
    BY <1>2, CountPlaces
<1>. QED BY <1>2, <1>3, <1>4 DEF OneDriver, Drivers, Driving

(* The types the proof needs.                                              *)
LEMMA DriverTypes ==
    ASSUME IInv
    PROVE  /\ poker \in Table /\ napping \in Nat /\ queue \in Seq(Tasks)
           /\ timers \in Seq(Tasks)
           /\ Driving(queue) \in Nat /\ Driving(timers) \in Nat
<1>1. poker \in Table /\ napping \in Nat /\ queue \in Seq(Tasks) BY DEF IInv, TypeOK
<1>2. timers \in Seq(Tasks)
    <2>1. timers \in Seq(DealTasks) BY DEF IInv, TypeOK
    <2>2. Len(timers) \in Nat /\ timers \in [1 .. Len(timers) -> DealTasks]
        BY <2>1, LenProperties
    <2>3. timers \in [1 .. Len(timers) -> Tasks] BY <2>2 DEF Tasks
    <2>. QED BY <2>2, <2>3, SeqDef
<1>. QED BY <1>1, <1>2, DrivingFacts

(* Popping a task leaves one driver less when the task is a driver.        *)
LEMMA PopDriving ==
    ASSUME IInv, NEW t, Pops(t)
    PROVE  /\ Tail(queue) \in Seq(Tasks) /\ Driving(Tail(queue)) \in Nat
           /\ Driving(queue)
                = Driving(Tail(queue)) + (IF t \in {"proceed", "restart"} THEN 1 ELSE 0)
BY QueueTail, DriverTypes, DrivingFacts DEF Pops

(* A client's packet makes no driver: a join arms a start task only.       *)
LEMMA ClientDrivers ==
    ASSUME IInv, Drivers <= 1, ClientStep
    PROVE  Drivers' <= 1
<1>1. /\ poker \in Table /\ napping \in Nat /\ queue \in Seq(Tasks)
      /\ timers \in Seq(Tasks)
      /\ Driving(queue) \in Nat /\ Driving(timers) \in Nat
    BY DriverTypes
<1>2. /\ Driving(Cancelled(queue)) <= Driving(queue)
      /\ Driving(Cancelled(timers)) <= Driving(timers)
      /\ Driving(Cancelled(queue)) \in Nat /\ Driving(Cancelled(timers)) \in Nat
    BY <1>1, DrivingFacts
<1>3. ASSUME NEW r \in JoinRequests, NEW q \in Players, Join(r, q) PROVE Drivers' <= 1
    <2>1. Driving(Append(Forgotten(timers), "start")) = Driving(timers)
        <3>1. "start" \in Tasks BY DEF Tasks, DealTasks
        <3>2. /\ Forgotten(timers) \in Seq(Tasks)
              /\ Driving(Forgotten(timers)) = Driving(timers)
            BY <1>1, ForgottenDriving
        <3>3. Driving(Append(Forgotten(timers), "start")) = Driving(Forgotten(timers)) + 0
            BY <3>1, <3>2, DrivingFacts
        <3>. QED BY <1>1, <3>2, <3>3
    <2>2. /\ timers' \in {timers, Append(Forgotten(timers), "start")}
          /\ queue' \in {queue, Forgotten(queue)} /\ napping' = napping
        BY <1>3 DEF Join
    <2>3. Driving(timers') = Driving(timers) /\ Driving(queue') = Driving(queue)
        BY <1>1, <2>1, <2>2, ForgottenDriving
    <2>. QED BY <2>2, <2>3 DEF Drivers
<1>4. ASSUME NEW a \in Leavers, Unjoin(a) PROVE Drivers' <= 1
    <2>1. /\ queue' \in {queue, Cancelled(queue)} /\ timers' \in {timers, Cancelled(timers)}
          /\ napping' = napping
        BY <1>4 DEF Unjoin
    <2>2. /\ Driving(queue') \in Nat /\ Driving(queue') <= Driving(queue)
          /\ Driving(timers') \in Nat /\ Driving(timers') <= Driving(timers)
        BY <1>1, <1>2, <2>1
    <2>. QED BY <1>1, <2>1, <2>2 DEF Drivers
<1>5. ASSUME NEW a \in Accounts, NEW req \in ActionRequests,
             NEW ranking \in Rankings(poker), ClientAction(a, req, ranking)
      PROVE  Drivers' <= 1
    <2> DEFINE q == GetById(poker, a)
               r == DoAction(poker, q, req.kind, req.amount, ranking)
    <2>1. Visible(poker) /\ req.amount \in Chips BY ActionAssumption DEF IInv
    <2>2. q \in Listed(poker) BY <1>1, <1>5, LookupType DEF ClientAction
    <2>3. Becomes(r, queue) /\ timers' = timers /\ napping' = napping
        BY <1>5 DEF ClientAction
    <2> HIDE DEF q
    <2>4. r \in Table BY <1>1, <2>1, <2>2, DoActionType
    <2> HIDE DEF r
    <2>5. Driving(queue') = Driving(queue) BY <1>1, <2>3, <2>4, BecomesDriving
    <2>. QED BY <2>3, <2>5 DEF Drivers
<1>. QED BY <1>3, <1>4, <1>5, LeaversAssumption DEF ClientStep

(* The timers only move drivers to the queue.                              *)
LEMMA ClockDrivers ==
    ASSUME IInv, Drivers <= 1, ProceedDue \/ DealDue \/ Tick
    PROVE  Drivers' <= 1
<1>1. /\ napping \in Nat /\ queue \in Seq(Tasks) /\ timers \in Seq(Tasks)
      /\ Driving(queue) \in Nat /\ Driving(timers) \in Nat
    BY DriverTypes
<1>2. CASE ProceedDue
    <2>1. Driving(Append(queue, "proceed")) = Driving(queue) + 1
        BY <1>1, DrivingFacts DEF Tasks
    <2>2. /\ napping' = napping - 1 /\ timers' = timers
          /\ Driving(queue') = Driving(queue) + 1
        BY <1>2, <2>1 DEF ProceedDue
    <2>. QED BY <1>1, <2>2 DEF Drivers
<1>3. CASE DealDue
    <2> DEFINE t == Head(timers)
               k == IF t \in {"proceed", "restart"} THEN 1 ELSE 0
    <2>1. t \in Tasks /\ timers # << >> BY <1>1, <1>3, HeadTailProperties DEF DealDue
    <2>2. Driving(Append(queue, t)) = Driving(queue) + k BY <1>1, <2>1, DrivingFacts
    <2>3. Driving(timers) = Driving(Tail(timers)) + k BY <1>1, <2>1, DrivingFacts
    <2>4. Tail(timers) \in Seq(Tasks) BY <1>1, <2>1, HeadTailProperties
    <2>5. Driving(Tail(timers)) \in Nat BY <2>4, DrivingFacts
    <2>6. /\ napping' = napping /\ timers' = Tail(timers) /\ queue' = Append(queue, t)
        BY <1>3 DEF DealDue
    <2>7. Driving(queue') = Driving(queue) + k /\ Driving(timers') = Driving(timers) - k
        BY <1>1, <2>2, <2>3, <2>5, <2>6
    <2>8. k \in Int OBVIOUS
    <2> HIDE DEF t, k
    <2>. QED BY <1>1, <2>6, <2>7, <2>8 DEF Drivers
<1>4. CASE Tick BY <1>4 DEF Tick, Drivers
<1>. QED BY <1>2, <1>3, <1>4

(* A proceed task that finds a hand going on comes back, one that finds it *)
(* over arms the restart instead, and a restart calls the proceed task.    *)
LEMMA TaskDrivers ==
    ASSUME IInv, Drivers <= 1, TaskStep
    PROVE  Drivers' <= 1
<1>1. /\ poker \in Table /\ Visible(poker) /\ napping \in Nat /\ timers \in Seq(Tasks)
      /\ Driving(queue) \in Nat /\ Driving(timers) \in Nat
    BY DriverTypes DEF IInv
<1>2. ASSUME NEW ranking \in Rankings(poker), OnPokerAction(ranking) PROVE Drivers' <= 1
    <2> DEFINE on_turn == GetByPosition(poker, poker.playing_position)
               null == Fails(poker, "null")
               r == DoAction(poker, on_turn, "FOLD", 0, ranking)
    <2>1. Tail(queue) \in Seq(Tasks) /\ Driving(queue) = Driving(Tail(queue))
        <3>1. Pops("on_action") BY <1>2 DEF OnPokerAction
        <3>. QED BY <3>1, PopDriving
    <2>2. on_turn # None => on_turn \in Listed(poker) BY <1>1, LookupType
    <2>3. \/ Becomes(null, Tail(queue))
          \/ on_turn # None /\ Becomes(r, Tail(queue))
          \/ Becomes(poker, Tail(queue))
        BY <1>2 DEF OnPokerAction
    <2> HIDE DEF on_turn
    <2>4. null \in Table BY <1>1, FailsType DEF Faults
    <2>5. on_turn # None => r \in Table BY <1>1, <2>2, ChipFacts, DoActionType
    <2> HIDE DEF null, r
    <2>6. Driving(queue') = Driving(queue)
        BY <1>1, <2>1, <2>3, <2>4, <2>5, BecomesDriving
    <2>. QED BY <1>2, <2>6 DEF OnPokerAction, Drivers
<1>3. ASSUME NEW ranking \in Rankings(poker), ProceedTask(ranking) PROVE Drivers' <= 1
    <2> DEFINE r == Proceed(poker, ranking)
    <2>1. /\ Tail(queue) \in Seq(Tasks) /\ Driving(Tail(queue)) \in Nat
          /\ Driving(queue) = Driving(Tail(queue)) + 1
        <3>1. Pops("proceed") BY <1>3 DEF ProceedTask
        <3>. QED BY <3>1, PopDriving
    <2>2. r \in Table BY <1>1, ProceedType
    <2>3. Becomes(r, Tail(queue)) /\ napping' = napping + 1 /\ timers' = timers
        BY <1>3 DEF ProceedTask
    <2> HIDE DEF r
    <2>4. Driving(queue') = Driving(Tail(queue)) BY <2>1, <2>2, <2>3, BecomesDriving
    <2>. QED BY <1>1, <2>1, <2>3, <2>4 DEF Drivers
<1>4. CASE FinishTask
    <2>1. /\ Tail(queue) \in Seq(Tasks) /\ Driving(Tail(queue)) \in Nat
          /\ Driving(queue) = Driving(Tail(queue)) + 1
        <3>1. Pops("proceed") BY <1>4 DEF FinishTask
        <3>. QED BY <3>1, PopDriving
    <2>2. PICK rest \in {timers, Cancelled(timers)} :
             /\ timers' = Append(rest, "restart")
             /\ queue' \in {Tail(queue), Cancelled(Tail(queue))}
             /\ napping' = napping
        BY <1>4 DEF FinishTask
    <2>3. rest \in Seq(Tasks) /\ Driving(rest) \in Nat /\ Driving(rest) <= Driving(timers)
        <3>1. Cancelled(timers) \in Seq(Tasks) /\ Driving(Cancelled(timers)) <= Driving(timers)
            BY <1>1, DrivingFacts
        <3>2. Driving(Cancelled(timers)) \in Nat BY <3>1, DrivingFacts
        <3>. QED BY <1>1, <2>2, <3>1, <3>2
    <2>4. Driving(timers') = Driving(rest) + 1
        <3>1. "restart" \in Tasks BY DEF Tasks, DealTasks
        <3>. QED BY <2>2, <2>3, <3>1, DrivingFacts
    <2>5. Driving(queue') \in Nat /\ Driving(queue') <= Driving(Tail(queue))
        <3>1. /\ Cancelled(Tail(queue)) \in Seq(Tasks)
              /\ Driving(Cancelled(Tail(queue))) <= Driving(Tail(queue))
            BY <2>1, DrivingFacts
        <3>2. Driving(Cancelled(Tail(queue))) \in Nat BY <3>1, DrivingFacts
        <3>3. CASE queue' = Tail(queue) BY <2>1, <3>3
        <3>4. CASE queue' = Cancelled(Tail(queue)) BY <3>1, <3>2, <3>4
        <3>. QED BY <2>2, <3>3, <3>4
    <2>. QED BY <1>1, <2>1, <2>2, <2>3, <2>4, <2>5 DEF Drivers
<1>5. ASSUME NEW ranking \in Rankings(poker), StartTask(ranking) PROVE Drivers' <= 1
    <2> DEFINE r == Start(poker, ranking)
    <2>1. /\ Forgotten(Tail(queue)) \in Seq(Tasks)
          /\ Driving(queue) = Driving(Forgotten(Tail(queue)))
        <3>1. Pops(Head(queue)) /\ Head(queue) \in {"start", "forgotten"}
            BY <1>5 DEF StartTask, Pops
        <3>2. Tail(queue) \in Seq(Tasks) /\ Driving(queue) = Driving(Tail(queue))
            BY <3>1, PopDriving
        <3>. QED BY <3>2, ForgottenDriving
    <2>2. r \in {poker, Fails(poker, "spin")} \/ Dealt(poker, r) BY <1>1, <1>5, StartType
    <2>3. /\ Becomes(r, Forgotten(Tail(queue)))
          /\ napping' = napping /\ timers' = Forgotten(timers)
        BY <1>5 DEF StartTask
    <2> HIDE DEF r
    <2>4. Fails(poker, "spin") \in Table BY <1>1, FailsType DEF Faults
    <2>5. r \in Table BY <1>1, <2>2, <2>4 DEF Dealt
    <2>6. Driving(queue') = Driving(queue) BY <2>1, <2>3, <2>5, BecomesDriving
    <2>7. Driving(timers') = Driving(timers) BY <1>1, <2>3, ForgottenDriving
    <2>. QED BY <2>3, <2>6, <2>7 DEF Drivers
<1>6. ASSUME NEW ranking \in Rankings(poker), RestartTask(ranking) PROVE Drivers' <= 1
    <2> DEFINE p == Reset(poker)
               r == Start(p, ranking)
    <2>1. /\ Tail(queue) \in Seq(Tasks) /\ Driving(Tail(queue)) \in Nat
          /\ Driving(queue) = Driving(Tail(queue)) + 1
        <3>1. Pops("restart") BY <1>6 DEF RestartTask
        <3>. QED BY <3>1, PopDriving
    <2>2. p \in Table /\ p.players = poker.players BY <1>1, ResetType
    <2>3. Becomes(r, Tail(queue)) /\ napping' = napping + 1 /\ timers' = timers
        BY <1>6 DEF RestartTask
    <2> HIDE DEF p
    <2>4. ranking \in Rankings(p) BY <2>2 DEF Rankings, Listed
    <2>5. r \in {p, Fails(p, "spin")} \/ Dealt(p, r) BY <2>2, <2>4, StartType
    <2> HIDE DEF r
    <2>6. Fails(p, "spin") \in Table BY <2>2, FailsType DEF Faults
    <2>7. r \in Table BY <2>2, <2>5, <2>6 DEF Dealt
    <2>8. Driving(queue') = Driving(Tail(queue)) BY <2>1, <2>3, <2>7, BecomesDriving
    <2>. QED BY <1>1, <2>1, <2>3, <2>8 DEF Drivers
<1>. QED BY <1>2, <1>3, <1>4, <1>5, <1>6 DEF TaskStep, Deals

-------------------------------------------------------------------------------

(* A session starts with one proceed task.                                 *)
LEMMA InitDrivers == Init => Drivers <= 1
<1>1. SUFFICES ASSUME Init PROVE Drivers <= 1
    OBVIOUS
<1>2. << >> \in Seq(Tasks) BY EmptySeq
<1>3. queue = Append(<< >>, "proceed") /\ timers = << >> /\ napping = 0
    <2>1. Append(<< >>, "proceed") = <<"proceed">>
        <3>1. /\ <<"proceed">> \in Seq({"proceed"}) /\ Len(<<"proceed">>) = 1
              /\ <<"proceed">>[1] = "proceed"
            OBVIOUS
        <3>2. << >> \in Seq({"proceed"}) /\ Len(<< >>) = 0 BY EmptySeq
        <3>3. /\ Append(<< >>, "proceed") \in Seq({"proceed"})
              /\ Len(Append(<< >>, "proceed")) = 1
              /\ Append(<< >>, "proceed")[1] = "proceed"
            BY <3>2, AppendProperties
        <3>. QED BY <3>1, <3>3, SeqEqual
    <2>. QED BY <1>1, <2>1 DEF Init
<1>4. Driving(Append(<< >>, "proceed")) = Driving(<< >>) + 1
    BY <1>2, DrivingFacts DEF Tasks
<1>5. Driving(<< >>) = 0
    <2>1. \A t : {i \in DOMAIN << >> : << >>[i] = t} = {} OBVIOUS
    <2>2. Count(<< >>, "proceed") = 0 /\ Count(<< >>, "restart") = 0
        BY <2>1, FS_EmptySet DEF Count
    <2>. QED BY <2>2 DEF Driving
<1>. QED BY <1>3, <1>4, <1>5 DEF Drivers

(* Every step of a session keeps it driven once.                           *)
LEMMA NextDrivers == IInv /\ Drivers <= 1 /\ [Next]_vars => (Drivers <= 1)'
<1>1. SUFFICES ASSUME IInv, Drivers <= 1, [Next]_vars PROVE Drivers' <= 1
    OBVIOUS
<1>2. CASE UNCHANGED vars BY <1>1, <1>2 DEF vars, Drivers
<1>3. CASE Next
    BY <1>1, <1>3, ClientDrivers, TaskDrivers, ClockDrivers DEF Next
<1>. QED BY <1>1, <1>2, <1>3

(* Whatever the clients send and in whatever order the tasks run, at most  *)
(* one of the proceed task and the restart task is pending: the session is *)
(* never driven by two chains of timers (lobby.c:191 and 287).             *)
THEOREM DrivenOnce == Spec => []OneDriver
<1>1. Init => Drivers <= 1 BY InitDrivers
<1>2. IInv /\ Drivers <= 1 /\ [Next]_vars => (Drivers <= 1)' BY NextDrivers
<1>3. IInv => (OneDriver <=> Drivers <= 1) BY OneDriverIsDrivers
<1>. QED BY <1>1, <1>2, <1>3, Invariance, PTL DEF Spec
-------------------------------------------------------------------------------
(* Deals pending over a hand in play.                                      *)

(* The players at the table who did not leave.                             *)
Staying(p) == Listed(p) \ p.left

(* How many times task t is pending.                                       *)
Waiting(t) == Count(queue, t) + Count(timers, t)

(* With starts, forgotten starts and restarts pending and J joined: as     *)
(* long as every player who stays has a client, at most one start is       *)
(* pending, nobody waits for players meanwhile, and a restart over a hand  *)
(* finds two clients joined, so that it deals.                             *)
InOrder(p, J, starts, forgotten, restarts) ==
    p.fault = "none" =>
      /\ Cardinality(J) <= Cardinality(Staying(p))
      /\ InHand(p) => Len(p.players) >= 2
      /\ Cardinality(J) = Cardinality(Staying(p)) =>
           /\ p.state <= STARTING => Listed(p) \cap p.left = {}
           /\ forgotten = 0 /\ starts <= 1
           /\ starts > 0 => Cardinality(J) >= 2 /\ p.state # W4P
           /\ restarts > 0 /\ ~(p.state <= STARTING) => Cardinality(J) >= 2

DealsInv ==
    InOrder(poker, joined, Waiting("start"), Waiting("forgotten"), Waiting("restart"))

(* A step that leaves a deal pending over a hand in play found one there,  *)
(* or a start and a restart pending, or a player without a client.         *)
Redeals ==
    InHand(poker') /\ DealPending' =>
        \/ InHand(poker) /\ DealPending
        \/ Pending("start") /\ Pending("restart")
        \/ Unattended

(* The types and numbers the proof needs.                                  *)
LEMMA WaitingTypes ==
    ASSUME IInv
    PROVE  /\ poker \in Table /\ Visible(poker)
           /\ queue \in Seq(Tasks) /\ timers \in Seq(Tasks) /\ timers \in Seq(DealTasks)
           /\ joined \subseteq Accounts /\ IsFiniteSet(joined) /\ Cardinality(joined) \in Nat
           /\ \A t : Count(queue, t) \in Nat /\ Count(timers, t) \in Nat /\ Waiting(t) \in Nat
           /\ \A t : Pending(t) <=> Waiting(t) > 0
<1>1. poker \in Table /\ queue \in Seq(Tasks) /\ timers \in Seq(Tasks) BY DriverTypes
<1>2. joined \subseteq Accounts /\ Visible(poker) /\ timers \in Seq(DealTasks)
    BY DEF IInv, TypeOK
<1>3. IsFiniteSet(joined) /\ Cardinality(joined) \in Nat
    BY <1>2, LeaversAssumption, FS_Subset, FS_CardinalityType
<1>4. \A t : Count(queue, t) \in Nat /\ Count(timers, t) \in Nat BY <1>1, CountPlaces
<1>5. \A t : Pending(t) <=> Waiting(t) > 0 BY DEF Pending, Waiting
<1>6. \A t : Waiting(t) \in Nat BY <1>4 DEF Waiting
<1>. QED BY <1>1, <1>2, <1>3, <1>4, <1>5, <1>6

(* Those who stay are at most the entries of the list that stay.           *)
LEMMA StayingFacts ==
    ASSUME NEW p \in Table
    PROVE  LET n == Cardinality({i \in DOMAIN p.players : p.players[i] \notin p.left})
           IN  /\ IsFiniteSet(Staying(p)) /\ Cardinality(Staying(p)) \in Nat
               /\ n \in Nat /\ Len(p.players) \in Nat
               /\ Cardinality(Staying(p)) <= n /\ n <= Len(p.players)
               /\ Cardinality(Staying(p)) <= Len(p.players)
<1> DEFINE at == {i \in DOMAIN p.players : p.players[i] \notin p.left}
           player == [i \in at |-> p.players[i]]
<1>1. DOMAIN p.players = 1 .. Len(p.players) /\ Len(p.players) \in Nat BY ListedType
<1>2. /\ IsFiniteSet(1 .. Len(p.players))
      /\ Cardinality(1 .. Len(p.players)) = Len(p.players)
    BY <1>1, FS_Interval
<1>3. IsFiniteSet(at) /\ Cardinality(at) <= Len(p.players) /\ Cardinality(at) \in Nat
    BY <1>1, <1>2, FS_Subset, FS_CardinalityType
<1>4. player \in Surjection(at, Staying(p))
    BY DEF Surjection, Staying, Listed
<1>5. Cardinality(Staying(p)) <= Cardinality(at) BY <1>3, <1>4, FS_Surjection
<1>6. IsFiniteSet(Staying(p)) /\ Cardinality(Staying(p)) \in Nat
    BY ListedType, PlayersCount, Staying(p) \in SUBSET Players DEF Staying
<1>. QED BY <1>1, <1>3, <1>5, <1>6

(* The reflections a task queues are no deals.                             *)
LEMMA BecomesCount ==
    ASSUME NEW p \in Table, NEW q \in Seq(Tasks), Becomes(p, q), NEW t, t # "on_action"
    PROVE  Count(queue', t) = Count(q, t)
<1> DEFINE u == [i \in 1 .. p.reflections |-> "on_action"]
<1>1. p.reflections \in Nat BY FieldTypes
<1>2. u \in Seq(Tasks)
    <2>1. u \in [1 .. p.reflections -> Tasks] BY DEF Tasks
    <2>. QED BY <1>1, <2>1, SeqDef
<1>3. \A i \in 1 .. Len(u) : u[i] = "on_action"
    <2>1. DOMAIN u = 1 .. Len(u) BY <1>2, LenProperties
    <2>. QED BY <2>1
<1>4. queue' = q \o u BY DEF Becomes
<1> HIDE DEF u
<1>. QED BY <1>2, <1>3, <1>4, CountConcat

(* What a task that leaves the table as p leaves of it.                    *)
LEMMA BecomesTable ==
    ASSUME NEW p \in Table, NEW q \in Seq(Tasks), Becomes(p, q)
    PROVE  /\ poker' \in Table /\ poker'.state = p.state /\ poker'.fault = p.fault
           /\ poker'.players = p.players /\ poker'.left = p.left
<1>1. poker' \in Table /\ poker'.state = p.state /\ SameBets(p, poker') BY BecomesType
<1>2. poker'.fault = p.fault BY DEF Becomes, Table
<1>. QED BY <1>1, <1>2 DEF SameBets

(* A cancel leaves no start and no restart, and adds nothing.              *)
LEMMA CancelledCounts ==
    ASSUME NEW T, NEW s \in Seq(T)
    PROVE  /\ Cancelled(s) \in Seq(T)
           /\ Count(Cancelled(s), "start") = 0 /\ Count(Cancelled(s), "restart") = 0
           /\ \A t : Count(Cancelled(s), t) \in Nat /\ Count(Cancelled(s), t) <= Count(s, t)
<1> DEFINE r == Cancelled(s)
<1>1. r \in Seq(T) BY WithoutType DEF Cancelled
<1>2. Members(r) = Members(s) \ {"start", "restart"} BY WithoutMembers DEF Cancelled
<1>3. \A t : Count(r, t) \in Nat BY <1>1, CountPlaces
<1>4. \A t : Count(r, t) <= Count(s, t) BY CountWithout DEF Cancelled
<1> HIDE DEF r
<1>5. ASSUME NEW t \in {"start", "restart"} PROVE Count(r, t) = 0
    <2>1. {i \in DOMAIN r : r[i] = t} = {} BY <1>2 DEF Members
    <2>. QED BY <2>1, FS_EmptySet DEF Count
<1>. QED BY <1>1, <1>3, <1>4, <1>5 DEF r

(* The same players, those who left among them, in the same state, or in   *)
(* a hand that goes on or is over, or back to waiting for players.         *)
Goes(p, r) ==
    /\ r.players = p.players /\ r.left = p.left
    /\ \/ r.state = p.state
       \/ InHand(p) /\ r.state \in PREFLOP .. DONE
       \/ r.state = W4P /\ p.state # DONE /\ Len(p.players) < 2

(* A step of a table with the same players keeps the order.                *)
LEMMA GoesInOrder ==
    ASSUME NEW p \in Table, Visible(p), NEW r \in Table, Goes(p, r), p.fault = "none",
           NEW J, IsFiniteSet(J), NEW starts \in Nat, NEW forgotten, NEW restarts \in Nat,
           InOrder(p, J, starts, forgotten, restarts)
    PROVE  InOrder(r, J, starts, forgotten, restarts)
<1>1. Staying(r) = Staying(p) /\ Listed(r) = Listed(p) /\ r.left = p.left
      /\ Len(r.players) = Len(p.players)
    BY DEF Goes, Staying, Listed
<1>2. /\ Cardinality(J) \in Nat /\ Cardinality(Staying(p)) \in Nat
      /\ Len(p.players) \in Nat /\ Cardinality(Staying(p)) <= Len(p.players)
    <2>1. Cardinality(J) \in Nat BY FS_CardinalityType
    <2>. QED BY <2>1, StayingFacts
<1>3. p.state \in 0 .. 9 /\ r.state \in 0 .. 9
    <2>1. p.state \in CREATED .. DONE /\ r.state \in CREATED .. DONE BY FieldTypes
    <2>. QED BY <2>1 DEF CREATED, DONE
<1> DEFINE N == Cardinality(Staying(p))
           K == Cardinality(J)
<1>4. InHand(r) => Len(r.players) >= 2
    <2>1. InHand(r) => InHand(p)
        BY DEF Goes, InHand, W4P, PREFLOP, RIVER
    <2>. QED BY <1>1, <2>1 DEF InOrder
<1>5. ASSUME K = N, r.state <= STARTING PROVE Listed(r) \cap r.left = {}
    <2>1. p.state <= STARTING
        BY <1>2, <1>3, <1>4, <1>5 DEF Goes, InHand, Visible, InOrder, W4P, STARTING, SMALL_BLIND,
            BIG_BLIND, PREFLOP, RIVER, DONE
    <2>. QED BY <1>1, <1>5, <2>1 DEF InOrder
<1>6. ASSUME K = N, starts > 0 PROVE K >= 2 /\ r.state # W4P
    BY <1>2, <1>3, <1>6 DEF InOrder, Goes, W4P, PREFLOP, DONE
<1>7. ASSUME K = N, restarts > 0, ~(r.state <= STARTING) PROVE K >= 2
    BY <1>3, <1>7 DEF InOrder, Goes, InHand, W4P, STARTING, PREFLOP, RIVER
<1>. QED BY <1>1, <1>4, <1>5, <1>6, <1>7 DEF InOrder

(* And a step that leaves the deals pending as they are, too.              *)
LEMMA GoesDeals ==
    ASSUME IInv, DealsInv, Running, poker' \in Table, Goes(poker, poker'), joined' = joined,
           \A t \in DealTasks : Count(queue', t) + Count(timers', t) = Waiting(t)
    PROVE  DealsInv' /\ Redeals
<1>1. /\ poker \in Table /\ Visible(poker) /\ IsFiniteSet(joined)
      /\ \A t : Waiting(t) \in Nat
      /\ \A t : Pending(t) <=> Waiting(t) > 0
    BY WaitingTypes
<1>2. \A t \in DealTasks : Waiting(t)' = Waiting(t) BY DEF Waiting
<1>3. InOrder(poker', joined, Waiting("start"), Waiting("forgotten"), Waiting("restart"))
    BY <1>1, GoesInOrder DEF DealsInv, Running
<1>4. DealsInv' BY <1>2, <1>3 DEF DealsInv, DealTasks
<1>5. InHand(poker') => InHand(poker)
    BY DEF Goes, InHand, W4P, PREFLOP, RIVER
<1>6. DealPending' => DealPending
    BY <1>1 DEF DealPending, Pending
<1>. QED BY <1>4, <1>5, <1>6 DEF Redeals

(* A join adds a client and a player who stays.  A start it arms is the    *)
(* only one, for a start pending keeps the table from waiting for players. *)
LEMMA JoinDeals ==
    ASSUME IInv, DealsInv, Running, NEW req \in JoinRequests, NEW q \in Players, Join(req, q)
    PROVE  DealsInv' /\ Redeals
<1> DEFINE r == PlayersAdd(poker, q, req.account, req.position, req.amount)
           starts == Len(r.players) = 2 /\ r.state = W4P
           J == joined \cup {req.account}
<1>1. /\ poker \in Table /\ IsFiniteSet(joined) /\ Cardinality(joined) \in Nat
      /\ queue \in Seq(Tasks) /\ timers \in Seq(Tasks)
      /\ \A t : Count(queue, t) \in Nat /\ Count(timers, t) \in Nat /\ Waiting(t) \in Nat
    BY WaitingTypes
<1>2. req.account \in Accounts /\ req.position \in Nat /\ req.amount \in Chips
    BY JoinAssumption
<1>3. /\ r \in Table /\ r.state = poker.state
      /\ \/ r = Fails(poker, "null")
         \/ r.players = Append(poker.players, q) /\ r.left = poker.left \ {q}
    BY <1>1, <1>2, PlayersAddType
<1>4. /\ q \notin Listed(poker) /\ req.account \notin joined /\ joined' = J
      /\ poker' = IF starts THEN [r EXCEPT !.state = STARTING] ELSE r
      /\ timers' = IF starts THEN Append(Forgotten(timers), "start") ELSE timers
      /\ queue' = IF starts THEN Forgotten(queue) ELSE queue
    BY DEF Join
<1> HIDE DEF r
<1>5. /\ poker'.players = r.players /\ poker'.left = r.left /\ poker'.fault = r.fault
      /\ poker'.state = IF starts THEN STARTING ELSE poker.state
    BY <1>3, <1>4 DEF Table
<1>6. InHand(poker') => InHand(poker) /\ ~starts
    BY <1>5 DEF InHand, STARTING, PREFLOP, RIVER
<1>7. Redeals
    <2>1. ASSUME ~starts PROVE DealPending' => DealPending
        BY <1>4, <2>1 DEF DealPending, Pending
    <2>. QED BY <1>6, <2>1 DEF Redeals
<1>8. CASE r = Fails(poker, "null")
    <2>1. poker'.fault = "null" BY <1>1, <1>5, <1>8 DEF Fails, Table
    <2>. QED BY <1>7, <2>1 DEF DealsInv, InOrder
<1>9. CASE r.players = Append(poker.players, q) /\ r.left = poker.left \ {q}
    <2> DEFINE N == Cardinality(Staying(poker))
               K == Cardinality(joined)
    <2>1. /\ poker.players \in Seq(Players) /\ Len(poker.players) \in Nat
          /\ Listed(poker) = Members(poker.players)
        BY <1>1, ListedType DEF Listed, Members
    <2>2. /\ Len(poker'.players) = Len(poker.players) + 1
          /\ Listed(poker') = Listed(poker) \cup {q}
          /\ poker'.left = poker.left \ {q}
        <3>1. Len(Append(poker.players, q)) = Len(poker.players) + 1
            BY <2>1, AppendProperties
        <3>2. Members(Append(poker.players, q)) = Members(poker.players) \cup {q}
            BY <2>1, AppendMembers
        <3>. QED BY <1>5, <1>9, <2>1, <3>1, <3>2 DEF Listed, Members
    <2>3. Staying(poker') = Staying(poker) \cup {q} /\ q \notin Staying(poker)
        BY <1>4, <2>2 DEF Staying
    <2>4. IsFiniteSet(Staying(poker)) /\ N \in Nat BY <1>1, StayingFacts
    <2>5. Cardinality(Staying(poker')) = N + 1 /\ Cardinality(joined') = K + 1
        BY <1>1, <1>4, <2>3, <2>4, FS_AddElement
    <2>6. /\ K <= N /\ (InHand(poker) => Len(poker.players) >= 2)
          /\ K = N =>
               /\ poker.state <= STARTING => Listed(poker) \cap poker.left = {}
               /\ Waiting("forgotten") = 0 /\ Waiting("start") <= 1
               /\ Waiting("start") > 0 => K >= 2 /\ poker.state # W4P
               /\ Waiting("restart") > 0 /\ ~(poker.state <= STARTING) => K >= 2
        BY DEF DealsInv, InOrder, Running
    <2>7. InHand(poker') => Len(poker'.players) >= 2
        BY <1>6, <2>1, <2>2, <2>6
    <2>8. CASE ~starts
        <3>1. Waiting("start")' = Waiting("start") /\ Waiting("forgotten")' = Waiting("forgotten")
              /\ Waiting("restart")' = Waiting("restart") /\ poker'.state = poker.state
            BY <1>4, <1>5, <2>8 DEF Waiting
        <3>2. Listed(poker) \cap poker.left = {} => Listed(poker') \cap poker'.left = {}
            BY <2>2
        <3> HIDE DEF N, K
        <3>. QED BY <1>1, <1>7, <2>4, <2>5, <2>6, <2>7, <3>1, <3>2 DEF DealsInv, InOrder, K
    <2>9. CASE starts
        <3>1. poker.state = W4P /\ Len(poker.players) = 1 /\ poker'.state = STARTING
            <4>1. Len(r.players) = 2 /\ r.state = W4P BY <2>9
            <4>2. Len(poker'.players) = 2 BY <1>5, <4>1
            <4>3. poker.state = W4P BY <1>3, <4>1
            <4>4. poker'.state = STARTING BY <1>5, <2>9
            <4>5. Len(poker.players) + 1 = 2 /\ Len(poker.players) \in Nat
                BY <2>1, <2>2, <4>2
            <4>6. Len(poker.players) = 1
                <5>1. \A n \in Nat : n + 1 = 2 => n = 1 OBVIOUS
                <5>. QED BY <4>5, <5>1, Zenon
            <4>. QED BY <4>3, <4>4, <4>6
        <3>2. ASSUME K = N
              PROVE  /\ Waiting("start")' = 1 /\ Waiting("forgotten")' = 0
                     /\ Listed(poker') \cap poker'.left = {} /\ K + 1 >= 2
            <4>1. "forgotten" \in Tasks /\ "start" \in Tasks BY DEF Tasks, DealTasks
            <4>2. /\ Count(queue, "start") = 0 /\ Count(timers, "start") = 0
                  /\ Count(queue, "forgotten") = 0 /\ Count(timers, "forgotten") = 0
                BY <1>1, <2>6, <3>1, <3>2 DEF Waiting
            <4>3. /\ Forgotten(timers) \in Seq(Tasks)
                  /\ Count(Forgotten(queue), "start") = 0 /\ Count(Forgotten(timers), "start") = 0
                  /\ Count(Forgotten(queue), "forgotten") = 0
                  /\ Count(Forgotten(timers), "forgotten") = 0
                BY <1>1, <4>1, <4>2, ForgottenCounts, ForgottenType
            <4>4. /\ Count(Append(Forgotten(timers), "start"), "start") = 0 + 1
                  /\ Count(Append(Forgotten(timers), "start"), "forgotten") = 0 + 0
                BY <4>1, <4>3, CountAppend
            <4>5. Waiting("start")' = 0 + 1 /\ Waiting("forgotten")' = 0 + 0
                BY <1>4, <2>9, <4>3, <4>4 DEF Waiting
            <4>6. Listed(poker) \cap poker.left = {}
                BY <2>6, <3>1, <3>2 DEF W4P, STARTING
            <4>7. poker.players[1] \in Staying(poker)
                BY <1>1, <3>1, <4>6, ListedType DEF Staying, Listed
            <4>8. N >= 1 BY <2>4, <4>7, FS_EmptySet
            <4>. QED BY <2>2, <2>4, <3>2, <4>5, <4>6, <4>8
        <3>3. ~(STARTING = W4P) /\ STARTING <= STARTING BY DEF STARTING, W4P
        <3> HIDE DEF N, K
        <3>. QED BY <1>1, <1>7, <2>4, <2>5, <2>6, <2>7, <3>1, <3>2, <3>3 DEF DealsInv, InOrder, K
    <2>. QED BY <2>8, <2>9
<1>. QED BY <1>3, <1>8, <1>9

(* Where the table is after players left it.                               *)
LEMMA AfterLeavingSeats ==
    ASSUME NEW p \in Table, NEW q \in Players
    PROVE  LET r == AfterLeaving(p, {q})
           IN  /\ r \in Table /\ Staying(r) = Staying(p) \ {q}
               /\ r.players = p.players \/ p.state <= STARTING \/ p.state = DONE
               /\ r.state = p.state \/ (r.state = W4P /\ p.state <= STARTING /\ Len(r.players) = 1)
               /\ p.state <= STARTING /\ Listed(p) \cap p.left = {}
                     => Listed(r) \cap r.left = {}
<1> DEFINE S == {q}
           left == p.left \cup S
           leaving == [p EXCEPT !.left = left]
           removed == IF p.state <= STARTING \/ p.state = DONE
                      THEN PlayersRemove(leaving, S) ELSE leaving
           idle == [removed EXCEPT !.state = W4P]
           r == AfterLeaving(p, S)
<1>1. left \in SUBSET Players BY DEF Table
<1>2. r = IF Len(removed.players) = 1 /\ removed.state <= STARTING THEN idle ELSE removed
    BY DEF AfterLeaving
<1>3. p.state <= STARTING \/ p.state = DONE => removed = PlayersRemove(leaving, S)
    OBVIOUS
<1>4. ~(p.state <= STARTING \/ p.state = DONE) => removed = leaving
    OBVIOUS
<1> HIDE DEF S, left, removed, r
<1>5. /\ leaving \in Table /\ leaving.state = p.state /\ leaving.players = p.players
      /\ leaving.left = left
    BY <1>1 DEF Table
<1> HIDE DEF leaving
<1>6. /\ PlayersRemove(leaving, S) \in Table /\ PlayersRemove(leaving, S).state = p.state
      /\ PlayersRemove(leaving, S).players = Without(p.players, S)
      /\ PlayersRemove(leaving, S).left = left \ S
    BY <1>5, PlayersRemoveType
<1>7. Members(Without(p.players, S)) = Listed(p) \ S
    BY ListedType, WithoutMembers DEF Listed, Members
<1>8. removed \in Table /\ removed.state = p.state
    BY <1>3, <1>4, <1>5, <1>6
<1>9. /\ Listed(removed) \ removed.left = (Listed(p) \ p.left) \ S
      /\ p.state <= STARTING => Listed(removed) = Listed(p) \ S /\ removed.left = left \ S
    <2>1. CASE p.state <= STARTING \/ p.state = DONE
        <3>1. Listed(removed) = Listed(p) \ S /\ removed.left = left \ S
            BY <1>3, <1>6, <1>7, <2>1 DEF Listed, Members
        <3>. QED BY <3>1 DEF left
    <2>2. CASE ~(p.state <= STARTING \/ p.state = DONE)
        <3>1. Listed(removed) = Listed(p) /\ removed.left = left
            BY <1>4, <1>5, <2>2 DEF Listed
        <3>. QED BY <2>2, <3>1 DEF left
    <2>. QED BY <2>1, <2>2
<1>10. /\ idle \in Table /\ idle.state = W4P /\ idle.players = removed.players
       /\ idle.left = removed.left
    <2>1. W4P \in CREATED .. DONE BY DEF W4P, CREATED, DONE
    <2>. QED BY <1>8, <2>1, SetStateType
<1> HIDE DEF idle
<1>11. /\ r \in Table /\ r.players = removed.players /\ r.left = removed.left
       /\ r.state = p.state \/ (r.state = W4P /\ p.state <= STARTING /\ Len(r.players) = 1)
    BY <1>2, <1>8, <1>10
<1>12. Listed(r) = Listed(removed) BY <1>11 DEF Listed
<1>13. Staying(r) = Staying(p) \ S BY <1>9, <1>11, <1>12 DEF Staying
<1>14. r.players = p.players \/ p.state <= STARTING \/ p.state = DONE
    BY <1>4, <1>5, <1>11
<1>15. p.state <= STARTING /\ Listed(p) \cap p.left = {} => Listed(r) \cap r.left = {}
    BY <1>9, <1>11, <1>12 DEF left
<1>. QED BY <1>11, <1>13, <1>14, <1>15 DEF r, S

(* A client who leaves takes at most one player with him.  If one client   *)
(* is left the deals are cancelled; otherwise a deal pending finds two.    *)
LEMMA UnjoinDeals ==
    ASSUME IInv, DealsInv, Running, NEW a \in Leavers, Unjoin(a)
    PROVE  DealsInv' /\ Redeals
<1> DEFINE q == GetById(poker, a)
           r == AfterLeaving(poker, {q})
           alone == q # None /\ Cardinality(joined \ {a}) = 1
           N == Cardinality(Staying(poker))
           K == Cardinality(joined)
           L == Cardinality(joined')
           M == Cardinality(Staying(poker'))
<1>1. /\ poker \in Table /\ IsFiniteSet(joined) /\ K \in Nat
      /\ queue \in Seq(Tasks) /\ timers \in Seq(Tasks)
      /\ \A t : Count(queue, t) \in Nat /\ Count(timers, t) \in Nat /\ Waiting(t) \in Nat
      /\ \A t : Pending(t) <=> Waiting(t) > 0
    BY WaitingTypes
<1>2. /\ a \in joined /\ joined' = joined \ {a}
      /\ poker' = IF q = None THEN poker ELSE r
      /\ timers' = IF alone THEN Cancelled(timers) ELSE timers
      /\ queue' = IF alone THEN Cancelled(queue) ELSE queue
    BY DEF Unjoin
<1>3. q \in Players \cup {None} BY <1>1, LookupType
<1>4. q # None =>
        /\ r \in Table /\ Staying(r) = Staying(poker) \ {q}
        /\ r.players = poker.players \/ poker.state <= STARTING \/ poker.state = DONE
        /\ \/ r.state = poker.state
           \/ r.state = W4P /\ poker.state <= STARTING /\ Len(r.players) = 1
        /\ poker.state <= STARTING /\ Listed(poker) \cap poker.left = {}
              => Listed(r) \cap r.left = {}
    BY <1>1, <1>3, AfterLeavingSeats
<1>5. alone => L = 1 /\ q # None BY <1>2
<1>6. q # None /\ L = 1 => alone BY <1>2
<1> HIDE DEF q, r, alone
<1>7. /\ poker' \in Table
      /\ \/ Staying(poker') = Staying(poker) \ {q} \/ Staying(poker') = Staying(poker)
      /\ \/ poker'.state = poker.state
         \/ poker'.state = W4P /\ poker.state <= STARTING /\ Len(poker'.players) = 1
      /\ poker'.players = poker.players \/ poker.state <= STARTING \/ poker.state = DONE
      /\ poker.state <= STARTING /\ Listed(poker) \cap poker.left = {}
            => Listed(poker') \cap poker'.left = {}
    BY <1>1, <1>2, <1>4
<1>8. q = None => Staying(poker') = Staying(poker) BY <1>2
<1>9. K \in Nat /\ L \in Nat /\ L = K - 1
    BY <1>1, <1>2, FS_RemoveElement, FS_CardinalityType
<1>10. /\ N \in Nat /\ M \in Nat /\ M \in {N, N - 1} /\ (q = None => M = N)
       /\ Len(poker'.players) \in Nat /\ M <= Len(poker'.players)
    <2>1. IsFiniteSet(Staying(poker)) /\ N \in Nat BY <1>1, StayingFacts
    <2>2. M \in {N, N - 1} BY <1>7, <2>1, FS_RemoveElement
    <2>3. M \in Nat /\ Len(poker'.players) \in Nat /\ M <= Len(poker'.players)
        BY <1>7, StayingFacts
    <2>. QED BY <1>8, <2>1, <2>2, <2>3
<1>11. /\ \A t : Waiting(t)' \in Nat /\ Waiting(t)' <= Waiting(t)
       /\ alone => Waiting("start")' = 0 /\ Waiting("restart")' = 0
    <2>1. CASE alone
        <3>1. /\ \A t : /\ Count(queue', t) \in Nat /\ Count(queue', t) <= Count(queue, t)
                        /\ Count(timers', t) \in Nat /\ Count(timers', t) <= Count(timers, t)
              /\ Count(queue', "start") = 0 /\ Count(queue', "restart") = 0
              /\ Count(timers', "start") = 0 /\ Count(timers', "restart") = 0
            BY <1>1, <1>2, <2>1, CancelledCounts
        <3>. QED BY <1>1, <3>1 DEF Waiting
    <2>2. CASE ~alone
        <3>1. queue' = queue /\ timers' = timers BY <1>2, <2>2
        <3>. QED BY <1>1, <2>2, <3>1 DEF Waiting
    <2>. QED BY <2>1, <2>2
<1>12. poker.state \in 0 .. 9
    <2>1. poker.state \in CREATED .. DONE BY <1>1, FieldTypes
    <2>. QED BY <2>1 DEF CREATED, DONE
<1>13. InHand(poker') => InHand(poker) /\ poker'.players = poker.players
    BY <1>7, <1>12 DEF InHand, W4P, STARTING, PREFLOP, RIVER, DONE
<1>14. Redeals
    <2>1. DealPending' => DealPending
        <3>1. ASSUME NEW t, Waiting(t)' > 0 PROVE Waiting(t) > 0 BY <1>1, <1>11, <3>1
        <3>. QED BY <3>1 DEF DealPending, Pending, Waiting
    <2>. QED BY <1>13, <2>1 DEF Redeals
<1>15. /\ K <= N /\ (InHand(poker) => Len(poker.players) >= 2)
       /\ K = N =>
            /\ poker.state <= STARTING => Listed(poker) \cap poker.left = {}
            /\ Waiting("forgotten") = 0 /\ Waiting("start") <= 1
            /\ Waiting("start") > 0 => K >= 2 /\ poker.state # W4P
            /\ Waiting("restart") > 0 /\ ~(poker.state <= STARTING) => K >= 2
    BY DEF DealsInv, InOrder, Running
<1>16. L <= M /\ (L = M => K = N /\ q # None)
    BY <1>9, <1>10, <1>15
<1>17. ASSUME L = M, Waiting("start")' > 0 PROVE L >= 2 /\ poker'.state # W4P
    <2>1. Waiting("start") > 0 /\ K = N /\ ~alone /\ q # None BY <1>1, <1>11, <1>16, <1>17
    <2>2. K >= 2 /\ poker.state # W4P BY <1>15, <2>1
    <2>3. L >= 2 BY <1>6, <1>9, <2>1, <2>2
    <2>4. Len(poker'.players) # 1
        <3>1. Len(poker'.players) >= 2 /\ Len(poker'.players) \in Nat BY <1>10, <1>17, <2>3
        <3>2. \A n \in Nat : n >= 2 => n # 1 OBVIOUS
        <3>. QED BY <3>1, <3>2, Zenon
    <2>. QED BY <1>7, <2>2, <2>3, <2>4
<1>18. ASSUME L = M, Waiting("restart")' > 0, ~(poker'.state <= STARTING) PROVE L >= 2
    <2>1. Waiting("restart") > 0 /\ K = N /\ ~alone /\ q # None BY <1>1, <1>11, <1>16, <1>18
    <2>2. ~(poker.state <= STARTING)
        BY <1>7, <1>18 DEF W4P, STARTING
    <2>3. K >= 2 BY <1>15, <2>1, <2>2
    <2>. QED BY <1>6, <1>9, <2>1, <2>3
<1>19. ASSUME L = M, poker'.state <= STARTING PROVE Listed(poker') \cap poker'.left = {}
    <2>1. poker.state <= STARTING BY <1>7, <1>19
    <2>. QED BY <1>7, <1>15, <1>16, <1>19, <2>1
<1>20. L = M => Waiting("forgotten")' = 0 /\ Waiting("start")' <= 1
    <2>1. /\ Waiting("forgotten")' \in Nat /\ Waiting("forgotten")' <= Waiting("forgotten")
          /\ Waiting("start")' \in Nat /\ Waiting("start")' <= Waiting("start")
          /\ Waiting("start") \in Nat
        BY <1>1, <1>11
    <2>. QED BY <1>15, <1>16, <2>1
<1>21. InHand(poker') => Len(poker'.players) >= 2 BY <1>13, <1>15
<1>. QED BY <1>14, <1>16, <1>17, <1>18, <1>19, <1>20, <1>21 DEF DealsInv, InOrder

(* The end of a hand takes no more players who stay than clients, and the  *)
(* deals are cancelled if it leaves fewer than two clients of several.     *)
LEMMA FinishDeals ==
    ASSUME IInv, DealsInv, Running, FinishTask
    PROVE  DealsInv' /\ Redeals
<1> DEFINE Broke == {a \in Accounts : /\ GetById(poker, a) # None
                                      /\ poker.balance[GetById(poker, a)] < EnteranceMin}
           leaving == Broke \cap joined
           gone == {GetById(poker, a) : a \in leaving}
           S == poker.left \cup gone
           removed == PlayersRemove(poker, S)
           state == IF Len(removed.players) < 2 THEN W4P ELSE STARTING
           alone == /\ leaving # {}
                    /\ Cardinality(joined) > 1
                    /\ Cardinality(joined \ leaving) <= 1
           N == Cardinality(Staying(poker))
           K == Cardinality(joined)
           L == Cardinality(joined')
           M == Cardinality(Staying(poker'))
<1>1. /\ poker \in Table /\ IsFiniteSet(joined) /\ K \in Nat
      /\ queue \in Seq(Tasks) /\ timers \in Seq(Tasks)
      /\ \A t : Count(queue, t) \in Nat /\ Count(timers, t) \in Nat /\ Waiting(t) \in Nat
    BY WaitingTypes
<1>2. /\ Pops("proceed") /\ joined' = joined \ leaving
      /\ poker' = [removed EXCEPT !.state = state]
      /\ timers' = Append(IF alone THEN Cancelled(timers) ELSE timers, "restart")
      /\ queue' = IF alone THEN Cancelled(Tail(queue)) ELSE Tail(queue)
    BY DEF FinishTask
<1>3. leaving \subseteq joined /\ IsFiniteSet(leaving) BY <1>1, FS_Subset
<1>4. alone <=> leaving # {} /\ K > 1 /\ L <= 1 BY <1>2
<1>5. leaving = {} => L = K BY <1>2
<1>6. L \in Nat /\ Cardinality(leaving) \in Nat /\ L = K - Cardinality(leaving)
    <2>1. joined \cap leaving = leaving BY <1>3
    <2> HIDE DEF leaving
    <2>. QED BY <1>1, <1>2, <1>3, <2>1, FS_Difference, FS_CardinalityType
<1>7. IsFiniteSet(gone) /\ Cardinality(gone) <= Cardinality(leaving) /\ Cardinality(gone) \in Nat
    <2> DEFINE player == [a \in leaving |-> GetById(poker, a)]
    <2>1. player \in Surjection(leaving, gone)
        <3> HIDE DEF leaving
        <3>. QED BY DEF Surjection
    <2> HIDE DEF player, leaving, gone
    <2>. QED BY <1>3, <2>1, FS_Surjection, FS_CardinalityType
<1> HIDE DEF leaving, alone, gone
<1>8. /\ removed \in Table /\ removed.players = Without(poker.players, S)
      /\ removed.left = poker.left \ S
    BY <1>1, PlayersRemoveType
<1>9. Members(Without(poker.players, S)) = Listed(poker) \ S
    <2>1. poker.players \in Seq(Players) BY <1>1, ListedType
    <2>2. Listed(poker) = Members(poker.players) BY DEF Listed, Members
    <2> HIDE DEF S
    <2>. QED BY <2>1, <2>2, WithoutMembers
<1>10. state \in CREATED .. DONE /\ state <= STARTING
    BY DEF W4P, STARTING, CREATED, DONE
<1>11. /\ state = W4P => Len(removed.players) < 2
       /\ state \notin PREFLOP .. RIVER
    BY DEF W4P, STARTING, PREFLOP, RIVER
<1> HIDE DEF removed, state
<1>12. /\ poker' \in Table /\ poker'.state = state /\ poker'.players = removed.players
       /\ poker'.left = removed.left
    BY <1>2, <1>8, <1>10, SetStateType
<1>13. Listed(poker') = Listed(poker) \ S /\ poker'.left = {}
    BY <1>8, <1>9, <1>12 DEF Listed, Members
<1>14. Staying(poker') = Staying(poker) \ gone BY <1>13 DEF Staying
<1>15. N \in Nat /\ M \in Nat /\ M >= N - Cardinality(gone)
       /\ Len(poker'.players) \in Nat /\ M <= Len(poker'.players)
    <2>1. IsFiniteSet(Staying(poker)) /\ N \in Nat BY <1>1, StayingFacts
    <2>2. /\ Cardinality(Staying(poker) \cap gone) <= Cardinality(gone)
          /\ IsFiniteSet(Staying(poker) \cap gone)
        BY <1>7, FS_Intersection
    <2>3. Cardinality(Staying(poker) \cap gone) \in Nat BY <2>2, FS_CardinalityType
    <2>4. M = N - Cardinality(Staying(poker) \cap gone) BY <1>14, <2>1, FS_Difference
    <2>5. M \in Nat /\ Len(poker'.players) \in Nat /\ M <= Len(poker'.players)
        BY <1>12, StayingFacts
    <2>. QED BY <1>7, <2>1, <2>2, <2>3, <2>4, <2>5
<1>16. ~InHand(poker') /\ poker'.state <= STARTING BY <1>10, <1>11, <1>12 DEF InHand
<1>17. /\ Waiting("start")' \in Nat /\ Waiting("start")' <= Waiting("start")
       /\ Waiting("forgotten")' \in Nat /\ Waiting("forgotten")' <= Waiting("forgotten")
       /\ alone => Waiting("start")' = 0
    <2> DEFINE rest == IF alone THEN Cancelled(timers) ELSE timers
    <2>1. Tail(queue) \in Seq(Tasks) BY <1>2, QueueTail
    <2>2. ASSUME NEW t \in {"start", "forgotten"}
          PROVE  /\ Count(queue', t) \in Nat /\ Count(queue', t) <= Count(queue, t)
                 /\ Count(rest, t) \in Nat /\ Count(rest, t) <= Count(timers, t)
                 /\ rest \in Seq(Tasks) /\ Count(Append(rest, "restart"), t) = Count(rest, t) + 0
        <3>1. Count(queue, t) = Count(Tail(queue), t) + 0
            BY <1>1, <1>2, CountTail DEF Pops
        <3>2. Count(Tail(queue), t) \in Nat BY <2>1, CountPlaces
        <3>3. Count(queue', t) \in Nat /\ Count(queue', t) <= Count(Tail(queue), t)
            <4>1. queue' \in {Cancelled(Tail(queue)), Tail(queue)} BY <1>2
            <4>2. /\ Count(Cancelled(Tail(queue)), t) \in Nat
                  /\ Count(Cancelled(Tail(queue)), t) <= Count(Tail(queue), t)
                BY <2>1, CancelledCounts
            <4>3. CASE queue' = Tail(queue) BY <3>2, <4>3
            <4>4. CASE queue' = Cancelled(Tail(queue)) BY <4>2, <4>4
            <4>. QED BY <4>1, <4>3, <4>4
        <3>4. rest \in Seq(Tasks) /\ Count(rest, t) \in Nat /\ Count(rest, t) <= Count(timers, t)
            BY <1>1, CancelledCounts
        <3>5. "restart" \in Tasks BY DEF Tasks, DealTasks
        <3> HIDE DEF rest
        <3>6. Count(Append(rest, "restart"), t) = Count(rest, t) + 0
            BY <3>4, <3>5, CountAppend
        <3>. QED BY <1>1, <3>1, <3>2, <3>3, <3>4, <3>6
    <2>3. alone => Count(queue', "start") = 0 /\ Count(rest, "start") = 0
        BY <1>1, <1>2, <2>1, CancelledCounts
    <2>4. timers' = Append(rest, "restart") BY <1>2
    <2> HIDE DEF rest
    <2>5. ASSUME NEW t \in {"start", "forgotten"}
          PROVE  /\ Waiting(t)' = Count(queue', t) + Count(rest, t)
                 /\ Waiting(t)' \in Nat /\ Waiting(t)' <= Waiting(t)
        BY <1>1, <2>2, <2>4 DEF Waiting
    <2>. QED BY <2>3, <2>5
<1>18. /\ K <= N
       /\ K = N =>
            /\ Waiting("forgotten") = 0 /\ Waiting("start") <= 1
            /\ Waiting("start") > 0 => K >= 2
    BY DEF DealsInv, InOrder, Running
<1>19. L <= M /\ (L = M => K = N) BY <1>1, <1>6, <1>7, <1>15, <1>18
<1>20. ASSUME L = M, Waiting("start")' > 0 PROVE L >= 2 /\ poker'.state # W4P
    <2>1. Waiting("start") > 0 /\ K = N /\ ~alone BY <1>1, <1>17, <1>19, <1>20
    <2>2. K >= 2 BY <1>18, <2>1
    <2>3. L >= 2 BY <1>1, <1>4, <1>5, <1>6, <2>1, <2>2
    <2>4. ~(Len(removed.players) < 2) BY <1>12, <1>15, <1>20, <2>3
    <2>. QED BY <1>11, <1>12, <2>3, <2>4
<1>21. L = M => Waiting("forgotten")' = 0 /\ Waiting("start")' <= 1
    BY <1>1, <1>17, <1>18, <1>19
<1>22. Redeals BY <1>16 DEF Redeals
<1>. QED BY <1>13, <1>16, <1>19, <1>20, <1>21, <1>22 DEF DealsInv, InOrder

(* A start that deals was the only one, so what stays pending over its     *)
(* hand is a restart that was pending with it.                             *)
LEMMA StartDeals ==
    ASSUME IInv, DealsInv, Running, NEW ranking \in Rankings(poker), StartTask(ranking)
    PROVE  DealsInv' /\ Redeals
<1> DEFINE r == Start(poker, ranking)
           n == Cardinality({i \in DOMAIN poker.players : poker.players[i] \notin poker.left})
           N == Cardinality(Staying(poker))
           K == Cardinality(joined)
           q == Forgotten(Tail(queue))
<1>1. /\ poker \in Table /\ Visible(poker) /\ IsFiniteSet(joined) /\ K \in Nat
      /\ queue \in Seq(Tasks) /\ timers \in Seq(Tasks)
      /\ \A t : Count(queue, t) \in Nat /\ Count(timers, t) \in Nat /\ Waiting(t) \in Nat
      /\ \A t : Pending(t) <=> Waiting(t) > 0
    BY WaitingTypes
<1>2. /\ queue # << >> /\ Head(queue) \in {"start", "forgotten"}
      /\ Becomes(r, q) /\ timers' = Forgotten(timers) /\ joined' = joined
    BY DEF StartTask
<1>3. /\ N \in Nat /\ n \in Nat /\ Len(poker.players) \in Nat
      /\ N <= n /\ n <= Len(poker.players)
    BY <1>1, StayingFacts
<1>4. IF n < 2 THEN r = poker ELSE r = Fails(poker, "spin") \/ Dealt(poker, r)
    BY <1>1, StartType
<1>5. Tail(queue) \in Seq(Tasks) /\ q \in Seq(Tasks)
    BY <1>1, <1>2, QueueTail, ForgottenDriving DEF Pops
<1> HIDE DEF q, n, r
<1>6. /\ Fails(poker, "spin") \in Table /\ Fails(poker, "spin").fault = "spin"
    BY <1>1, FailsType DEF Faults
<1>7. r \in Table BY <1>1, <1>4, <1>6 DEF Dealt
<1>8. /\ poker' \in Table /\ poker'.state = r.state /\ poker'.fault = r.fault
      /\ poker'.players = r.players /\ poker'.left = r.left
    BY <1>2, <1>5, <1>7, BecomesTable
<1>9. /\ Waiting("start")' = 0 /\ Waiting("restart")' = Waiting("restart")
      /\ Head(queue) = "start" => Waiting("start") > 0
      /\ Head(queue) = "forgotten" => Waiting("forgotten") > 0
      /\ Waiting("start") <= 1 /\ Waiting("forgotten") = 0 => Waiting("forgotten")' = 0
    <2> DEFINE u == Tail(queue)
    <2>1. \A t : Count(u, t) \in Nat BY <1>5, CountPlaces
    <2>2. /\ Count(queue, "start") = Count(u, "start") + (IF Head(queue) = "start" THEN 1 ELSE 0)
          /\ Count(queue, "forgotten")
               = Count(u, "forgotten") + (IF Head(queue) = "forgotten" THEN 1 ELSE 0)
          /\ Count(queue, "restart")
               = Count(u, "restart") + (IF Head(queue) = "restart" THEN 1 ELSE 0)
        BY <1>1, <1>2, CountTail
    <2>3. "forgotten" \in Tasks BY DEF Tasks, DealTasks
    <2>4. /\ Count(queue', "start") = Count(q, "start")
          /\ Count(queue', "forgotten") = Count(q, "forgotten")
          /\ Count(queue', "restart") = Count(q, "restart")
        BY <1>2, <1>5, <1>7, BecomesCount
    <2>5. /\ Count(q, "start") = 0 /\ Count(q, "restart") = Count(u, "restart")
          /\ Count(u, "start") = 0 /\ Count(u, "forgotten") = 0 => Count(q, "forgotten") = 0
        BY <1>5, <2>3, ForgottenCounts DEF q
    <2>6. /\ Count(timers', "start") = 0 /\ Count(timers', "restart") = Count(timers, "restart")
          /\ Count(timers, "start") = 0 /\ Count(timers, "forgotten") = 0
                => Count(timers', "forgotten") = 0
        BY <1>1, <1>2, <2>3, ForgottenCounts
    <2> HIDE DEF u
    <2>7. Waiting("start")' = 0 BY <2>4, <2>5, <2>6 DEF Waiting
    <2>8. Waiting("restart")' = Waiting("restart")
        BY <1>2, <2>1, <2>2, <2>4, <2>5, <2>6 DEF Waiting
    <2>9. /\ Head(queue) = "start" => Waiting("start") > 0
          /\ Head(queue) = "forgotten" => Waiting("forgotten") > 0
        BY <1>1, <2>1, <2>2 DEF Waiting
    <2>10. ASSUME Waiting("start") <= 1, Waiting("forgotten") = 0
           PROVE  Waiting("forgotten")' = 0
        <3>1. Head(queue) = "start" BY <1>2, <2>9, <2>10
        <3>2. Count(queue, "start") = Count(u, "start") + 1 BY <2>2, <3>1
        <3>3. Count(u, "start") = 0 /\ Count(timers, "start") = 0
            BY <1>1, <2>1, <2>10, <3>2 DEF Waiting
        <3>4. Count(u, "forgotten") = 0 /\ Count(timers, "forgotten") = 0
            BY <1>1, <2>1, <2>2, <2>10, <3>1 DEF Waiting
        <3>. QED BY <2>4, <2>5, <2>6, <3>3, <3>4 DEF Waiting
    <2>. QED BY <2>7, <2>8, <2>9, <2>10
<1>10. /\ K <= N /\ (InHand(poker) => Len(poker.players) >= 2)
       /\ K = N =>
            /\ poker.state <= STARTING => Listed(poker) \cap poker.left = {}
            /\ Waiting("forgotten") = 0 /\ Waiting("start") <= 1
            /\ Waiting("start") > 0 => K >= 2 /\ poker.state # W4P
    BY DEF DealsInv, InOrder, Running
<1>11. K = N => Waiting("start") > 0 /\ Waiting("forgotten")' = 0 /\ K >= 2
    BY <1>2, <1>9, <1>10
<1>12. Redeals
    <2>1. InHand(poker) => DealPending
        BY <1>1, <1>2, <1>9 DEF DealPending, DealTasks
    <2>2. ASSUME K = N, DealPending' PROVE Pending("start") /\ Pending("restart")
        <3>1. \E t \in DealTasks : Waiting(t)' > 0 BY <2>2 DEF DealPending, Pending, Waiting
        <3>2. Waiting("start") > 0 /\ Waiting("restart") > 0
            BY <1>9, <1>11, <2>2, <3>1 DEF DealTasks
        <3>. QED BY <1>1, <3>2
    <2>3. K = N \/ Unattended BY <1>1, <1>3, <1>10 DEF Unattended, Staying
    <2>. QED BY <2>1, <2>2, <2>3 DEF Redeals
<1>13. CASE n < 2
    <2>1. r = poker BY <1>4, <1>13
    <2>2. Staying(poker') = Staying(poker) /\ Listed(poker') = Listed(poker)
        BY <1>8, <2>1 DEF Staying, Listed
    <2>3. InHand(poker') <=> InHand(poker) BY <1>8, <2>1 DEF InHand
    <2>4. K = N /\ Waiting("restart")' > 0 => K >= 2 BY <1>11
    <2>. QED BY <1>2, <1>8, <1>9, <1>10, <1>11, <1>12, <2>1, <2>2, <2>3 DEF DealsInv, InOrder
<1>14. CASE ~(n < 2) /\ r = Fails(poker, "spin")
    <2>1. poker'.fault # "none" BY <1>6, <1>8, <1>14
    <2>. QED BY <1>12, <2>1 DEF DealsInv, InOrder
<1>15. CASE ~(n < 2) /\ Dealt(poker, r)
    <2>1. /\ poker'.players = poker.players /\ poker'.left = poker.left
          /\ poker'.state = PREFLOP
        BY <1>8, <1>15 DEF Dealt
    <2>2. Staying(poker') = Staying(poker) BY <2>1 DEF Staying, Listed
    <2>3. ~(poker'.state <= STARTING) BY <2>1 DEF PREFLOP, STARTING
    <2>4. Len(poker'.players) >= 2 BY <1>3, <1>15, <2>1
    <2>. QED BY <1>2, <1>9, <1>10, <1>11, <1>12, <2>2, <2>3, <2>4 DEF DealsInv, InOrder
<1>. QED BY <1>4, <1>13, <1>14, <1>15

(* A restart is the only one, and over a hand it finds two clients, so     *)
(* that it deals: the table then waits for nobody.                         *)
LEMMA RestartDeals ==
    ASSUME IInv, Drivers <= 1, DealsInv, Running, NEW ranking \in Rankings(poker),
           RestartTask(ranking)
    PROVE  DealsInv' /\ Redeals
<1> DEFINE p == Reset(poker)
           r == Start(p, ranking)
           n == Cardinality({i \in DOMAIN p.players : p.players[i] \notin p.left})
           N == Cardinality(Staying(poker))
           K == Cardinality(joined)
           q == Tail(queue)
<1>1. /\ poker \in Table /\ Visible(poker) /\ IsFiniteSet(joined) /\ K \in Nat
      /\ queue \in Seq(Tasks) /\ timers \in Seq(Tasks)
      /\ \A t : Count(queue, t) \in Nat /\ Count(timers, t) \in Nat /\ Waiting(t) \in Nat
      /\ \A t : Pending(t) <=> Waiting(t) > 0
    BY WaitingTypes
<1>2. /\ queue # << >> /\ Head(queue) = "restart" /\ Pops("restart")
      /\ Becomes(r, q) /\ timers' = timers /\ joined' = joined
    BY DEF RestartTask, Pops
<1>3. /\ p \in Table /\ p.state = W4P /\ p.players = poker.players /\ p.left = poker.left
    BY <1>1, ResetType
<1>4. ranking \in Rankings(p) BY <1>3 DEF Rankings, Listed
<1>5. q \in Seq(Tasks) BY <1>2, QueueTail
<1>6. IF n < 2 THEN r = p ELSE r = Fails(p, "spin") \/ Dealt(p, r)
    BY <1>3, <1>4, StartType
<1>7. Staying(p) = Staying(poker) /\ Listed(p) = Listed(poker) BY <1>3 DEF Staying, Listed
<1>8. /\ N \in Nat /\ n \in Nat /\ Len(p.players) \in Nat
      /\ N <= n /\ n <= Len(p.players)
    BY <1>3, <1>7, StayingFacts
<1> HIDE DEF p, n, r, q
<1>9. /\ Fails(p, "spin") \in Table /\ Fails(p, "spin").fault = "spin"
    BY <1>3, FailsType DEF Faults
<1>10. r \in Table BY <1>3, <1>6, <1>9 DEF Dealt
<1>11. /\ poker' \in Table /\ poker'.state = r.state /\ poker'.fault = r.fault
       /\ poker'.players = r.players /\ poker'.left = r.left
    BY <1>2, <1>5, <1>10, BecomesTable
<1>12. /\ Waiting("start")' = Waiting("start") /\ Waiting("forgotten")' = Waiting("forgotten")
       /\ Waiting("restart")' = 0 /\ Waiting("restart") > 0
    <2>1. \A t : Count(q, t) \in Nat BY <1>5, CountPlaces
    <2>2. /\ Count(queue, "start") = Count(q, "start") + 0
          /\ Count(queue, "forgotten") = Count(q, "forgotten") + 0
          /\ Count(queue, "restart") = Count(q, "restart") + 1
        BY <1>1, <1>2, CountTail DEF q
    <2>3. /\ Count(queue', "start") = Count(q, "start")
          /\ Count(queue', "forgotten") = Count(q, "forgotten")
          /\ Count(queue', "restart") = Count(q, "restart")
        BY <1>2, <1>5, <1>10, BecomesCount
    <2>4. Count(queue, "restart") + Count(timers, "restart") <= 1
        <3>1. napping \in Nat /\ napping + Driving(queue) + Driving(timers) <= 1
            BY DEF Drivers, IInv, TypeOK
        <3>. QED BY <1>1, <3>1 DEF Driving
    <2>. QED BY <1>1, <1>2, <2>1, <2>2, <2>3, <2>4 DEF Waiting
<1>13. /\ K <= N
       /\ K = N =>
            /\ poker.state <= STARTING => Listed(poker) \cap poker.left = {}
            /\ Waiting("forgotten") = 0 /\ Waiting("start") <= 1
            /\ Waiting("start") > 0 => K >= 2
            /\ ~(poker.state <= STARTING) => K >= 2
    BY <1>12 DEF DealsInv, InOrder, Running
<1>14. Redeals
    <2>1. InHand(poker) => DealPending
        BY <1>1, <1>12 DEF DealPending, DealTasks
    <2>2. ASSUME K = N, DealPending' PROVE Pending("start") /\ Pending("restart")
        <3>1. \E t \in DealTasks : Waiting(t)' > 0 BY <2>2 DEF DealPending, Pending, Waiting
        <3>2. Waiting("start") > 0 /\ Waiting("restart") > 0
            BY <1>12, <1>13, <2>2, <3>1 DEF DealTasks
        <3>. QED BY <1>1, <3>2
    <2>3. K = N \/ Unattended BY <1>1, <1>8, <1>13 DEF Unattended, Staying
    <2>. QED BY <2>1, <2>2, <2>3 DEF Redeals
<1>15. CASE n < 2
    <2>1. r = p BY <1>6, <1>15
    <2>2. /\ Staying(poker') = Staying(poker) /\ Listed(poker') = Listed(poker)
          /\ poker'.left = poker.left /\ poker'.state = W4P
        BY <1>3, <1>7, <1>11, <2>1 DEF Staying, Listed
    <2>3. ~InHand(poker') /\ poker'.state <= STARTING
        BY <2>2 DEF InHand, W4P, PREFLOP, RIVER, STARTING
    <2>4. K = N => Waiting("start") = 0 /\ Listed(poker) \cap poker.left = {}
        BY <1>1, <1>8, <1>13, <1>15
    <2>. QED BY <1>2, <1>12, <1>13, <1>14, <2>2, <2>3, <2>4 DEF DealsInv, InOrder
<1>16. CASE ~(n < 2) /\ r = Fails(p, "spin")
    <2>1. poker'.fault # "none" BY <1>9, <1>11, <1>16
    <2>. QED BY <1>14, <2>1 DEF DealsInv, InOrder
<1>17. CASE ~(n < 2) /\ Dealt(p, r)
    <2>1. /\ poker'.players = p.players /\ poker'.left = p.left
          /\ poker'.state = PREFLOP
        BY <1>11, <1>17 DEF Dealt
    <2>2. Staying(poker') = Staying(poker) BY <1>3, <2>1 DEF Staying, Listed
    <2>3. ~(poker'.state <= STARTING) /\ poker'.state # W4P BY <2>1 DEF PREFLOP, STARTING, W4P
    <2>4. Len(poker'.players) >= 2 BY <1>8, <1>17, <2>1
    <2>. QED BY <1>2, <1>12, <1>13, <1>14, <2>2, <2>3, <2>4 DEF DealsInv, InOrder
<1>. QED BY <1>6, <1>15, <1>16, <1>17

(* A client's action is a step of the table with the same players.         *)
LEMMA ActionDeals ==
    ASSUME IInv, DealsInv, Running, NEW a \in Accounts, NEW req \in ActionRequests,
           NEW ranking \in Rankings(poker), ClientAction(a, req, ranking)
    PROVE  DealsInv' /\ Redeals
<1> DEFINE q == GetById(poker, a)
           r == DoAction(poker, q, req.kind, req.amount, ranking)
<1>1. poker \in Table /\ Visible(poker) /\ req.amount \in Chips /\ queue \in Seq(Tasks)
    BY ActionAssumption DEF IInv, TypeOK
<1>2. q \in Listed(poker) BY <1>1, LookupType DEF ClientAction
<1>3. Becomes(r, queue) /\ timers' = timers /\ joined' = joined BY DEF ClientAction
<1> HIDE DEF q
<1>4. r \in Table /\ Goes(poker, r) BY <1>1, <1>2, DoActionType DEF Goes
<1> HIDE DEF r
<1>5. poker' \in Table /\ Goes(poker, poker') BY <1>1, <1>3, <1>4, BecomesTable DEF Goes
<1>6. \A t \in DealTasks : Count(queue', t) + Count(timers', t) = Waiting(t)
    BY <1>1, <1>3, <1>4, BecomesCount DEF Waiting, DealTasks
<1>. QED BY <1>3, <1>5, <1>6, GoesDeals

(* A task that pops the queue and runs the table leaves the deals pending. *)
LEMMA PopCounts ==
    ASSUME IInv, NEW t, Pops(t), t \notin DealTasks, NEW r \in Table,
           Becomes(r, Tail(queue)), timers' = timers
    PROVE  \A u \in DealTasks : Count(queue', u) + Count(timers', u) = Waiting(u)
<1>1. queue \in Seq(Tasks) /\ queue # << >> /\ Tail(queue) \in Seq(Tasks)
    BY QueueTail DEF IInv, TypeOK, Pops
<1>2. ASSUME NEW u \in DealTasks PROVE Count(queue', u) + Count(timers', u) = Waiting(u)
    <2>1. Count(queue', u) = Count(Tail(queue), u)
        BY <1>1, BecomesCount DEF DealTasks
    <2>2. Count(queue, u) = Count(Tail(queue), u) + 0
        BY <1>1, CountTail DEF Pops
    <2>3. Count(Tail(queue), u) \in Nat BY <1>1, CountPlaces
    <2>. QED BY <2>1, <2>2, <2>3 DEF Waiting
<1>. QED BY <1>2

(* Such a task is a step of the table with the same players, too.          *)
LEMMA PopDeals ==
    ASSUME IInv, DealsInv, Running, NEW t, Pops(t), t \notin DealTasks,
           NEW r \in Table, Goes(poker, r), Becomes(r, Tail(queue)),
           timers' = timers, joined' = joined
    PROVE  DealsInv' /\ Redeals
<1>1. poker \in Table /\ queue \in Seq(Tasks) /\ queue # << >> /\ Tail(queue) \in Seq(Tasks)
    BY QueueTail DEF IInv, TypeOK, Pops
<1>2. poker' \in Table /\ Goes(poker, poker') BY <1>1, BecomesTable DEF Goes
<1>3. \A u \in DealTasks : Count(queue', u) + Count(timers', u) = Waiting(u) BY PopCounts
<1>. QED BY <1>2, <1>3, GoesDeals

(* The reflection of an action.                                            *)
LEMMA ReflectDeals ==
    ASSUME IInv, DealsInv, Running, NEW ranking \in Rankings(poker), OnPokerAction(ranking)
    PROVE  DealsInv' /\ Redeals
<1> DEFINE on_turn == GetByPosition(poker, poker.playing_position)
           null == Fails(poker, "null")
           r == DoAction(poker, on_turn, "FOLD", 0, ranking)
<1>1. poker \in Table /\ Visible(poker) BY DEF IInv, TypeOK
<1>2. on_turn # None => on_turn \in Listed(poker) BY <1>1, LookupType
<1>3. /\ \/ Becomes(null, Tail(queue))
         \/ on_turn # None /\ Becomes(r, Tail(queue))
         \/ Becomes(poker, Tail(queue))
      /\ Pops("on_action") /\ timers' = timers /\ joined' = joined
    BY DEF OnPokerAction
<1> HIDE DEF on_turn
<1>4. null \in Table /\ Goes(poker, null) BY <1>1, FailsType DEF Faults, Goes, SameBets
<1>5. on_turn # None => r \in Table /\ Goes(poker, r)
    BY <1>1, <1>2, ChipFacts, DoActionType DEF Goes
<1>6. Goes(poker, poker) BY DEF Goes
<1>7. "on_action" \notin DealTasks BY DEF DealTasks
<1> HIDE DEF null, r
<1>. QED BY <1>1, <1>3, <1>4, <1>5, <1>6, <1>7, PopDeals

(* The proceed task of a hand that is not over.                            *)
LEMMA ProceedDeals ==
    ASSUME IInv, DealsInv, Running, NEW ranking \in Rankings(poker), ProceedTask(ranking)
    PROVE  DealsInv' /\ Redeals
<1> DEFINE r == Proceed(poker, ranking)
<1>1. poker \in Table /\ Visible(poker) BY DEF IInv, TypeOK
<1>2. /\ Becomes(r, Tail(queue)) /\ Pops("proceed") /\ timers' = timers /\ joined' = joined
      /\ poker.state # DONE
    BY DEF ProceedTask
<1>3. r \in Table /\ Goes(poker, r) BY <1>1, <1>2, ProceedType DEF Goes
<1>4. "proceed" \notin DealTasks BY DEF DealTasks
<1> HIDE DEF r
<1>. QED BY <1>2, <1>3, <1>4, PopDeals

(* The timers only move deals to the queue.                                *)
LEMMA ClockCounts ==
    ASSUME IInv, ProceedDue \/ DealDue \/ Tick
    PROVE  \A t \in DealTasks : Count(queue', t) + Count(timers', t) = Waiting(t)
<1>1. /\ queue \in Seq(Tasks) /\ timers \in Seq(Tasks)
      /\ \A t : Count(queue, t) \in Nat /\ Count(timers, t) \in Nat
    BY WaitingTypes
<1>2. ASSUME NEW t \in DealTasks PROVE Count(queue', t) + Count(timers', t) = Waiting(t)
    <2>1. CASE ProceedDue
        <3>1. "proceed" \in Tasks /\ t # "proceed" BY DEF Tasks, DealTasks
        <3>2. Count(Append(queue, "proceed"), t) = Count(queue, t) + 0
            BY <1>1, <3>1, CountAppend
        <3>. QED BY <1>1, <2>1, <3>2 DEF ProceedDue, Waiting
    <2>2. CASE DealDue
        <3> DEFINE e == Head(timers)
                   k == IF e = t THEN 1 ELSE 0
        <3>1. timers # << >> /\ timers' = Tail(timers) /\ queue' = Append(queue, e)
            BY <2>2 DEF DealDue
        <3>2. e \in Tasks /\ Tail(timers) \in Seq(Tasks)
            BY <1>1, <3>1, HeadTailProperties
        <3>3. Count(queue', t) = Count(queue, t) + k
            BY <1>1, <3>1, <3>2, CountAppend
        <3>4. Count(timers, t) = Count(timers', t) + k BY <1>1, <3>1, CountTail
        <3>5. Count(timers', t) \in Nat BY <3>1, <3>2, CountPlaces
        <3>6. k \in Nat OBVIOUS
        <3> HIDE DEF e, k
        <3>. QED BY <1>1, <3>3, <3>4, <3>5, <3>6 DEF Waiting
    <2>3. CASE Tick BY <2>3 DEF Tick, Waiting
    <2>. QED BY <2>1, <2>2, <2>3
<1>. QED BY <1>2

(* So they keep the order.                                                 *)
LEMMA ClockDeals ==
    ASSUME IInv, DealsInv, Running, ProceedDue \/ DealDue \/ Tick
    PROVE  DealsInv' /\ Redeals
<1>1. poker \in Table BY WaitingTypes
<1>2. joined' = joined /\ poker' \in Table /\ Goes(poker, poker')
    <2>1. IInv' BY ClockInv
    <2>2. poker' \in Table BY <2>1 DEF IInv, TypeOK
    <2>3. poker' = poker \/ poker' = [poker EXCEPT !.overdue = TRUE]
        BY DEF ProceedDue, DealDue, Tick
    <2>4. Goes(poker, poker') BY <1>1, <2>3 DEF Goes, Table
    <2>. QED BY <2>2, <2>4 DEF ProceedDue, DealDue, Tick
<1>3. \A t \in DealTasks : Count(queue', t) + Count(timers', t) = Waiting(t) BY ClockCounts
<1>. QED BY <1>2, <1>3, GoesDeals

-------------------------------------------------------------------------------

(* A session starts without a deal, a client or a player.                  *)
LEMMA InitDeals == Init => DealsInv
<1>1. SUFFICES ASSUME Init PROVE DealsInv
    OBVIOUS
<1>2. /\ queue = <<"proceed">> /\ timers = << >> /\ joined = {}
      /\ poker.state = CREATED /\ poker.players = << >> /\ poker.left = {}
    BY <1>1 DEF Init, NewTable
<1>3. Staying(poker) = {} /\ Listed(poker) = {} BY <1>2 DEF Staying, Listed
<1>4. \A t \in DealTasks : Waiting(t) = 0
    <2>1. ASSUME NEW t \in DealTasks PROVE Count(<<"proceed">>, t) = 0
        <3>1. {i \in DOMAIN <<"proceed">> : <<"proceed">>[i] = t} = {} BY DEF DealTasks
        <3>. QED BY <3>1, FS_EmptySet DEF Count
    <2>2. ASSUME NEW t \in DealTasks PROVE Count(<< >>, t) = 0
        <3>1. {i \in DOMAIN << >> : << >>[i] = t} = {} OBVIOUS
        <3>. QED BY <3>1, FS_EmptySet DEF Count
    <2>. QED BY <1>2, <2>1, <2>2 DEF Waiting
<1>5. /\ CREATED <= STARTING /\ CREATED # W4P /\ CREATED \notin PREFLOP .. RIVER
    BY DEF CREATED, STARTING, W4P, PREFLOP, RIVER
<1>6. /\ Waiting("start") = 0 /\ Waiting("forgotten") = 0 /\ Waiting("restart") = 0
    BY <1>4 DEF DealTasks
<1>. QED BY <1>2, <1>3, <1>5, <1>6, FS_EmptySet DEF DealsInv, InOrder, InHand

(* Every step keeps the deals in order and redeals only where it may.      *)
LEMMA NextDeals ==
    ASSUME IInv, Drivers <= 1, DealsInv, [Next]_vars
    PROVE  DealsInv' /\ (UNCHANGED vars \/ Redeals)
<1>1. CASE UNCHANGED vars
    BY <1>1 DEF vars, DealsInv, InOrder, Waiting, Count, Staying, Listed, InHand
<1>2. CASE Next
    <2>1. Running BY <1>2 DEF Next
    <2>2. CASE ClientStep
        BY <2>1, <2>2, JoinDeals, UnjoinDeals, ActionDeals DEF ClientStep
    <2>3. CASE TaskStep
        BY <2>1, <2>3, FinishDeals, ReflectDeals, ProceedDeals, StartDeals, RestartDeals
        DEF TaskStep, Deals
    <2>4. CASE ProceedDue \/ DealDue \/ Tick BY <2>1, <2>4, ClockDeals
    <2>. QED BY <1>2, <2>2, <2>3, <2>4 DEF Next
<1>. QED BY <1>1, <1>2

(* Whatever the clients send and in whatever order the tasks run, a hand   *)
(* in play has a deal pending over it only if a start and a restart were   *)
(* pending together when it was dealt, or if a player nobody plays kept    *)
(* the deal from being cancelled (lobby.c:252, 1459 and 1569).             *)
THEOREM RedealsCrossed == Spec => RedealsOnlyWhenCrossed
<1> DEFINE D == Drivers <= 1
           R == Redeals
<1>1. Init => D BY InitDrivers
<1>2. IInv /\ D /\ [Next]_vars => D' BY NextDrivers
<1>3. Init => DealsInv BY InitDeals
<1>4. IInv /\ D /\ DealsInv /\ [Next]_vars => DealsInv' BY NextDeals
<1>5. IInv /\ D /\ DealsInv /\ [Next]_vars => [R]_vars BY NextDeals
<1>6. [][R]_vars => RedealsOnlyWhenCrossed
    BY PTL DEF R, Redeals, RedealsOnlyWhenCrossed
<1> HIDE DEF D, R
<1>. QED BY <1>1, <1>2, <1>3, <1>4, <1>5, <1>6, Invariance, PTL DEF Spec

-------------------------------------------------------------------------------
(* A table for two: the turn can act, and no search is endless.            *)

(* The list of two, sorted by seat, has the same players.                  *)
LEMMA SortedTwo ==
    ASSUME NEW p \in Table, Len(p.players) = 2
    PROVE  /\ Sorted(p) \in Seq(Players)
           /\ {Sorted(p)[i] : i \in DOMAIN Sorted(p)} = Listed(p)
<1> DEFINE Swapped(s, k) ==
               LET i == ((k - 1) \div 2) + 1
                   j == ((k - 1) % 2) + 1
               IN  IF p.position[s[j]] > p.position[s[i]]
                   THEN [s EXCEPT ![i] = s[j], ![j] = s[i]]
                   ELSE s
           Good(s) == /\ s \in [1 .. 2 -> Players]
                      /\ {s[1], s[2]} = Listed(p)
<1>1. Good(p.players)
    <2>1. p.players \in Seq(Players) /\ DOMAIN p.players = 1 .. 2 BY ListedType
    <2>2. p.players \in [1 .. 2 -> Players] BY <2>1, ElementOfSeq
    <2>. QED BY <2>1, <2>2 DEF Listed
<1>2. ASSUME NEW s, Good(s), NEW k \in 1 .. 4 PROVE Good(Swapped(s, k))
    <2>1. ((k - 1) \div 2) + 1 \in {1, 2} /\ ((k - 1) % 2) + 1 \in {1, 2} OBVIOUS
    <2>2. PICK i \in {1, 2}, j \in {1, 2} :
              Swapped(s, k) = IF p.position[s[j]] > p.position[s[i]]
                              THEN [s EXCEPT ![i] = s[j], ![j] = s[i]]
                              ELSE s
        BY <2>1
    <2> HIDE DEF Swapped
    <2>3. CASE i = j BY <1>2, <2>2, <2>3
    <2>4. CASE i # j
        <3>1. (i = 1 /\ j = 2) \/ (i = 2 /\ j = 1) BY <2>4
        <3>. QED BY <1>2, <2>2, <3>1
    <2>. QED BY <2>3, <2>4
<1> HIDE DEF Good
<1> DEFINE s1 == Swapped(p.players, 1)
           s2 == Swapped(s1, 2)
           s3 == Swapped(s2, 3)
           s4 == Swapped(s3, 4)
           Step(f, k) == IF k = 0 THEN p.players ELSE Swapped(f[k - 1], k)
           steps == [k \in 0 .. 4 |-> IF k = 0 THEN p.players ELSE IF k = 1 THEN s1
                                      ELSE IF k = 2 THEN s2 ELSE IF k = 3 THEN s3 ELSE s4]
           pass == CHOOSE f : f = [k \in 0 .. 4 |-> Step(f, k)]
<1>3. Sorted(p) = pass[4]
    <2>1. Len(p.players) * Len(p.players) = 4 BY Len(p.players) = 2
    <2>. QED BY <2>1 DEF Sorted
<1> HIDE DEF Swapped
<1>4. \E f : f = [k \in 0 .. 4 |-> Step(f, k)]
    <2>1. \A k \in 0 .. 4 : k \in {0, 1, 2, 3, 4} OBVIOUS
    <2>2. steps[0] = p.players /\ steps[1] = s1 /\ steps[2] = s2 /\ steps[3] = s3 /\ steps[4] = s4
        OBVIOUS
    <2> HIDE DEF s1, s2, s3, s4
    <2>3. ASSUME NEW k \in 0 .. 4 PROVE steps[k] = Step(steps, k)
        <3> HIDE DEF steps
        <3>. QED BY <2>1, <2>2 DEF s1, s2, s3, s4
    <2>4. DOMAIN steps = 0 .. 4 /\ steps = [k \in 0 .. 4 |-> steps[k]] OBVIOUS
    <2>5. steps = [k \in 0 .. 4 |-> Step(steps, k)]
        <3> HIDE DEF steps, Step
        <3>. QED BY <2>3, <2>4
    <2>. QED BY <2>5
<1>5. pass = [k \in 0 .. 4 |-> Step(pass, k)] BY <1>4
<1> HIDE DEF pass
<1>6. /\ pass[0] = p.players
      /\ \A k \in 1 .. 4 : pass[k] = Swapped(pass[k - 1], k)
    <2>1. \A k \in 0 .. 4 : pass[k] = Step(pass, k) BY <1>5
    <2>. QED BY <2>1
<1>7. Good(pass[4])
    <2>1. /\ pass[1] = Swapped(pass[0], 1) /\ pass[2] = Swapped(pass[1], 2)
          /\ pass[3] = Swapped(pass[2], 3) /\ pass[4] = Swapped(pass[3], 4)
        BY <1>6
    <2>. QED BY <1>1, <1>2, <1>6, <2>1
<1>8. pass[4] \in [1 .. 2 -> Players] /\ {pass[4][1], pass[4][2]} = Listed(p)
    BY <1>7 DEF Good
<1>9. pass[4] \in Seq(Players)
    <2>1. \A n \in Nat : \A f \in [1 .. n -> Players] : f \in Seq(Players) BY SeqDef
    <2>. QED BY <1>8, <2>1, 2 \in Nat
<1>10. DOMAIN pass[4] = {1, 2} BY <1>8
<1>. QED BY <1>3, <1>8, <1>9, <1>10

(* A showdown in which every entry of the ranking contends meets no hole.  *)
LEMMA SettleDefined ==
    ASSUME NEW ranking, NEW contenders, NEW bet, NEW pot \in Int,
           Showdowns(ranking, contenders, bet),
           \A i \in 1 .. Len(ranking) : ranking[i] \in contenders
    PROVE  LET s == Settle(ranking, contenders, bet, pot)
           IN  s.is_defined /\ s.pay \in [DOMAIN bet -> Nat]
<1> DEFINE n == Len(ranking)
<1>1. /\ n \in Nat /\ Cardinality(contenders) \in Nat /\ Cardinality(contenders) <= n
    <2>1. IsFiniteSet(contenders) BY FS_Subset DEF Showdowns
    <2>. QED BY <2>1, FS_CardinalityType, LenProperties DEF Showdowns
<1>2. PICK after : /\ Steps(after, ranking, contenders, bet, pot)
                   /\ \A i \in 0 .. n : Within(after[i], i, ranking, contenders, bet)
    BY SettleSteps
<1> DEFINE Good == {i \in 0 .. n : after[i].is_defined}
<1>3. 0 \in Good BY <1>1, <1>2 DEF Steps, Unpaid
<1>4. ASSUME NEW i \in 1 .. n, i - 1 \in Good PROVE i \in Good
    <2> DEFINE s == after[i - 1]
               r == PayEntry(s, i, ranking, contenders, bet)
               others == {ranking[j] : j \in (i + 1) .. Cardinality(contenders)}
    <2>1. s \in Settlements(DOMAIN bet) /\ s.is_defined BY <1>1, <1>2, <1>4 DEF Within
    <2>2. {ranking[i]} \cup others \subseteq contenders BY <1>1
    <2> HIDE DEF s
    <2>3. r.is_defined BY <2>1, <2>2 DEF PayEntry, Settlements
    <2>4. after[i] \in {s, r} BY <1>2 DEF Steps, Entered, s
    <2>. QED BY <1>4, <2>1, <2>3, <2>4
<1>5. \A i \in 0 .. n : i \in Good
    <2>1. Good \in SUBSET (0 .. n) OBVIOUS
    <2> HIDE DEF Good
    <2>. QED BY <1>1, <1>3, <1>4, <2>1, UpTo
<1>6. n \in 0 .. n /\ Settle(ranking, contenders, bet, pot) = after[n] BY <1>1, <1>2 DEF Steps
<1>7. after[n] \in Settlements(DOMAIN bet) BY <1>2, <1>6 DEF Within
<1>. QED BY <1>5, <1>6, <1>7 DEF Settlements

-------------------------------------------------------------------------------
(* Two at a table, who do not leave, on a seat and an account each.        *)
Pair(p) ==
    /\ Len(p.players) = 2 /\ p.left = {} /\ p.fault = "none"
    /\ OneToASeat(p)
    /\ \A i, j \in DOMAIN p.players :
          i # j => p.account[p.players[i]] # p.account[p.players[j]]

(* o is the other one.                                                     *)
IsOther(p, q, o) ==
    /\ o \in Listed(p) /\ o \in Players /\ o # q /\ Listed(p) = {q, o}
    /\ p.position[o] # p.position[q]
    /\ p.account[o] # p.account[q]

(* The two, seen from one of them.                                         *)
LEMMA PairIs ==
    ASSUME NEW p \in Table, Pair(p), NEW q \in Listed(p)
    PROVE  /\ q \in Players /\ p.position[q] \in Nat /\ p.players # << >>
           /\ Cardinality(Listed(p)) = 2 /\ Cardinality({q}) = 1
           /\ \E o \in Listed(p) : IsOther(p, q, o)
           /\ GetByPosition(p, p.position[q]) = q
<1>1. DOMAIN p.players = 1 .. 2 /\ Listed(p) \subseteq Players BY ListedType DEF Pair
<1>2. Listed(p) = {p.players[1], p.players[2]} BY <1>1 DEF Listed
<1>3. \A x \in Players : p.position[x] \in Nat
    <2>1. p.position \in [Players -> 0 .. MaxPlayers - 1] BY DEF Table
    <2>. QED BY <2>1, TableAssumption
<1>4. /\ p.position[p.players[1]] # p.position[p.players[2]]
      /\ p.account[p.players[1]] # p.account[p.players[2]]
    BY <1>1 DEF Pair, OneToASeat
<1>5. PICK o \in Listed(p) : IsOther(p, q, o)
    <2>1. \E o \in Listed(p) :
             /\ Listed(p) = {q, o} /\ o # q
             /\ p.position[o] # p.position[q] /\ p.account[o] # p.account[q]
        BY <1>2, <1>4
    <2>. QED BY <1>1, <2>1 DEF IsOther
<1>6. Cardinality({q}) = 1 /\ Cardinality(Listed(p)) = 2
    <2>1. Cardinality({q}) = 1 /\ IsFiniteSet({q}) BY FS_Singleton
    <2>2. Cardinality({q} \cup {o}) = Cardinality({q}) + 1 BY <1>5, <2>1, FS_AddElement DEF IsOther
    <2>3. Listed(p) = {q} \cup {o} BY <1>5 DEF IsOther
    <2>. QED BY <2>1, <2>2, <2>3
<1>7. GetByPosition(p, p.position[q]) = q
    <2>1. GetByPosition(p, p.position[q]) # None BY LookupType
    <2>2. /\ GetByPosition(p, p.position[q]) \in Listed(p)
          /\ p.position[GetByPosition(p, p.position[q])] = p.position[q]
        BY <2>1, LookupType
    <2>. QED BY <1>5, <2>2 DEF IsOther
<1>8. p.players # << >> BY ListedType, EmptySeq DEF Pair
<1>. QED BY <1>1, <1>3, <1>5, <1>6, <1>7, <1>8

(* While one of them is able the turn goes to one who is, and to the other *)
(* if both are.                                                            *)
LEMMA NextOfTwo ==
    ASSUME NEW p \in Table, Pair(p), Able(p) # {}
    PROVE  \E x \in Able(p) :
              /\ NextPlayer(p) = [p EXCEPT !.playing_position = p.position[x]]
              /\ p.playing_position \in Seats(p, Listed(p)) /\ Able(p) = Listed(p)
                    => p.playing_position # p.position[x]
<1> DEFINE able == {q \in Able(p) : q = GetByPositionInSorted(p, p.position[q])}
           seats == Seats(p, Able(p))
           seat == SeatFrom(seats, p.playing_position + 1)
<1>1. Able(p) \subseteq Listed(p) /\ Listed(p) \subseteq Players BY ListedType DEF Able
<1>2. able = Able(p)
    <2>1. ASSUME NEW q \in Able(p) PROVE q = GetByPositionInSorted(p, p.position[q])
        <3> DEFINE S == {x \in Players : p.position[x] = p.position[q]}
        <3>1. q \in Listed(p) BY <1>1
        <3>2. PICK o \in Listed(p) : IsOther(p, q, o) BY <3>1, PairIs
        <3>3. S \cap Listed(p) = {q} BY <1>1, <3>1, <3>2 DEF IsOther
        <3>4. /\ Sorted(p) \in Seq(Players)
              /\ {Sorted(p)[i] : i \in DOMAIN Sorted(p)} = Listed(p)
            BY SortedTwo DEF Pair
        <3>5. FirstOf(Sorted(p), S) # None BY <3>3, <3>4, FirstOfType
        <3>6. FirstOf(Sorted(p), S) \in S \cap Listed(p) BY <3>4, <3>5, FirstOfType
        <3>. QED BY <3>3, <3>6 DEF GetByPositionInSorted
    <2>. QED BY <2>1
<1>3. NextPlayer(p) = [p EXCEPT !.playing_position = seat]
    BY <1>2 DEF NextPlayer
<1>4. seats \in SUBSET Nat /\ seats # {} /\ p.playing_position + 1 \in Int
    <2>1. p.playing_position \in Int BY DEF Table
    <2>2. Able(p) \in SUBSET Players BY <1>1
    <2>. QED BY <2>1, <2>2, SeatsType
<1>5. seat \in seats BY <1>4, SeatFromType
<1>6. PICK x \in Able(p) : seat = p.position[x] BY <1>5 DEF Seats
<1>7. ASSUME p.playing_position \in Seats(p, Listed(p)), Able(p) = Listed(p)
      PROVE  p.playing_position # p.position[x]
    <2>1. PICK q \in Listed(p) : p.playing_position = p.position[q] BY <1>7 DEF Seats
    <2>2. PICK o \in Listed(p) : IsOther(p, q, o) BY PairIs
    <2>3. p.position[o] \in seats /\ p.position[q] \in seats BY <1>7 DEF Seats
    <2>4. SeatFrom(seats, p.position[q] + 1) # p.position[q]
        BY <1>4, <2>2, <2>3, NextSeatDiffers DEF IsOther
    <2>. QED BY <1>6, <2>1, <2>4
<1>. QED BY <1>3, <1>6, <1>7

-------------------------------------------------------------------------------
(* The same players, on their seats, and no fault.                         *)
SameSeats(p, r) ==
    /\ r.players = p.players /\ r.account = p.account /\ r.position = p.position
    /\ r.left = p.left /\ r.fault = p.fault

(* What only actions change.                                               *)
Kept(p, r) ==
    /\ SameSeats(p, r)
    /\ r.playing = p.playing /\ r.folded = p.folded
    /\ r.sb_player = p.sb_player /\ r.bb_player = p.bb_player
    /\ r.starter_players_num = p.starter_players_num
    /\ r.bet = p.bet /\ r.current_bet = p.current_bet /\ r.raised = p.raised

(* Two stay two.                                                           *)
LEMMA PairKept ==
    ASSUME NEW p, NEW r, Pair(p), SameSeats(p, r)
    PROVE  Pair(r) /\ Listed(r) = Listed(p)
BY DEF Pair, SameSeats, OneToASeat, Listed

(* What passing the turn on from q makes of the table.                     *)
Turned(p, r, q) ==
    /\ Kept(p, r) /\ r.state = p.state /\ r.balance = p.balance
    /\ r.last_raised_pos = p.last_raised_pos /\ r.is_playing_last = p.is_playing_last
    /\ r.is_sb_must_call = p.is_sb_must_call
    /\ r.allin = IF p.balance[q] = 0 THEN p.allin \cup {q} ELSE p.allin
    /\ Able(r) # {} => \E x \in Able(r) :
          /\ r.playing_position = p.position[x]
          /\ p.playing_position \in Seats(p, Listed(p)) /\ Able(r) = Listed(r)
                => p.playing_position # p.position[x]

(* Passing the turn finds a player if one is able.                         *)
LEMMA TurnedTwo ==
    ASSUME NEW p \in Table, Pair(p), NEW q \in Listed(p)
    PROVE  LET broke == IF p.balance[q] = 0 THEN [p EXCEPT !.allin = @ \cup {q}] ELSE p
               turned == IF Able(broke) = {} THEN broke ELSE NextPlayer(broke)
           IN  turned \in Table /\ Turned(p, turned, q)
<1> DEFINE allin == p.allin \cup {q}
           b == [p EXCEPT !.allin = allin]
           broke == IF p.balance[q] = 0 THEN b ELSE p
           turned == IF Able(broke) = {} THEN broke ELSE NextPlayer(broke)
<1>1. allin \in SUBSET Players BY ListedType DEF Table
<1>2. b \in Table /\ Kept(p, b) /\ b.allin = allin
      /\ b.state = p.state /\ b.balance = p.balance
      /\ b.last_raised_pos = p.last_raised_pos /\ b.is_playing_last = p.is_playing_last
      /\ b.is_sb_must_call = p.is_sb_must_call /\ b.playing_position = p.playing_position
    <2> HIDE DEF allin
    <2>. QED BY <1>1 DEF Table, Kept, SameSeats
<1> HIDE DEF b
<1>3. /\ broke \in Table /\ Kept(p, broke)
      /\ broke.allin = IF p.balance[q] = 0 THEN p.allin \cup {q} ELSE p.allin
      /\ broke.state = p.state /\ broke.balance = p.balance
      /\ broke.last_raised_pos = p.last_raised_pos
      /\ broke.is_playing_last = p.is_playing_last
      /\ broke.is_sb_must_call = p.is_sb_must_call
      /\ broke.playing_position = p.playing_position
    BY <1>2 DEF Kept, SameSeats
<1>4. Pair(broke) /\ Listed(broke) = Listed(p) /\ broke.position = p.position
    BY <1>3, PairKept DEF Kept, SameSeats
<1>5. Seats(broke, Listed(broke)) = Seats(p, Listed(p)) BY <1>4 DEF Seats
<1> HIDE DEF broke
<1>6. CASE Able(broke) = {} BY <1>3, <1>6 DEF Turned, broke, b
<1>7. CASE Able(broke) # {}
    <2>1. PICK x \in Able(broke) :
              /\ NextPlayer(broke) = [broke EXCEPT !.playing_position = broke.position[x]]
              /\ broke.playing_position \in Seats(broke, Listed(broke))
                   /\ Able(broke) = Listed(broke)
                    => broke.playing_position # broke.position[x]
        BY <1>3, <1>4, <1>7, NextOfTwo
    <2> DEFINE seat == broke.position[x]
               r == [broke EXCEPT !.playing_position = seat]
    <2>2. seat \in Int BY <1>3, <2>1, ListedType, FieldTypes DEF Able
    <2>3. seat = p.position[x] BY <1>4
    <2>4. turned = r BY <1>7, <2>1
    <2> HIDE DEF seat
    <2>5. /\ r \in Table /\ Kept(broke, r) /\ r.allin = broke.allin
          /\ r.state = broke.state /\ r.balance = broke.balance
          /\ r.last_raised_pos = broke.last_raised_pos
          /\ r.is_playing_last = broke.is_playing_last
          /\ r.is_sb_must_call = broke.is_sb_must_call /\ r.playing_position = seat
        BY <1>3, <2>2 DEF Table, Kept, SameSeats
    <2> HIDE DEF r
    <2>6. Able(r) = Able(broke) /\ Listed(r) = Listed(broke) /\ Kept(p, r)
        BY <1>3, <2>5 DEF Able, Listed, Kept, SameSeats
    <2>7. /\ r.playing_position = p.position[x] /\ x \in Able(r)
          /\ p.playing_position \in Seats(p, Listed(p)) /\ Able(r) = Listed(r)
                => p.playing_position # p.position[x]
        BY <1>3, <1>4, <1>5, <2>1, <2>3, <2>5, <2>6
    <2>. QED BY <1>3, <2>4, <2>5, <2>6, <2>7 DEF Turned, broke, b
<1>. QED BY <1>6, <1>7 DEF broke, b

(* Closing a street for q's action, or not: when it does, either nobody    *)
(* raised or q has the last position.                                      *)
StreetGoesOn(p, s) ==
    /\ s.state = p.state /\ s.last_raised_pos = p.last_raised_pos
    /\ s.playing_position = p.playing_position

StreetCloses(p, s, q, kind) ==
    /\ InHand(p) /\ kind \in {"CHECK", "FOLD"}
    /\ p.last_raised_pos = -1 \/ p.position[q] = LastPlayingPosition(p)
    /\ s.state = p.state + 1 /\ s.last_raised_pos = -1
    /\ s.playing_position = IF p.starter_players_num = 2 THEN p.position[p.bb_player]
                            ELSE p.playing_position

LEMMA CloseTwo ==
    ASSUME NEW p \in Table, NEW q, NEW kind, InHand(p) => p.bb_player \in Players
    PROVE  LET s == CloseStreet(p, q, kind)
           IN  /\ s \in Table /\ Kept(p, s) /\ s.balance = p.balance /\ s.allin = p.allin
               /\ s.is_playing_last = p.is_playing_last
               /\ s.is_sb_must_call = p.is_sb_must_call
               /\ StreetGoesOn(p, s) \/ StreetCloses(p, s, q, kind)
<1> DEFINE counter == p.synced_action_counter + 1
           counted == [p EXCEPT !.synced_action_counter = counter]
           c == IF kind = "CHECK" \/ (kind = "FOLD" /\ p.state \in {FLOP, TURN})
                THEN counted ELSE p
           s == CloseStreet(p, q, kind)
           Same(t) == /\ Kept(p, t) /\ t.balance = p.balance /\ t.allin = p.allin
                      /\ t.is_playing_last = p.is_playing_last
                      /\ t.is_sb_must_call = p.is_sb_must_call
<1>1. s \in Table BY CloseStreetType
<1>2. Same(counted) /\ StreetGoesOn(p, counted) /\ counted.synced_action_counter = counter
    <2> HIDE DEF counter
    <2>. QED BY DEF Table, Kept, SameSeats, StreetGoesOn
<1>3. Same(p) /\ StreetGoesOn(p, p) BY DEF Kept, SameSeats, StreetGoesOn
<1> HIDE DEF counted
<1>4. Same(c) /\ StreetGoesOn(p, c) BY <1>2, <1>3
<1>5. \/ s \in {p, c}
      \/ InHand(p) /\ kind \in {"CHECK", "FOLD"} /\ IsLastToAct(c, q) /\ s = NextStreet(c)
    BY DEF CloseStreet, counted
<1> HIDE DEF c, s
<1>6. CASE s \in {p, c} BY <1>1, <1>3, <1>4, <1>6 DEF s
<1>7. CASE InHand(p) /\ kind \in {"CHECK", "FOLD"} /\ IsLastToAct(c, q) /\ s = NextStreet(c)
    <2>1. /\ Listed(c) = Listed(p) /\ Able(c) = Able(p) /\ c.left = p.left /\ c.bet = p.bet
          /\ c.current_bet = p.current_bet /\ c.last_raised_pos = p.last_raised_pos
          /\ c.position = p.position
        BY <1>4 DEF Able, Listed, Kept, SameSeats, StreetGoesOn
    <2>2. LastPlayingPosition(c) = LastPlayingPosition(p)
        BY <2>1 DEF LastPlayingPosition, Seats
    <2>3. p.last_raised_pos = -1 \/ p.position[q] = LastPlayingPosition(p)
        BY <1>7, <2>1, <2>2 DEF IsLastToAct
    <2>4. c \in Table
        <3>1. counter \in Nat BY DEF Table
        <3> HIDE DEF counter
        <3>. QED BY <3>1 DEF c, counted, Table
    <2> DEFINE state == c.state + 1
               seat == IF c.starter_players_num = 2 THEN c.position[c.bb_player]
                       ELSE c.playing_position
               none == 0
               nobody == -1
               r == [c EXCEPT !.state = state, !.synced_action_counter = none,
                              !.last_raised_pos = nobody, !.playing_position = seat]
    <2>5. s = r BY <1>7 DEF NextStreet
    <2> HIDE DEF state, seat, none, nobody
    <2>6. /\ Kept(c, r) /\ r.balance = c.balance /\ r.allin = c.allin
          /\ r.is_playing_last = c.is_playing_last
          /\ r.is_sb_must_call = c.is_sb_must_call
          /\ r.state = state /\ r.last_raised_pos = nobody /\ r.playing_position = seat
        BY <2>4 DEF Table, Kept, SameSeats
    <2> HIDE DEF r
    <2>7. Same(s) BY <1>4, <2>5, <2>6 DEF Kept, SameSeats
    <2>8. /\ state = p.state + 1 /\ nobody = -1
          /\ seat = IF p.starter_players_num = 2 THEN p.position[p.bb_player]
                    ELSE p.playing_position
        BY <1>4 DEF state, nobody, seat, Kept, SameSeats, StreetGoesOn
    <2>9. StreetCloses(p, s, q, kind) BY <1>7, <2>3, <2>5, <2>6, <2>8 DEF StreetCloses
    <2>. QED BY <1>1, <2>7, <2>9 DEF s
<1>. QED BY <1>5, <1>6, <1>7

(* A showdown of two who did not fold is defined.                          *)
LEMMA ShowDownTwo ==
    ASSUME NEW p \in Table, Pair(p), NEW ranking \in Rankings(p),
           Listed(p) \subseteq p.playing \ p.folded
    PROVE  /\ SameSeats(p, ShowDown(p, ranking))
           /\ ShowDown(p, ranking).state = DONE
<1> DEFINE done == DONE
           d == [p EXCEPT !.state = done]
           contenders == InGame(d) \ d.left
           s == Settle(ranking, contenders, d.bet, d.pot_amount)
           first == ranking[1]
           balance == [q \in Players |-> Plus(d.balance[q], s.pay[q])]
           paid == [d EXCEPT !.balance = balance, !.winner = first]
<1>1. d \in Table /\ SameSeats(p, d) /\ d.state = DONE /\ Listed(d) = Listed(p)
      /\ d.playing = p.playing /\ d.folded = p.folded
    <2>1. done \in CREATED .. DONE BY DEF CREATED, DONE
    <2>2. done = DONE OBVIOUS
    <2> HIDE DEF done
    <2>. QED BY <2>1, <2>2 DEF Table, SameSeats, Listed
<1>2. ShowDown(p, ranking) = IF s.is_defined /\ s.pay \in [Players -> Nat] THEN paid
                             ELSE Fails(d, "undefined")
    BY DEF ShowDown, PayWinners
<1> HIDE DEF d
<1>3. d.left = {} BY <1>1 DEF Pair, SameSeats
<1>4. contenders = Listed(p) BY <1>1, <1>3 DEF InGame
<1>5. ranking \in Rankings(d) BY <1>1 DEF Rankings, SameSeats
<1>6. Showdowns(ranking, contenders, d.bet) BY <1>1, <1>5, TableShowdown
<1>7. \A i \in 1 .. Len(ranking) : ranking[i] \in contenders
    <2>1. ranking \in [DOMAIN p.players -> Listed(p)] BY DEF Rankings
    <2>2. DOMAIN p.players = 1 .. Len(p.players) /\ Len(p.players) \in Nat BY ListedType
    <2>3. ranking \in Seq(Listed(p)) BY <2>1, <2>2, SeqDef
    <2>. QED BY <1>4, <2>1, <2>3, LenProperties
<1>8. d.pot_amount \in Int /\ DOMAIN d.bet = Players
    <2>1. d.pot_amount \in Int BY <1>1, FieldTypes
    <2>. QED BY <1>1, <2>1 DEF Table
<1> HIDE DEF contenders
<1>9. s.is_defined /\ s.pay \in [Players -> Nat] BY <1>6, <1>7, <1>8, SettleDefined
<1>10. ShowDown(p, ranking) = paid BY <1>2, <1>9
<1> HIDE DEF s, first, balance
<1>11. SameSeats(d, paid) /\ paid.state = d.state BY <1>1 DEF Table, SameSeats
<1>. QED BY <1>1, <1>10, <1>11 DEF SameSeats

(* A win by fold ends the hand without a fault.                            *)
LEMMA WinByFoldTwo ==
    ASSUME NEW p \in Table
    PROVE  SameSeats(p, WinByFold(p)) /\ WinByFold(p).state = DONE
<1> DEFINE winner == FirstOf(p.players, p.playing \ p.folded)
           balance == [p.balance EXCEPT ![winner] = Plus(p.balance[winner], p.pot_amount)]
           r == [p EXCEPT !.winner = winner, !.state = DONE, !.balance = balance]
<1>1. WinByFold(p) = r BY DEF WinByFold
<1> HIDE DEF winner, balance
<1>2. SameSeats(p, r) /\ r.state = DONE BY DEF Table, SameSeats
<1>. QED BY <1>1, <1>2

-------------------------------------------------------------------------------
(* All that TwoHanded speaks of is the same.                               *)
Alike(p, r) ==
    /\ Kept(p, r) /\ r.state = p.state /\ r.balance = p.balance /\ r.allin = p.allin
    /\ r.last_raised_pos = p.last_raised_pos /\ r.playing_position = p.playing_position
    /\ r.is_playing_last = p.is_playing_last /\ r.is_sb_must_call = p.is_sb_must_call

(* The big blind who has the last word owes nothing.                       *)
Square(p) ==
    \/ p.last_raised_pos = p.position[p.bb_player]
    \/ p.last_raised_pos = -1 /\ p.state \in p.raised
    => p.bet[p.bb_player] = p.current_bet

(* A hand of two in play: the turn is with one who is able; if one is not, *)
(* the next action accepted ends the hand; and Square, for the next street *)
(* begins with the big blind whether he is able or not (poker.c:632).      *)
TwoHanded(p) ==
    /\ InHand(p)
    /\ p.sb_player \in Listed(p) /\ p.bb_player \in Listed(p) /\ p.sb_player # p.bb_player
    /\ Listed(p) \subseteq p.playing \ p.folded
    /\ GetByPosition(p, p.playing_position) \in Able(p)
    /\ \A q \in Able(p) : p.balance[q] > 0
    /\ Able(p) = Listed(p) \/ p.is_playing_last
    /\ p.raised \subseteq PREFLOP .. p.state
    /\ Square(p)

(* A hand of two is one by these fields only.                             *)
LEMMA TwoHandedAlike ==
    ASSUME NEW p, NEW r, Alike(p, r), TwoHanded(p)
    PROVE  TwoHanded(r)
BY DEF Alike, Kept, SameSeats, TwoHanded, Square, InHand, Listed, Able, GetByPosition

(* The table once the action of q is done and before it is followed up.    *)
Moved(p, q, kind) ==
    /\ InHand(p)
    /\ p.sb_player \in Listed(p) /\ p.bb_player \in Listed(p) /\ p.sb_player # p.bb_player
    /\ Listed(p) \subseteq p.playing
    /\ Listed(p) \cap p.folded = IF kind = "FOLD" THEN {q} ELSE {}
    /\ \A x \in Able(p) \ {q} : p.balance[x] > 0
    /\ Able(p) \cup {q} = Listed(p) \/ p.is_playing_last
    /\ p.raised \subseteq PREFLOP .. p.state
    /\ Square(p)
    /\ q = p.bb_player /\ kind = "CHECK" /\ (q \in p.allin \/ p.balance[q] = 0)
          => p.last_raised_pos # -1 /\ p.last_raised_pos # p.position[q]

(* The last position is the raiser's, nobody's or that of one who is able. *)
LEMMA LastPosition ==
    ASSUME NEW p \in Table
    PROVE  LastPlayingPosition(p) \in {p.last_raised_pos, -1} \cup Seats(p, Able(p))
<1> DEFINE able == Able(p) \ p.left
           owing == {x \in able : p.bet[x] < p.current_bet}
<1>1. owing \in SUBSET Players /\ owing \subseteq Able(p) BY ListedType DEF Able
<1>2. /\ Seats(p, owing) \in SUBSET (0 .. MaxPlayers - 1)
      /\ owing # {} => Seats(p, owing) # {}
    BY <1>1, SeatsType
<1>3. MaxPlayers - 1 \in Nat BY TableAssumption
<1>4. owing # {} => Max(Seats(p, owing)) \in Seats(p, owing) BY <1>2, <1>3, HighestIs
<1>5. Seats(p, owing) \subseteq Seats(p, Able(p)) BY <1>1 DEF Seats
<1>6. LastPlayingPosition(p) \in
         {p.last_raised_pos, -1} \cup (IF owing = {} THEN {} ELSE {Max(Seats(p, owing))})
    BY DEF LastPlayingPosition
<1> HIDE DEF owing
<1>. QED BY <1>4, <1>5, <1>6

(* The big blind is able where a check of his, or of the other, closes a   *)
(* street: he who goes all-in with a check had not the last word.          *)
LEMMA BlindAble ==
    ASSUME NEW p \in Table, Pair(p), NEW q \in Listed(p), NEW kind, Moved(p, q, kind),
           NEW t \in Table, Turned(p, t, q), NEW s, StreetCloses(t, s, q, kind),
           kind # "FOLD", ~t.is_playing_last
    PROVE  p.bb_player \in Able(t)
<1> DEFINE bb == p.bb_player
<1>1. /\ Kept(p, t) /\ Listed(t) = Listed(p) /\ t.position = p.position
      /\ t.last_raised_pos = p.last_raised_pos /\ ~p.is_playing_last
    BY PairKept DEF Turned, Kept, SameSeats
<1>2. bb \in Listed(p) /\ Able(p) \cup {q} = Listed(p) /\ kind = "CHECK"
      /\ Listed(p) \subseteq p.playing \ p.folded
    BY <1>1 DEF Moved, StreetCloses
<1>3. SUFFICES ASSUME bb \notin Able(t) PROVE FALSE
    OBVIOUS
<1>4. bb \in t.allin BY <1>1, <1>2, <1>3 DEF Able, Kept
<1>5. t.allin = IF p.balance[q] = 0 THEN p.allin \cup {q} ELSE p.allin BY DEF Turned
<1>6. q = bb
    <2>1. bb # q => bb \in Able(p) BY <1>2
    <2>. QED BY <1>4, <1>5, <2>1 DEF Able
<1>7. q \in p.allin \/ p.balance[q] = 0 BY <1>4, <1>5, <1>6
<1>8. p.last_raised_pos # -1 /\ p.last_raised_pos # p.position[q]
    BY <1>2, <1>6, <1>7 DEF Moved
<1>9. p.position[q] = LastPlayingPosition(t) BY <1>1, <1>8 DEF StreetCloses
<1>10. PICK o \in Listed(p) : IsOther(p, q, o) BY PairIs
<1>11. p.position[q] \notin Seats(t, Able(t))
    <2>1. Able(t) \subseteq {o} BY <1>1, <1>3, <1>6, <1>10 DEF Able, IsOther
    <2>. QED BY <1>1, <1>10, <2>1 DEF Seats, IsOther
<1>12. p.position[q] \in Nat BY PairIs
<1>. QED BY <1>1, <1>8, <1>9, <1>11, <1>12, LastPosition

(* What follows the turn when nobody folded: the hand is over or goes on.  *)
LEMMA GoesOnTwo ==
    ASSUME NEW p \in Table, Pair(p), NEW q \in Listed(p), NEW kind, Moved(p, q, kind),
           kind # "FOLD", NEW t \in Table, Turned(p, t, q), Able(t) # {},
           NEW s \in Table, Kept(t, s), s.balance = t.balance, s.allin = t.allin,
           ~s.is_playing_last, ~t.is_playing_last, s.state # DONE,
           s.is_sb_must_call = t.is_sb_must_call,
           StreetGoesOn(t, s) \/ StreetCloses(t, s, q, kind)
    PROVE  LET w == [s EXCEPT !.is_playing_last = @ \/ Cardinality(Able(t)) = 1]
           IN  TwoHanded(w)
<1> DEFINE last == s.is_playing_last \/ Cardinality(Able(t)) = 1
           w == [s EXCEPT !.is_playing_last = last]
<1>1. /\ w \in Table /\ Kept(s, w) /\ w.balance = s.balance /\ w.allin = s.allin
      /\ w.is_playing_last = last /\ w.state = s.state
      /\ w.last_raised_pos = s.last_raised_pos /\ w.playing_position = s.playing_position
    <2>1. last \in BOOLEAN BY DEF Table
    <2> HIDE DEF last
    <2>. QED BY <2>1 DEF Table, Kept, SameSeats
<1>2. Kept(p, t) /\ Kept(t, w) BY <1>1 DEF Kept, SameSeats, Turned
<1>3. /\ Pair(w) /\ Listed(w) = Listed(p) /\ Able(w) = Able(t)
      /\ w.position = p.position /\ w.bb_player = p.bb_player /\ w.sb_player = p.sb_player
      /\ w.playing = p.playing /\ w.folded = p.folded
      /\ w.bet = p.bet /\ w.current_bet = p.current_bet /\ w.raised = p.raised
    <2>1. Kept(p, w) BY <1>2 DEF Kept, SameSeats
    <2>2. Pair(w) /\ Listed(w) = Listed(p) BY <2>1, PairKept DEF Kept
    <2>3. Able(w) = Able(t) BY <1>1, <1>2 DEF Kept, SameSeats, Able, Listed
    <2>. QED BY <2>1, <2>2, <2>3 DEF Kept, SameSeats
<1>4. /\ t.state = p.state /\ t.last_raised_pos = p.last_raised_pos
      /\ w.balance = p.balance
      /\ t.allin = IF p.balance[q] = 0 THEN p.allin \cup {q} ELSE p.allin
    BY <1>1 DEF Turned
<1>5. Listed(p) \subseteq p.playing \ p.folded BY DEF Moved
<1> HIDE DEF w
<1>6. InHand(w) /\ p.raised \subseteq PREFLOP .. w.state
    <2>1. p.state \in PREFLOP .. RIVER /\ p.raised \subseteq PREFLOP .. p.state
        BY DEF Moved, InHand
    <2>2. w.state \in {p.state, p.state + 1} /\ w.state # DONE
        BY <1>1, <1>4 DEF StreetGoesOn, StreetCloses
    <2>. QED BY <2>1, <2>2 DEF InHand, PREFLOP, RIVER, DONE
<1>7. \A x \in Able(w) : w.balance[x] > 0
    <2>1. ASSUME NEW x \in Able(t) PROVE p.balance[x] > 0
        <3>1. x \in Able(p) /\ (x = q => p.balance[q] # 0)
            BY <1>2, <1>4, <2>1 DEF Able, Kept, SameSeats, Listed
        <3>2. CASE x = q
            <4>1. p.balance[q] \in Chips BY FieldTypes, PairIs
            <4>. QED BY <3>1, <3>2, <4>1, ChipFacts DEF Chips
        <3>3. CASE x # q BY <3>1, <3>3 DEF Moved
        <3>. QED BY <3>2, <3>3
    <2>. QED BY <1>3, <1>4, <2>1
<1>8. Able(w) = Listed(w) \/ w.is_playing_last
    <2>1. PICK o \in Listed(p) : IsOther(p, q, o) BY PairIs
    <2>2. Able(t) \subseteq {q, o} BY <1>3, <2>1 DEF Able, IsOther
    <2>3. Able(t) \in {{q}, {o}, {q, o}} BY <2>2
    <2>4. Cardinality({q}) = 1 /\ Cardinality({o}) = 1 BY FS_Singleton
    <2>. QED BY <1>1, <1>3, <2>1, <2>3, <2>4 DEF IsOther
<1>9. GetByPosition(w, w.playing_position) \in Able(w)
    <2>1. \E x \in Able(t) : w.playing_position = p.position[x]
        <3>1. CASE StreetGoesOn(t, s) BY <1>1, <3>1 DEF StreetGoesOn, Turned
        <3>2. CASE StreetCloses(t, s, q, kind)
            <4>1. p.bb_player \in Able(t) BY <3>2, BlindAble
            <4>2. t.position = p.position /\ t.bb_player = p.bb_player
                BY <1>2 DEF Kept, SameSeats
            <4>3. w.playing_position \in {p.position[p.bb_player], t.playing_position}
                BY <1>1, <3>2, <4>2 DEF StreetCloses
            <4>. QED BY <4>1, <4>3 DEF Turned
        <3>. QED BY <3>1, <3>2
    <2>2. PICK x \in Able(t) : w.playing_position = p.position[x] BY <2>1
    <2>3. x \in Listed(w) BY <1>3 DEF Able
    <2>4. GetByPosition(w, w.position[x]) = x BY <1>1, <1>3, <2>3, PairIs
    <2>. QED BY <1>3, <2>2, <2>4
<1>10. Square(w)
    <2>1. CASE StreetGoesOn(t, s)
        BY <1>1, <1>3, <1>4, <2>1 DEF Square, StreetGoesOn, Moved
    <2>2. CASE StreetCloses(t, s, q, kind)
        <3>1. w.last_raised_pos = -1 /\ w.state = p.state + 1
            BY <1>1, <1>4, <2>2 DEF StreetCloses
        <3>2. p.state \in Int BY FieldTypes DEF CREATED, DONE
        <3>3. p.state + 1 \notin p.raised BY <3>2 DEF Moved, PREFLOP
        <3>4. p.position[p.bb_player] \in Nat BY PairIs DEF Moved
        <3>. QED BY <1>3, <3>1, <3>3, <3>4 DEF Square
    <2>. QED BY <2>1, <2>2
<1>11. TwoHanded(w) BY <1>3, <1>5, <1>6, <1>7, <1>8, <1>9, <1>10 DEF TwoHanded, Moved
<1>. QED BY <1>11 DEF w

(* What follows an accepted action of one of two: the hand is over, or     *)
(* goes on.                                                                *)
LEMMA AcceptedTwo ==
    ASSUME NEW p \in Table, Pair(p), NEW q \in Listed(p), NEW kind, Moved(p, q, kind),
           NEW ranking \in Rankings(p)
    PROVE  LET r == Accepted(p, q, kind, ranking)
           IN  SameSeats(p, r) /\ (r.state = DONE \/ TwoHanded(r))
<1> DEFINE broke == IF p.balance[q] = 0 THEN [p EXCEPT !.allin = @ \cup {q}] ELSE p
           t == IF Able(broke) = {} THEN broke ELSE NextPlayer(broke)
           f == Finish(t, q, kind, ranking)
           count == f.reflections + 1
           r == [f EXCEPT !.overdue = FALSE, !.reflections = count]
           s == CloseStreet(t, q, kind)
           w == [s EXCEPT !.is_playing_last = @ \/ Cardinality(Able(t)) = 1]
<1>1. t \in Table /\ Turned(p, t, q) BY TurnedTwo
<1>2. Accepted(p, q, kind, ranking) = IF t.fault # "none" THEN t ELSE r
    BY DEF Accepted
<1>3. f = IF kind = "FOLD" /\ InHand(t) /\ Cardinality(InGame(t)) = 1 THEN WinByFold(t)
          ELSE IF s.state = DONE \/ s.is_playing_last \/ Able(t) = {}
               THEN ShowDown(s, ranking) ELSE w
    BY DEF Finish
<1> HIDE DEF t
<1>4. Kept(p, t) /\ t.fault = "none" /\ Pair(t) /\ Listed(t) = Listed(p)
    <2>1. Kept(p, t) BY <1>1 DEF Turned
    <2>. QED BY <2>1, PairKept DEF Kept, SameSeats, Pair
<1>5. t.bb_player \in Players /\ ranking \in Rankings(t) /\ t.players # << >>
    <2>1. t.bb_player \in Listed(t) BY <1>4 DEF Moved, Kept
    <2>2. ranking \in Rankings(t) BY <1>4 DEF Rankings, Kept, SameSeats
    <2>. QED BY <1>1, <1>4, <2>1, <2>2, PairIs
<1>6. f \in Table BY <1>1, <1>5, FinishType
<1>7. /\ s \in Table /\ Kept(t, s) /\ s.balance = t.balance /\ s.allin = t.allin
      /\ s.is_playing_last = t.is_playing_last /\ s.is_sb_must_call = t.is_sb_must_call
      /\ StreetGoesOn(t, s) \/ StreetCloses(t, s, q, kind)
    BY <1>1, <1>5, CloseTwo
<1>8. SameSeats(p, f) /\ (f.state = DONE \/ TwoHanded(f))
    <2>1. CASE kind = "FOLD"
        <3>1. PICK o \in Listed(p) : IsOther(p, q, o) BY PairIs
        <3>2. InGame(t) = {o}
            BY <1>4, <2>1, <3>1 DEF InGame, IsOther, Moved, Kept
        <3>3. InHand(t) BY <1>1 DEF InHand, Turned, Moved
        <3>4. f = WinByFold(t) BY <1>3, <2>1, <3>2, <3>3, FS_Singleton
        <3>5. SameSeats(t, f) /\ f.state = DONE BY <1>1, <3>4, WinByFoldTwo
        <3>. QED BY <1>4, <3>5 DEF Kept, SameSeats
    <2>2. CASE kind # "FOLD"
        <3>1. CASE s.state = DONE \/ s.is_playing_last \/ Able(t) = {}
            <4>1. f = ShowDown(s, ranking) BY <1>3, <2>2, <3>1
            <4>2. /\ Kept(p, s) /\ Pair(s) /\ Listed(s) = Listed(p)
                  /\ ranking \in Rankings(s)
                <5>1. Kept(p, s) BY <1>4, <1>7 DEF Kept, SameSeats
                <5>2. Pair(s) /\ Listed(s) = Listed(p) BY <5>1, PairKept DEF Kept
                <5>3. ranking \in Rankings(s) BY <5>1, <5>2 DEF Rankings, Kept, SameSeats
                <5>. QED BY <5>1, <5>2, <5>3
            <4>3. Listed(s) \subseteq s.playing \ s.folded
                BY <2>2, <4>2 DEF Moved, Kept
            <4>4. SameSeats(s, f) /\ f.state = DONE
                BY <1>7, <4>1, <4>2, <4>3, ShowDownTwo
            <4>. QED BY <4>2, <4>4 DEF Kept, SameSeats
        <3>2. CASE ~(s.state = DONE \/ s.is_playing_last \/ Able(t) = {})
            <4>1. f = w BY <1>3, <2>2, <3>2
            <4>2. TwoHanded(w) BY <1>1, <1>7, <2>2, <3>2, GoesOnTwo
            <4>3. SameSeats(s, w)
                <5> DEFINE last == s.is_playing_last \/ Cardinality(Able(t)) = 1
                <5>1. w = [s EXCEPT !.is_playing_last = last] OBVIOUS
                <5> HIDE DEF last, s, w
                <5>. QED BY <1>7, <5>1 DEF Table, SameSeats
            <4>. QED BY <1>4, <1>7, <4>1, <4>2, <4>3 DEF Kept, SameSeats
        <3>. QED BY <3>1, <3>2
    <2>. QED BY <2>1, <2>2
<1> HIDE DEF f, count
<1>9. Alike(f, r) BY <1>6 DEF Table, Alike, Kept, SameSeats
<1>10. SameSeats(p, r) /\ (r.state = DONE \/ TwoHanded(r))
    BY <1>8, <1>9, TwoHandedAlike DEF Alike, Kept, SameSeats
<1>. QED BY <1>2, <1>4, <1>10

-------------------------------------------------------------------------------
(* What an action of q leaves alone.                                       *)
Touched(p, r, q) ==
    /\ SameSeats(p, r) /\ r.playing = p.playing
    /\ r.sb_player = p.sb_player /\ r.bb_player = p.bb_player /\ r.state = p.state
    /\ r.is_playing_last = p.is_playing_last /\ r.playing_position = p.playing_position
    /\ p.allin \subseteq r.allin /\ r.allin \subseteq p.allin \cup {q}
    /\ \A o \in Players \ {q} : r.balance[o] = p.balance[o] /\ r.bet[o] = p.bet[o]

(* What an action has to show for the hand to go on in order.              *)
LEMMA MovedBy ==
    ASSUME NEW p \in Table, Pair(p), TwoHanded(p), NEW q \in Listed(p), NEW kind,
           NEW r, Touched(p, r, q), Square(r),
           r.folded = IF kind = "FOLD" THEN p.folded \cup {q} ELSE p.folded,
           r.raised \subseteq PREFLOP .. r.state,
           q = p.bb_player /\ kind = "CHECK" /\ (q \in r.allin \/ r.balance[q] = 0)
               => r.last_raised_pos # -1 /\ r.last_raised_pos # r.position[q]
    PROVE  Moved(r, q, kind) /\ Pair(r) /\ SameSeats(p, r)
<1>1. Pair(r) /\ Listed(r) = Listed(p) BY PairKept DEF Touched
<1>2. Listed(p) \subseteq p.playing \ p.folded /\ Listed(p) \subseteq Players
    BY ListedType DEF TwoHanded
<1>3. Able(r) \ {q} \subseteq Able(p)
    BY <1>1 DEF Able, Touched, TwoHanded
<1>4. \A x \in Able(r) \ {q} : r.balance[x] > 0
    <2>1. Able(p) \subseteq Players BY <1>2 DEF Able
    <2>. QED BY <1>3, <2>1 DEF Touched, TwoHanded
<1>5. Able(r) \cup {q} = Listed(r) \/ r.is_playing_last
    <2>1. CASE p.is_playing_last BY <2>1 DEF Touched
    <2>2. CASE Able(p) = Listed(p)
        BY <1>1, <1>2, <2>2 DEF Able, Touched
    <2>. QED BY <2>1, <2>2 DEF TwoHanded
<1>6. Listed(r) \cap r.folded = IF kind = "FOLD" THEN {q} ELSE {} BY <1>1, <1>2
<1>7. InHand(r) BY DEF Touched, TwoHanded, InHand
<1>8. SameSeats(p, r) BY DEF Touched
<1>. QED BY <1>1, <1>2, <1>4, <1>5, <1>6, <1>7, <1>8 DEF Moved, Touched, TwoHanded

(* A payment the balance covers.                                           *)
LEMMA PaysTwo ==
    ASSUME NEW p \in Table, NEW q \in Players, NEW amount \in Chips, amount <= p.balance[q]
    PROVE  LET r == Pays(p, q, amount)
           IN  /\ r \in Table /\ Touched(p, r, q)
               /\ r.bet[q] = Plus(p.bet[q], amount) /\ r.balance[q] = p.balance[q] - amount
               /\ r.allin = p.allin /\ r.folded = p.folded /\ r.raised = p.raised
               /\ r.current_bet = p.current_bet /\ r.last_raised_pos = p.last_raised_pos
               /\ r.is_sb_must_call = p.is_sb_must_call
<1> DEFINE balance == [p.balance EXCEPT ![q] = p.balance[q] - amount]
           bet == [p.bet EXCEPT ![q] = Plus(p.bet[q], amount)]
           pot == Plus(p.pot_amount, amount)
           r == [p EXCEPT !.balance = balance, !.bet = bet, !.pot_amount = pot]
<1>1. Pays(p, q, amount) \in Table BY PaysType
<1>2. p.balance \in [Players -> Chips] /\ p.bet \in [Players -> Chips] BY DEF Table
<1>3. /\ bet[q] = Plus(p.bet[q], amount) /\ balance[q] = p.balance[q] - amount
      /\ \A o \in Players \ {q} : balance[o] = p.balance[o] /\ bet[o] = p.bet[o]
    BY <1>2
<1>4. Pays(p, q, amount) = r BY DEF Pays
<1> HIDE DEF balance, pot, bet
<1>5. /\ SameSeats(p, r) /\ r.playing = p.playing
      /\ r.sb_player = p.sb_player /\ r.bb_player = p.bb_player /\ r.state = p.state
      /\ r.is_playing_last = p.is_playing_last /\ r.playing_position = p.playing_position
      /\ r.allin = p.allin /\ r.folded = p.folded /\ r.raised = p.raised
      /\ r.current_bet = p.current_bet /\ r.last_raised_pos = p.last_raised_pos
      /\ r.is_sb_must_call = p.is_sb_must_call
      /\ r.balance = balance /\ r.bet = bet
    BY DEF Table, SameSeats
<1> HIDE DEF r
<1>. QED BY <1>1, <1>3, <1>4, <1>5 DEF Touched

(* Only the small blind has the first call to make.                        *)
LEMMA CallIsSmallBlinds ==
    ASSUME NEW p \in Table, Pair(p), TwoHanded(p), NEW q \in Listed(p), MustCall(p, q)
    PROVE  q # p.bb_player
<1>1. PICK o \in Listed(p) : IsOther(p, q, o) BY PairIs
<1>. QED BY <1>1 DEF IsOther, MustCall, TwoHanded

(* A check or a call.                                                      *)
LEMMA CheckTwo ==
    ASSUME NEW p \in Table, Pair(p), TwoHanded(p), NEW q \in Able(p), CheckAllowed(p, q)
    PROVE  LET r == Check(p, q)
           IN  Moved(r, q, "CHECK") /\ Pair(r) /\ SameSeats(p, r)
<1> DEFINE r == Check(p, q)
           to_bet == Minus(p.current_bet, p.bet[q])
           small == Pays(p, q, SmallBlind)
           called == [small EXCEPT !.is_sb_must_call = FALSE]
           full == Pays(p, q, to_bet)
           rest == Pays(p, q, p.balance[q])
           allin == rest.allin \cup {q}
           short == [rest EXCEPT !.allin = allin]
<1>1. /\ q \in Listed(p) /\ q \in Players /\ q \notin p.allin
      /\ p.balance[q] \in Chips /\ p.balance[q] # 0
    <2>1. q \in Listed(p) /\ q \notin p.allin /\ p.balance[q] > 0
        BY DEF Able, TwoHanded
    <2>2. q \in Players /\ p.balance[q] \in Chips BY <2>1, ListedType, FieldTypes
    <2>. QED BY <2>1, <2>2
<1>2. /\ to_bet \in Chips /\ Chips \subseteq Int /\ p.bet[q] \in Chips
      /\ p.current_bet \in Chips
      /\ p.bet[q] \in Int /\ p.current_bet \in Int /\ p.balance[q] \in Int
    <2>1. p.bet[q] \in Int /\ p.current_bet \in Int /\ p.balance[q] \in Int
        BY <1>1, FieldTypes
    <2>. QED BY <1>1, <2>1, FieldTypes, WrapType
<1>3. /\ MustCall(p, q) => r = called /\ SmallBlind <= p.balance[q]
      /\ ~MustCall(p, q) /\ p.state \notin p.raised => r = p
      /\ ~MustCall(p, q) /\ p.state \in p.raised /\ to_bet <= p.balance[q] => r = full
      /\ ~MustCall(p, q) /\ p.state \in p.raised /\ ~(to_bet <= p.balance[q]) =>
            r = short
    BY <1>1, <1>2, ChipFacts DEF Check, CheckAllowed
<1>4. p.raised \subseteq PREFLOP .. p.state BY DEF TwoHanded
<1>5. q = p.bb_player /\ (\/ p.last_raised_pos = p.position[q]
                          \/ p.last_raised_pos = -1 /\ p.state \in p.raised)
         => to_bet = 0
    <2>1. q = p.bb_player /\ (\/ p.last_raised_pos = p.position[q]
                              \/ p.last_raised_pos = -1 /\ p.state \in p.raised)
             => p.bet[q] = p.current_bet
        BY DEF TwoHanded, Square
    <2>2. Minus(p.current_bet, p.current_bet) = 0
        <3>1. p.current_bet <= p.current_bet /\ p.current_bet - p.current_bet = 0 BY <1>2
        <3>. QED BY <1>2, <3>1, MinusExact
    <2>. QED BY <2>1, <2>2
<1> HIDE DEF to_bet
<1>6. CASE MustCall(p, q)
    <2>1. q # p.bb_player /\ p.bb_player \in Players
        BY <1>1, <1>6, CallIsSmallBlinds, ListedType DEF TwoHanded
    <2>2. /\ small \in Table /\ Touched(p, small, q)
          /\ small.allin = p.allin /\ small.folded = p.folded /\ small.raised = p.raised
          /\ small.current_bet = p.current_bet
          /\ small.last_raised_pos = p.last_raised_pos
        BY <1>1, <1>3, <1>6, ChipFacts, PaysTwo
    <2> HIDE DEF small
    <2>3. /\ Touched(small, called, q) /\ called.bet = small.bet
          /\ called.allin = small.allin /\ called.folded = small.folded
          /\ called.raised = small.raised /\ called.current_bet = small.current_bet
          /\ called.last_raised_pos = small.last_raised_pos
        BY <2>2 DEF Table, SameSeats, Touched
    <2> HIDE DEF called
    <2>4. Touched(p, called, q) BY <2>2, <2>3 DEF Touched, SameSeats
    <2>5. Square(called) BY <2>1, <2>2, <2>3, <2>4 DEF Square, Touched, SameSeats, TwoHanded
    <2>6. called.raised \subseteq PREFLOP .. called.state BY <1>4, <2>2, <2>3, <2>4 DEF Touched
    <2>7. called.folded = p.folded /\ "CHECK" # "FOLD" BY <2>2, <2>3
    <2>8. Moved(called, q, "CHECK") /\ Pair(called) /\ SameSeats(p, called)
        BY <1>1, <2>1, <2>4, <2>5, <2>6, <2>7, MovedBy
    <2>. QED BY <1>3, <1>6, <2>8
<1>7. CASE r = p
    <2>1. Touched(p, p, q) BY DEF Touched, SameSeats
    <2>2. Square(p) BY DEF TwoHanded
    <2>3. Moved(p, q, "CHECK") /\ Pair(p) /\ SameSeats(p, p)
        <3>1. "CHECK" # "FOLD" OBVIOUS
        <3> HIDE DEF r
        <3>. QED BY <1>1, <1>4, <2>1, <2>2, <3>1, MovedBy
    <2>. QED BY <1>7, <2>3
<1>8. CASE ~MustCall(p, q) /\ p.state \in p.raised /\ to_bet <= p.balance[q]
    <2>1. /\ full \in Table /\ Touched(p, full, q)
          /\ full.bet[q] = Plus(p.bet[q], to_bet) /\ full.balance[q] = p.balance[q] - to_bet
          /\ full.allin = p.allin /\ full.folded = p.folded /\ full.raised = p.raised
          /\ full.current_bet = p.current_bet
          /\ full.last_raised_pos = p.last_raised_pos
        BY <1>1, <1>2, <1>8, PaysTwo
    <2> HIDE DEF full
    <2>2. to_bet = 0 => full.bet[q] = p.bet[q] /\ full.balance[q] = p.balance[q]
        <3>1. Plus(p.bet[q], 0) = p.bet[q]
            <4>1. 0 \in Chips /\ p.bet[q] + 0 <= p.bet[q] /\ p.bet[q] + 0 = p.bet[q]
                BY <1>2, ChipFacts
            <4>. QED BY <1>2, <4>1, PlusExact
        <3>2. p.balance[q] - 0 = p.balance[q] BY <1>2
        <3>. QED BY <2>1, <3>1, <3>2
    <2>3. full.position = p.position /\ full.state = p.state /\ full.bb_player = p.bb_player
        BY <2>1 DEF Touched, SameSeats
    <2>4. Square(full)
        <3>1. p.bb_player # q => full.bet[p.bb_player] = p.bet[p.bb_player]
            BY <2>1, ListedType DEF Touched, TwoHanded
        <3>. QED BY <1>5, <2>1, <2>2, <2>3, <3>1 DEF Square, TwoHanded
    <2>5. q = p.bb_player /\ (q \in full.allin \/ full.balance[q] = 0)
              => full.last_raised_pos # -1 /\ full.last_raised_pos # full.position[q]
        BY <1>1, <1>5, <1>8, <2>1, <2>2, <2>3
    <2>6. full.raised \subseteq PREFLOP .. full.state BY <1>4, <2>1, <2>3
    <2>7. full.folded = p.folded /\ "CHECK" # "FOLD" BY <2>1
    <2>8. Moved(full, q, "CHECK") /\ Pair(full) /\ SameSeats(p, full)
        BY <1>1, <2>1, <2>4, <2>5, <2>6, <2>7, MovedBy
    <2>. QED BY <1>3, <1>8, <2>8
<1>9. CASE ~MustCall(p, q) /\ p.state \in p.raised /\ ~(to_bet <= p.balance[q])
    <2>1. /\ rest \in Table /\ Touched(p, rest, q)
          /\ rest.allin = p.allin /\ rest.folded = p.folded /\ rest.raised = p.raised
          /\ rest.current_bet = p.current_bet
          /\ rest.last_raised_pos = p.last_raised_pos
        <3>1. p.balance[q] <= p.balance[q] BY <1>1, <1>2
        <3>. QED BY <1>1, <3>1, PaysTwo
    <2>2. to_bet # 0
        <3>1. p.balance[q] \in Nat BY <1>1, ChipFacts DEF Chips
        <3>. QED BY <1>9, <3>1
    <2> HIDE DEF rest
    <2>3. /\ Kept(rest, short) /\ short.state = rest.state /\ short.balance = rest.balance
          /\ short.allin = allin /\ short.last_raised_pos = rest.last_raised_pos
          /\ short.is_playing_last = rest.is_playing_last
          /\ short.playing_position = rest.playing_position
        <3> HIDE DEF allin
        <3>. QED BY <2>1 DEF Table, Kept, SameSeats
    <2> HIDE DEF short
    <2>4. Touched(p, short, q) BY <2>1, <2>3 DEF Touched, Kept, SameSeats
    <2>5. /\ short.position = p.position /\ short.state = p.state
          /\ short.bb_player = p.bb_player /\ short.folded = p.folded
          /\ short.raised = p.raised /\ short.last_raised_pos = p.last_raised_pos
          /\ short.current_bet = p.current_bet
        BY <2>1, <2>3, <2>4 DEF Touched, Kept, SameSeats
    <2>6. Square(short)
        <3>1. p.bb_player # q => short.bet[p.bb_player] = p.bet[p.bb_player]
            BY <2>4, ListedType DEF Touched, TwoHanded
        <3>. QED BY <1>5, <2>2, <2>5, <3>1 DEF Square, TwoHanded
    <2>7. q = p.bb_player
              => short.last_raised_pos # -1 /\ short.last_raised_pos # short.position[q]
        BY <1>5, <1>9, <2>2, <2>5
    <2>8. short.raised \subseteq PREFLOP .. short.state BY <1>4, <2>5
    <2>9. short.folded = p.folded /\ "CHECK" # "FOLD" BY <2>5
    <2>10. Moved(short, q, "CHECK") /\ Pair(short) /\ SameSeats(p, short)
        BY <1>1, <2>4, <2>6, <2>7, <2>8, <2>9, MovedBy
    <2>. QED BY <1>3, <1>9, <2>10
<1>. QED BY <1>3, <1>6, <1>7, <1>8, <1>9

(* Paying up to an amount makes it the bet.                                *)
LEMMA BetRaisedTo ==
    ASSUME NEW x \in Chips, NEW y \in Chips
    PROVE  Plus(x, Minus(y, x)) = y
<1>1. /\ x \in Int /\ y \in Int /\ 0 <= x /\ 0 <= y /\ x < Modulus /\ y < Modulus
      /\ Modulus \in Nat /\ Modulus > 0
    BY ChipFacts DEF Chips
<1>2. CASE x <= y
    <2>1. Minus(y, x) = y - x /\ y - x \in Chips BY <1>1, <1>2, MinusExact DEF Chips
    <2>2. x + (y - x) = y /\ y <= y BY <1>1
    <2>. QED BY <2>1, <2>2, PlusExact
<1>3. CASE ~(x <= y)
    <2>1. Minus(y, x) = y - x + Modulus BY <1>1, <1>3 DEF Minus
    <2>2. x + (y - x + Modulus) = y + Modulus BY <1>1
    <2>3. (y + Modulus) % Modulus = y BY <1>1
    <2>. QED BY <2>1, <2>2, <2>3 DEF Plus
<1>. QED BY <1>2, <1>3

(* A raise.                                                                *)
LEMMA RaiseTwo ==
    ASSUME NEW p \in Table, Pair(p), TwoHanded(p), NEW q \in Able(p), NEW amount \in Chips,
           RaiseAllowed(p, q, amount)
    PROVE  LET r == Raise(p, q, amount)
           IN  Moved(r, q, "RAISE") /\ Pair(r) /\ SameSeats(p, r)
<1> DEFINE to_bet == Minus(amount, p.bet[q])
           raise_by == Minus(amount, p.current_bet)
           balance == [p.balance EXCEPT ![q] = @ - to_bet]
           must == p.is_sb_must_call /\ p.sb_player # q
           counter == p.synced_action_counter + 1
           paid == [p EXCEPT !.balance = balance, !.is_sb_must_call = must,
                             !.synced_action_counter = counter]
           current_raise == IF raise_by >= p.current_raise THEN raise_by ELSE p.current_raise
           raised == IF amount > p.current_bet THEN p.raised \cup {p.state} ELSE p.raised
           bet == [p.bet EXCEPT ![q] = Plus(@, to_bet)]
           pot == Plus(p.pot_amount, to_bet)
           seat == p.position[q]
           full == [paid EXCEPT !.current_raise = current_raise, !.raised = raised,
                                !.current_bet = amount, !.bet = bet, !.pot_amount = pot,
                                !.last_raised_pos = seat]
<1>1. q \in Listed(p) /\ q \in Players BY ListedType DEF Able
<1>2. /\ p.balance \in [Players -> Chips] /\ p.bet \in [Players -> Chips]
      /\ p.bet[q] \in Chips
    BY <1>1 DEF Table
<1>3. \A o \in Players \ {q} : balance[o] = p.balance[o] /\ bet[o] = p.bet[o]
    BY <1>2
<1>4. bet[q] = amount
    <2>1. bet[q] = Plus(p.bet[q], to_bet) BY <1>1, <1>2
    <2>. QED BY <1>2, <2>1, BetRaisedTo
<1>5. Raise(p, q, amount) \in {paid, full}
    <2>1. /\ paid.current_raise = p.current_raise /\ paid.raised = p.raised
          /\ paid.bet = p.bet /\ paid.pot_amount = p.pot_amount
        BY DEF Table
    <2>2. CASE amount < p.current_bet BY <2>2 DEF Raise
    <2>3. CASE ~(amount < p.current_bet) BY <2>1, <2>3 DEF Raise
    <2>. QED BY <2>2, <2>3
<1>6. p.raised \subseteq PREFLOP .. p.state /\ raised \subseteq PREFLOP .. p.state
    <2>1. p.state \in PREFLOP .. p.state
        BY FieldTypes DEF TwoHanded, InHand, PREFLOP, RIVER
    <2>. QED BY <2>1 DEF TwoHanded
<1> HIDE DEF to_bet, balance, must, counter, current_raise, raised, bet, pot
<1>7. /\ Touched(p, paid, q) /\ paid.folded = p.folded /\ paid.raised = p.raised
      /\ paid.current_bet = p.current_bet /\ paid.last_raised_pos = p.last_raised_pos
      /\ paid.bet = p.bet
    <2> HIDE DEF seat
    <2>1. /\ SameSeats(p, paid) /\ paid.playing = p.playing
          /\ paid.sb_player = p.sb_player /\ paid.bb_player = p.bb_player
          /\ paid.state = p.state /\ paid.is_playing_last = p.is_playing_last
          /\ paid.playing_position = p.playing_position
          /\ paid.allin = p.allin /\ paid.folded = p.folded /\ paid.raised = p.raised
          /\ paid.current_bet = p.current_bet /\ paid.last_raised_pos = p.last_raised_pos
          /\ paid.bet = p.bet /\ paid.balance = balance
        BY DEF Table, SameSeats
    <2>. QED BY <1>3, <2>1 DEF Touched
<1>8. /\ Touched(p, full, q) /\ full.folded = p.folded /\ full.raised = raised
      /\ full.current_bet = amount /\ full.last_raised_pos = seat /\ full.bet = bet
    <2> HIDE DEF seat
    <2>1. /\ SameSeats(p, full) /\ full.playing = p.playing
          /\ full.sb_player = p.sb_player /\ full.bb_player = p.bb_player
          /\ full.state = p.state /\ full.is_playing_last = p.is_playing_last
          /\ full.playing_position = p.playing_position
          /\ full.allin = p.allin /\ full.folded = p.folded /\ full.raised = raised
          /\ full.current_bet = amount /\ full.last_raised_pos = seat
          /\ full.bet = bet /\ full.balance = balance
        BY DEF Table, SameSeats
    <2>. QED BY <1>3, <2>1 DEF Touched
<1> HIDE DEF paid, full
<1>9. Square(paid) BY <1>7 DEF Square, Touched, SameSeats, TwoHanded
<1>10. Square(full)
    <2>1. full.position = p.position /\ full.bb_player = p.bb_player
        BY <1>8 DEF Touched, SameSeats
    <2>2. CASE q = p.bb_player BY <1>4, <1>8, <2>1, <2>2 DEF Square
    <2>3. CASE q # p.bb_player
        <3>1. PICK o \in Listed(p) : IsOther(p, q, o) BY <1>1, PairIs
        <3>2. p.bb_player = o BY <2>3, <3>1 DEF IsOther, TwoHanded
        <3>3. seat # p.position[p.bb_player] BY <3>1, <3>2 DEF IsOther
        <3>4. seat # -1
            <4>1. p.position[q] \in Nat BY <1>1, PairIs
            <4>. QED BY <4>1
        <3>. QED BY <1>8, <2>1, <3>3, <3>4 DEF Square
    <2>. QED BY <2>2, <2>3
<1>11. "RAISE" # "FOLD" /\ "RAISE" # "CHECK" OBVIOUS
<1>12. /\ Moved(paid, q, "RAISE") /\ Pair(paid) /\ SameSeats(p, paid)
    <2>1. paid.raised \subseteq PREFLOP .. paid.state BY <1>6, <1>7 DEF Touched
    <2>. QED BY <1>1, <1>7, <1>9, <1>11, <2>1, MovedBy
<1>13. /\ Moved(full, q, "RAISE") /\ Pair(full) /\ SameSeats(p, full)
    <2>1. full.raised \subseteq PREFLOP .. full.state BY <1>6, <1>8 DEF Touched
    <2>. QED BY <1>1, <1>8, <1>10, <1>11, <2>1, MovedBy
<1>. QED BY <1>5, <1>12, <1>13

(* Whatever one of two does, the hand is over or goes on.                  *)
LEMMA DoActionTwo ==
    ASSUME NEW p \in Table, Pair(p), TwoHanded(p), NEW q \in Listed(p), NEW kind,
           NEW amount \in Chips, NEW ranking \in Rankings(p)
    PROVE  LET r == DoAction(p, q, kind, amount, ranking)
           IN  SameSeats(p, r) /\ (r.state = DONE \/ TwoHanded(r))
<1> DEFINE r == DoAction(p, q, kind, amount, ranking)
           raised == Raise(p, q, amount)
           checked == Check(p, q)
           folds == p.folded \cup {q}
           folded == [p EXCEPT !.folded = folds]
<1>1. CASE r = p BY <1>1 DEF SameSeats
<1>2. CASE r # p
    <2>1. q \in Able(p) /\ InHand(p)
        BY <1>2 DEF DoAction, MayAct, Able, TwoHanded
    <2>2. q \in Players BY ListedType
    <2>3. PICK a : /\ r = Accepted(a, q, kind, ranking)
                   /\ \/ kind = "RAISE" /\ RaiseAllowed(p, q, amount) /\ a = raised
                      \/ kind = "CHECK" /\ CheckAllowed(p, q) /\ a = checked
                      \/ kind = "FOLD" /\ a = folded
                      \/ kind \notin {"RAISE", "CHECK", "FOLD"} /\ a = p
        BY <1>2 DEF DoAction
    <2> HIDE DEF r
    <2>4. a \in Table /\ Moved(a, q, kind) /\ Pair(a) /\ SameSeats(p, a)
        <3>1. CASE kind = "RAISE" /\ RaiseAllowed(p, q, amount) /\ a = raised
            <4>1. a \in Table BY <2>1, <2>2, <3>1, RaiseType
            <4>2. Moved(a, q, kind) /\ Pair(a) /\ SameSeats(p, a)
                BY <2>1, <3>1, RaiseTwo
            <4>. QED BY <4>1, <4>2
        <3>2. CASE kind = "CHECK" /\ CheckAllowed(p, q) /\ a = checked
            <4>1. a \in Table BY <2>2, <3>2, CheckType
            <4>2. Moved(a, q, kind) /\ Pair(a) /\ SameSeats(p, a)
                BY <2>1, <3>2, CheckTwo
            <4>. QED BY <4>1, <4>2
        <3>3. CASE kind = "FOLD" /\ a = folded
            <4>1. folds \in SUBSET Players BY <2>2 DEF Table
            <4> HIDE DEF folds
            <4>2. a \in Table BY <3>3, <4>1 DEF Table
            <4>3. Touched(p, a, q) /\ a.raised = p.raised /\ a.folded = folds /\ a.state = p.state
                BY <3>3 DEF Table, Touched, SameSeats
            <4>4. Square(a) BY <3>3 DEF Table, Square, TwoHanded
            <4>5. "FOLD" # "CHECK" OBVIOUS
            <4>6. a.raised \subseteq PREFLOP .. a.state BY <4>3 DEF TwoHanded
            <4>7. a.folded = p.folded \cup {q} BY <4>3 DEF folds
            <4>8. Moved(a, q, "FOLD") /\ Pair(a) /\ SameSeats(p, a)
                BY <4>3, <4>4, <4>5, <4>6, <4>7, MovedBy
            <4>. QED BY <3>3, <4>2, <4>8
        <3>4. CASE kind \notin {"RAISE", "CHECK", "FOLD"} /\ a = p
            <4>1. Touched(p, p, q) BY DEF Touched, SameSeats
            <4>2. Square(p) /\ p.raised \subseteq PREFLOP .. p.state BY DEF TwoHanded
            <4>. QED BY <3>4, <4>1, <4>2, MovedBy DEF Touched
        <3>. QED BY <2>3, <3>1, <3>2, <3>3, <3>4
    <2>5. ranking \in Rankings(a) /\ q \in Listed(a)
        <3>1. Listed(a) = Listed(p) BY <2>4, PairKept
        <3>. QED BY <2>4, <3>1 DEF Rankings, SameSeats
    <2>6. SameSeats(a, r) /\ (r.state = DONE \/ TwoHanded(r))
        BY <2>3, <2>4, <2>5, AcceptedTwo
    <2>. QED BY <2>4, <2>6 DEF r, SameSeats
<1>. QED BY <1>1, <1>2

-------------------------------------------------------------------------------
(* What a blind posted by q, one of two who are both able, makes of the    *)
(* table.                                                                  *)
Blinded(p, r, q, amount) ==
    /\ SameSeats(p, r) /\ r.playing = p.playing /\ r.folded = p.folded
    /\ r.sb_player = p.sb_player /\ r.bb_player = p.bb_player /\ r.state = p.state
    /\ r.last_raised_pos = p.last_raised_pos
    /\ r.raised = IF p.state = SMALL_BLIND THEN p.raised ELSE p.raised \cup {PREFLOP}
    /\ \A o \in Players \ {q} : r.balance[o] = p.balance[o] /\ r.bet[o] = p.bet[o]
    /\ r.balance[q] = p.balance[q] - amount /\ r.bet[q] = Plus(p.bet[q], amount)
    /\ r.allin = IF p.balance[q] = amount THEN p.allin \cup {q} ELSE p.allin
    /\ r.is_playing_last <=> Cardinality(Able(r)) = 1
    /\ \E o \in Listed(p) : IsOther(p, q, o) /\ r.playing_position = p.position[o]

LEMMA BlindTwo ==
    ASSUME NEW p \in Table, Pair(p), NEW q \in Listed(p), Able(p) = Listed(p),
           p.state \in {SMALL_BLIND, BIG_BLIND}, p.playing_position = p.position[q],
           ~p.is_playing_last, NEW amount \in {SmallBlind, BigBlind},
           amount <= p.balance[q], NEW ranking \in Rankings(p)
    PROVE  LET r == PostBlind(p, q, amount, ranking)
           IN  r \in Table /\ Blinded(p, r, q, amount)
<1> DEFINE paid == Pays(p, q, amount)
           must == TRUE
           raised == paid.raised \cup {PREFLOP}
           a == IF p.state = SMALL_BLIND THEN [paid EXCEPT !.is_sb_must_call = must]
                ELSE [paid EXCEPT !.raised = raised]
           broke == IF a.balance[q] = 0 THEN [a EXCEPT !.allin = @ \cup {q}] ELSE a
           t == IF Able(broke) = {} THEN broke ELSE NextPlayer(broke)
           f == Finish(t, q, "BLIND", ranking)
           count == f.reflections + 1
           off == FALSE
           last == t.is_playing_last \/ Cardinality(Able(t)) = 1
           w == [t EXCEPT !.is_playing_last = last]
           r == [f EXCEPT !.overdue = off, !.reflections = count]
<1>1. /\ q \in Players /\ p.players # << >> /\ amount \in Chips
      /\ p.balance[q] \in Int /\ amount \in Int
    BY PairIs, ChipFacts, FieldTypes
<1>2. PostBlind(p, q, amount, ranking) = Accepted(a, q, "BLIND", ranking)
    <2>1. q \in p.playing \ p.folded /\ q \notin p.allin BY DEF Able
    <2>2. p.state \in SMALL_BLIND .. RIVER BY DEF SMALL_BLIND, BIG_BLIND, RIVER
    <2>3. p.fault = "none" /\ ~(p.balance[q] < amount) BY <1>1 DEF Pair
    <2>. QED BY <2>1, <2>2, <2>3 DEF PostBlind, MayAct
<1>3. PostBlind(p, q, amount, ranking) \in Table BY <1>1, PostBlindType DEF Posted
<1>4. /\ paid \in Table /\ Touched(p, paid, q)
      /\ paid.bet[q] = Plus(p.bet[q], amount) /\ paid.balance[q] = p.balance[q] - amount
      /\ paid.allin = p.allin /\ paid.folded = p.folded /\ paid.raised = p.raised
      /\ paid.last_raised_pos = p.last_raised_pos
    BY <1>1, PaysTwo
<1> HIDE DEF paid
<1>5. raised \in SUBSET (PREFLOP .. RIVER) BY <1>4 DEF Table, PREFLOP, RIVER
<1>6. /\ a \in Table /\ SameSeats(paid, a) /\ a.playing = paid.playing
      /\ a.sb_player = paid.sb_player /\ a.bb_player = paid.bb_player
      /\ a.state = paid.state /\ a.is_playing_last = paid.is_playing_last
      /\ a.playing_position = paid.playing_position /\ a.allin = paid.allin
      /\ a.balance = paid.balance /\ a.bet = paid.bet /\ a.folded = paid.folded
      /\ a.last_raised_pos = paid.last_raised_pos
      /\ a.raised = IF p.state = SMALL_BLIND THEN paid.raised ELSE raised
    <2>1. must \in BOOLEAN OBVIOUS
    <2> HIDE DEF must, raised
    <2>. QED BY <1>4, <1>5, <2>1 DEF Table, SameSeats
<1> HIDE DEF a
<1>7. Pair(a) /\ Listed(a) = Listed(p) /\ a.position = p.position /\ SameSeats(p, a)
    <2>1. SameSeats(p, a) BY <1>4, <1>6 DEF SameSeats, Touched
    <2>. QED BY <2>1, PairKept DEF SameSeats
<1>8. t \in Table /\ Turned(a, t, q) BY <1>6, <1>7, TurnedTwo
<1>9. Accepted(a, q, "BLIND", ranking) = IF t.fault # "none" THEN t ELSE r
    BY DEF Accepted
<1> HIDE DEF t
<1>10. /\ t.fault = "none" /\ SameSeats(p, t) /\ Listed(t) = Listed(p)
       /\ t.state = p.state /\ ~t.is_playing_last
    <2>1. SameSeats(p, t) BY <1>7, <1>8 DEF Turned, Kept, SameSeats
    <2>2. Listed(t) = Listed(p) BY <2>1, PairKept
    <2>3. t.state = p.state /\ ~t.is_playing_last BY <1>4, <1>6, <1>8 DEF Turned, Touched
    <2>. QED BY <2>1, <2>2, <2>3 DEF SameSeats, Pair
<1>11. PICK o \in Listed(p) : IsOther(p, q, o) BY PairIs
<1>12. o \in Able(t) /\ (Able(t) = {o} \/ Able(t) = Listed(t))
    <2>1. /\ t.playing = p.playing /\ t.folded = p.folded /\ p.allin \subseteq t.allin
          /\ t.allin \subseteq p.allin \cup {q}
        BY <1>4, <1>6, <1>8 DEF Turned, Kept, Touched
    <2>. QED BY <1>10, <1>11, <2>1 DEF Able, IsOther
<1>13. t.playing_position = p.position[o]
    <2>1. PICK x \in Able(t) :
             /\ t.playing_position = a.position[x]
             /\ a.playing_position \in Seats(a, Listed(a)) /\ Able(t) = Listed(t)
                   => a.playing_position # a.position[x]
        BY <1>8, <1>12 DEF Turned
    <2>2. a.playing_position = a.position[q] /\ a.position[q] \in Seats(a, Listed(a))
        BY <1>4, <1>6, <1>7 DEF Touched, Seats
    <2>3. x = o
        BY <1>10, <1>11, <1>12, <2>1, <2>2 DEF IsOther
    <2>. QED BY <1>7, <2>1, <2>3
<1>14. f = w
    <2>1. ~InHand(t) /\ t.state # DONE
        BY <1>10 DEF InHand, SMALL_BLIND, BIG_BLIND, PREFLOP, RIVER, DONE
    <2>2. CloseStreet(t, q, "BLIND") = t BY <2>1 DEF CloseStreet
    <2>. QED BY <1>10, <1>12, <2>1, <2>2 DEF Finish
<1> HIDE DEF f, count
<1>15. /\ w \in Table /\ SameSeats(t, w) /\ w.is_playing_last = last
       /\ w.playing = t.playing /\ w.folded = t.folded
       /\ w.sb_player = t.sb_player /\ w.bb_player = t.bb_player /\ w.state = t.state
       /\ w.last_raised_pos = t.last_raised_pos /\ w.raised = t.raised
       /\ w.balance = t.balance /\ w.bet = t.bet /\ w.allin = t.allin
       /\ w.playing_position = t.playing_position
    <2>1. last \in BOOLEAN BY <1>8 DEF Table
    <2> HIDE DEF last
    <2>. QED BY <1>8, <2>1 DEF Table, SameSeats
<1> HIDE DEF w
<1>16. /\ SameSeats(w, r) /\ r.is_playing_last = w.is_playing_last
       /\ r.playing = w.playing /\ r.folded = w.folded
       /\ r.sb_player = w.sb_player /\ r.bb_player = w.bb_player /\ r.state = w.state
       /\ r.last_raised_pos = w.last_raised_pos /\ r.raised = w.raised
       /\ r.balance = w.balance /\ r.bet = w.bet /\ r.allin = w.allin
       /\ r.playing_position = w.playing_position
    BY <1>14, <1>15 DEF Table, SameSeats
<1> HIDE DEF r
<1>17. Able(r) = Able(t)
    BY <1>15, <1>16 DEF Able, Listed, SameSeats
<1>18. r.is_playing_last <=> Cardinality(Able(r)) = 1 BY <1>10, <1>15, <1>16, <1>17
<1>19. /\ t.raised = a.raised /\ t.balance = a.balance /\ t.bet = a.bet
       /\ t.allin = IF a.balance[q] = 0 THEN a.allin \cup {q} ELSE a.allin
       /\ t.playing = a.playing /\ t.folded = a.folded /\ t.sb_player = a.sb_player
       /\ t.bb_player = a.bb_player /\ t.last_raised_pos = a.last_raised_pos
    BY <1>8 DEF Turned, Kept
<1>20. a.balance[q] = 0 <=> p.balance[q] = amount BY <1>1, <1>4, <1>6
<1>21. r.raised = IF p.state = SMALL_BLIND THEN p.raised ELSE p.raised \cup {PREFLOP}
    BY <1>4, <1>6, <1>15, <1>16, <1>19
<1>22. Blinded(p, r, q, amount)
    <2>1. SameSeats(p, r) BY <1>10, <1>15, <1>16 DEF SameSeats
    <2>2. /\ r.playing = p.playing /\ r.folded = p.folded
          /\ r.sb_player = p.sb_player /\ r.bb_player = p.bb_player /\ r.state = p.state
          /\ r.last_raised_pos = p.last_raised_pos
          /\ r.allin = IF p.balance[q] = amount THEN p.allin \cup {q} ELSE p.allin
        BY <1>4, <1>6, <1>10, <1>15, <1>16, <1>19, <1>20 DEF Touched
    <2>3. /\ \A x \in Players \ {q} : r.balance[x] = p.balance[x] /\ r.bet[x] = p.bet[x]
          /\ r.balance[q] = p.balance[q] - amount /\ r.bet[q] = Plus(p.bet[q], amount)
        BY <1>4, <1>6, <1>15, <1>16, <1>19 DEF Touched
    <2>4. r.playing_position = p.position[o] BY <1>13, <1>15, <1>16
    <2>. QED BY <1>11, <1>18, <1>21, <2>1, <2>2, <2>3, <2>4 DEF Blinded
<1>. QED BY <1>2, <1>3, <1>9, <1>10, <1>22

(* A table a hand can be dealt on: everybody is able and covers the blinds.*)
Fresh(p) ==
    /\ Listed(p) \subseteq (p.playing \ p.folded) \ p.allin
    /\ \A q \in Listed(p) : p.bet[q] = 0 /\ p.balance[q] >= BigBlind
    /\ p.last_raised_pos = -1 /\ p.raised = {} /\ ~p.is_playing_last

(* A hand dealt to two on such a table is a hand of two in play.           *)
LEMMA StartTwo ==
    ASSUME NEW p \in Table, Pair(p), Fresh(p), NEW ranking \in Rankings(p)
    PROVE  LET r == Start(p, ranking)
           IN  r \in Table /\ SameSeats(p, r) /\ TwoHanded(r)
<1> DEFINE button == SeatFrom(Seats(p, Seated(p)), p.button_position)
           big_seat == SeatFrom(Seats(p, Seated(p)), button + 1)
           sb == GetByPosition(p, button)
           bb == GetByPosition(p, big_seat)
           early == SMALL_BLIND
           later == BIG_BLIND
           first == PREFLOP
           off == FALSE
           seated == [p EXCEPT !.sb_player = sb, !.bb_player = bb,
                               !.button_position = button, !.playing_position = button,
                               !.overdue = off, !.state = early]
           small == PostBlind(seated, seated.sb_player, SmallBlind, ranking)
           between == [small EXCEPT !.state = later]
           big == PostBlind(between, seated.bb_player, BigBlind, ranking)
           starters == Cardinality(Able(big))
           r == [big EXCEPT !.current_bet = BigBlind, !.current_raise = BigBlind,
                            !.starter_players_num = starters, !.state = first]
           staying == {i \in DOMAIN p.players : p.players[i] \notin p.left}
<1>1. Cardinality(staying) = 2
    <2>1. staying = 1 .. 2 BY ListedType DEF Pair
    <2>2. 1 \in Int /\ 2 \in Int /\ ~(1 > 2) /\ 2 - 1 + 1 = 2 OBVIOUS
    <2>3. \A a, b \in Int : Cardinality(a .. b) = IF a > b THEN 0 ELSE b - a + 1
        BY FS_Interval
    <2>4. Cardinality(1 .. 2) = 2 BY <2>2, <2>3
    <2>. QED BY <2>1, <2>4
<1>2. Seated(p) = Listed(p) /\ Seated(p) # {}
    <2>1. Seated(p) = Listed(p) BY PairIs DEF Seated, Pair
    <2>2. p.players[1] \in Listed(p) BY ListedType DEF Listed, Pair
    <2>. QED BY <2>1, <2>2
<1>3. Start(p, ranking) = r BY <1>1, <1>2 DEF Start
<1>4. button \in Seats(p, Seated(p)) /\ button \in Nat
    <2>1. p.button_position \in Int BY DEF Table
    <2>. QED BY <1>2, <2>1, SeatedType, SeatFromType
<1> HIDE DEF button
<1>5. big_seat \in Seats(p, Seated(p)) /\ button # big_seat
    <2>1. PICK x \in Listed(p) : button = p.position[x] BY <1>2, <1>4 DEF Seats
    <2>2. PICK y \in Listed(p) : p.position[y] # button BY <2>1, PairIs DEF IsOther
    <2>3. p.position[y] \in Seats(p, Seated(p)) BY <1>2, <2>2 DEF Seats
    <2>4. SeatFrom(Seats(p, Seated(p)), button + 1) # button
        BY <1>4, <2>2, <2>3, SeatedType, NextSeatDiffers
    <2>5. big_seat \in Seats(p, Seated(p))
        BY <1>2, <1>4, SeatedType, SeatFromType
    <2>. QED BY <2>4, <2>5
<1> HIDE DEF big_seat
<1>6. /\ sb \in Listed(p) /\ bb \in Listed(p) /\ sb # bb
      /\ p.position[sb] = button /\ p.position[bb] = big_seat
    BY <1>4, <1>5, SeatedType
<1>7. sb \in Players /\ bb \in Players BY <1>6, ListedType
<1> HIDE DEF sb, bb
<1>8. /\ early \in CREATED .. DONE /\ later \in CREATED .. DONE /\ first \in CREATED .. DONE
      /\ early = SMALL_BLIND /\ later = BIG_BLIND /\ first = PREFLOP /\ early # later
      /\ off \in BOOLEAN
    BY DEF CREATED, DONE, SMALL_BLIND, BIG_BLIND, PREFLOP
<1> HIDE DEF early, later, first, off
<1>9. /\ seated \in Table /\ SameSeats(p, seated) /\ seated.playing = p.playing
      /\ seated.folded = p.folded /\ seated.allin = p.allin
      /\ seated.balance = p.balance /\ seated.bet = p.bet /\ seated.raised = p.raised
      /\ seated.last_raised_pos = p.last_raised_pos
      /\ seated.is_playing_last = p.is_playing_last
      /\ seated.sb_player = sb /\ seated.bb_player = bb
      /\ seated.state = early /\ seated.playing_position = button
    <2>1. sb \in Players \cup {None} /\ bb \in Players \cup {None} /\ button \in Int
        BY <1>4, <1>7
    <2>. QED BY <1>4, <1>8, <2>1 DEF Table, SameSeats
<1> HIDE DEF seated
<1>10. Pair(seated) /\ Listed(seated) = Listed(p) BY <1>9, PairKept
<1>11. /\ SmallBlind \in Int /\ BigBlind \in Int /\ SmallBlind < BigBlind /\ 0 < SmallBlind
       /\ \A q \in Listed(p) : p.balance[q] \in Int /\ p.balance[q] >= BigBlind
    BY BlindsAssumption, ListedType, FieldTypes DEF Fresh
<1>12. small \in Table /\ Blinded(seated, small, sb, SmallBlind)
    <2>1. Able(seated) = Listed(seated) BY <1>9, <1>10 DEF Able, Fresh
    <2>2. seated.playing_position = seated.position[sb] BY <1>6, <1>9 DEF SameSeats
    <2>3. ranking \in Rankings(seated) BY <1>9, <1>10 DEF Rankings, SameSeats
    <2>4. SmallBlind <= seated.balance[sb] BY <1>6, <1>9, <1>11
    <2>5. ~seated.is_playing_last BY <1>9 DEF Fresh
    <2>. QED BY <1>6, <1>8, <1>9, <1>10, <2>1, <2>2, <2>3, <2>4, <2>5, BlindTwo
<1> HIDE DEF small
<1>13. /\ SameSeats(p, small) /\ Listed(small) = Listed(p) /\ Pair(small)
       /\ small.playing = p.playing /\ small.folded = p.folded /\ small.allin = p.allin
       /\ small.sb_player = sb /\ small.bb_player = bb
       /\ small.last_raised_pos = -1 /\ small.raised = {}
    <2>1. SameSeats(p, small) BY <1>9, <1>12 DEF Blinded, SameSeats
    <2>2. Listed(small) = Listed(p) /\ Pair(small) BY <2>1, PairKept
    <2>3. small.allin = p.allin
        <3>1. p.balance[sb] # SmallBlind BY <1>6, <1>11
        <3>. QED BY <1>9, <1>12, <3>1 DEF Blinded
    <2>. QED BY <1>8, <1>9, <1>12, <2>1, <2>2, <2>3 DEF Blinded, Fresh
<1>14. /\ small.balance[sb] > 0 /\ small.balance[bb] = p.balance[bb] /\ small.bet[bb] = 0
       /\ small.balance[sb] \in Int
    BY <1>6, <1>7, <1>9, <1>11, <1>12 DEF Blinded, Fresh
<1>15. Able(small) = Listed(p) BY <1>13 DEF Able, Fresh
<1>16. small.playing_position = p.position[bb] /\ ~small.is_playing_last
    <2>1. small.playing_position = p.position[bb]
        <3>1. PICK o \in Listed(seated) :
                 IsOther(seated, sb, o) /\ small.playing_position = seated.position[o]
            BY <1>12 DEF Blinded
        <3>2. o = bb BY <1>6, <1>10, <3>1 DEF IsOther
        <3>. QED BY <1>9, <3>1, <3>2 DEF SameSeats
    <2>2. Cardinality(Listed(p)) = 2 BY <1>6, PairIs
    <2>. QED BY <1>12, <1>15, <2>1, <2>2 DEF Blinded
<1>17. /\ between \in Table /\ SameSeats(small, between) /\ between.playing = small.playing
       /\ between.folded = small.folded /\ between.allin = small.allin
       /\ between.balance = small.balance /\ between.bet = small.bet
       /\ between.raised = small.raised
       /\ between.last_raised_pos = small.last_raised_pos
       /\ between.is_playing_last = small.is_playing_last
       /\ between.sb_player = small.sb_player /\ between.bb_player = small.bb_player
       /\ between.state = later /\ between.playing_position = small.playing_position
    BY <1>8, <1>12 DEF Table, SameSeats
<1> HIDE DEF between
<1>18. /\ SameSeats(p, between) /\ Pair(between) /\ Listed(between) = Listed(p)
       /\ Able(between) = Listed(p)
    <2>1. SameSeats(p, between) BY <1>13, <1>17 DEF SameSeats
    <2>2. Pair(between) /\ Listed(between) = Listed(p) BY <2>1, PairKept
    <2>3. Able(between) = Able(small) BY <1>13, <1>17, <2>2 DEF Able
    <2>. QED BY <1>15, <2>1, <2>2, <2>3
<1>19. big \in Table /\ Blinded(between, big, bb, BigBlind)
    <2>1. seated.bb_player = bb /\ between.state = BIG_BLIND BY <1>8, <1>9, <1>17
    <2>2. between.playing_position = between.position[bb]
        BY <1>16, <1>17, <1>18 DEF SameSeats
    <2>3. ranking \in Rankings(between) BY <1>18 DEF Rankings, SameSeats
    <2>4. BigBlind <= between.balance[bb] BY <1>6, <1>11, <1>14, <1>17
    <2>5. ~between.is_playing_last BY <1>16, <1>17
    <2>. QED BY <1>6, <1>17, <1>18, <2>1, <2>2, <2>3, <2>4, <2>5, BlindTwo
<1> HIDE DEF big
<1>20. starters \in Nat
    <2>1. Able(big) \subseteq Players BY <1>19, ListedType DEF Able
    <2>. QED BY <2>1, PlayersCount
<1> HIDE DEF starters
<1>21. /\ r \in Table /\ SameSeats(big, r) /\ r.playing = big.playing
       /\ r.folded = big.folded /\ r.allin = big.allin /\ r.balance = big.balance
       /\ r.bet = big.bet /\ r.raised = big.raised
       /\ r.last_raised_pos = big.last_raised_pos
       /\ r.is_playing_last = big.is_playing_last
       /\ r.sb_player = big.sb_player /\ r.bb_player = big.bb_player
       /\ r.state = first /\ r.playing_position = big.playing_position
       /\ r.current_bet = BigBlind
    BY <1>8, <1>19, <1>20, ChipFacts DEF Table, SameSeats
<1> HIDE DEF r
<1>22. /\ SameSeats(p, r) /\ Pair(r) /\ Listed(r) = Listed(p) /\ r.position = p.position
    <2>1. SameSeats(p, r) BY <1>18, <1>19, <1>21 DEF Blinded, SameSeats
    <2>. QED BY <2>1, PairKept DEF SameSeats
<1>23. /\ r.sb_player = sb /\ r.bb_player = bb /\ r.state = PREFLOP
       /\ r.playing = p.playing /\ r.folded = p.folded
       /\ r.last_raised_pos = -1 /\ r.raised = {PREFLOP}
    BY <1>8, <1>13, <1>17, <1>19, <1>21 DEF Blinded
<1>24. /\ r.allin = IF p.balance[bb] = BigBlind THEN p.allin \cup {bb} ELSE p.allin
       /\ r.balance[bb] = p.balance[bb] - BigBlind
       /\ r.balance[sb] = small.balance[sb]
    BY <1>6, <1>7, <1>13, <1>14, <1>17, <1>19, <1>21 DEF Blinded
<1>25. Listed(p) = {sb, bb}
    <2>1. PICK o \in Listed(p) : IsOther(p, sb, o) BY <1>6, PairIs
    <2>. QED BY <1>6, <2>1 DEF IsOther
<1>26. sb \in Able(r) /\ \A q \in Able(r) : r.balance[q] > 0
    <2>1. Able(r) \subseteq {sb, bb} BY <1>22, <1>25 DEF Able
    <2>2. sb \in Able(r) BY <1>6, <1>22, <1>23, <1>24 DEF Able, Fresh
    <2>3. bb \in Able(r) => r.balance[bb] > 0
        <3>1. bb \in Able(r) => p.balance[bb] # BigBlind BY <1>24 DEF Able
        <3>. QED BY <1>6, <1>11, <1>24, <3>1
    <2>4. r.balance[sb] > 0 BY <1>14, <1>24
    <2>. QED BY <2>1, <2>2, <2>3, <2>4
<1>27. Able(r) = Listed(r) \/ r.is_playing_last
    <2>1. Able(r) = Able(big) BY <1>21 DEF Able, Listed, SameSeats
    <2>2. Able(r) = {sb} \/ Able(r) = {sb, bb} BY <1>22, <1>25, <1>26 DEF Able
    <2>3. Able(r) = {sb} => r.is_playing_last
        <3>1. Cardinality({sb}) = 1 BY FS_Singleton
        <3>2. Cardinality(Able(big)) = 1 => big.is_playing_last BY <1>19 DEF Blinded
        <3>. QED BY <1>21, <2>1, <3>1, <3>2
    <2>. QED BY <1>22, <1>25, <2>2, <2>3
<1>28. GetByPosition(r, r.playing_position) = sb
    <2>1. PICK o \in Listed(between) :
             IsOther(between, bb, o) /\ big.playing_position = between.position[o]
        BY <1>19 DEF Blinded
    <2>2. o = sb BY <1>6, <1>18, <2>1 DEF IsOther
    <2>3. r.playing_position = r.position[sb]
        BY <1>18, <1>21, <1>22, <2>1, <2>2 DEF SameSeats
    <2>4. sb \in Listed(r) BY <1>6, <1>22
    <2>5. GetByPosition(r, r.position[sb]) = sb BY <1>21, <1>22, <2>4, PairIs
    <2>. QED BY <2>3, <2>5
<1>29. r.bet[bb] = BigBlind
    <2>1. r.bet[bb] = Plus(small.bet[bb], BigBlind) BY <1>17, <1>19, <1>21 DEF Blinded
    <2>2. Plus(0, BigBlind) = BigBlind
        <3>1. 0 + BigBlind <= BigBlind /\ 0 + BigBlind = BigBlind BY <1>11
        <3>. QED BY <3>1, ChipFacts, PlusExact
    <2>. QED BY <1>14, <2>1, <2>2
<1>30. TwoHanded(r)
    <2>1. InHand(r) /\ r.raised \subseteq PREFLOP .. r.state
        BY <1>23 DEF InHand, PREFLOP, RIVER
    <2>2. Square(r) BY <1>21, <1>23, <1>29 DEF Square
    <2>3. Listed(r) \subseteq r.playing \ r.folded BY <1>22, <1>23 DEF Fresh
    <2>. QED BY <1>6, <1>22, <1>23, <1>26, <1>27, <1>28, <2>1, <2>2, <2>3 DEF TwoHanded
<1>. QED BY <1>3, <1>21, <1>22, <1>30

-------------------------------------------------------------------------------
(* A table for two: two joins, by players who bring the big blind at least *)
(* and take different seats; nobody unjoins, and whoever is seated for the *)
(* next hand still covers the big blind.                                   *)
HeadsUp ==
    /\ MaxJoins = 2 /\ Leavers = {}
    /\ BigBlind <= EnteranceMin
    /\ \A r \in JoinRequests : r.amount >= BigBlind
    /\ \A r, s \in JoinRequests :
          r.account # s.account => r.position % MaxPlayers # s.position % MaxPlayers

(* Everybody at the table is one of the clients J, on the seat he asked    *)
(* for, and none of them left.                                             *)
AtTable(p, J) ==
    /\ p.left = {} /\ NoRepeats(p.players)
    /\ \A q, o \in Listed(p) : p.account[q] = p.account[o] => q = o
    /\ \A q \in Listed(p) :
          /\ p.account[q] \in J
          /\ \E r \in JoinRequests :
                r.account = p.account[q] /\ p.position[q] = r.position % MaxPlayers

(* A step that keeps the seats keeps them at the table.                   *)
LEMMA AtTableKept ==
    ASSUME NEW p, NEW r, NEW J, AtTable(p, J), SameSeats(p, r)
    PROVE  AtTable(r, J)
BY DEF AtTable, SameSeats, Listed

(* Two at the table have a seat and an account each.                       *)
LEMMA AtTablePair ==
    ASSUME HeadsUp, NEW p \in Table, NEW J, AtTable(p, J), Len(p.players) = 2, p.fault = "none"
    PROVE  Pair(p)
<1>1. ASSUME NEW i \in DOMAIN p.players, NEW j \in DOMAIN p.players, i # j
      PROVE  /\ p.account[p.players[i]] # p.account[p.players[j]]
             /\ p.position[p.players[i]] # p.position[p.players[j]]
    <2> DEFINE q == p.players[i]
               o == p.players[j]
    <2>1. q \in Listed(p) /\ o \in Listed(p) BY DEF Listed
    <2>2. q # o BY <1>1 DEF AtTable, NoRepeats
    <2> HIDE DEF q, o
    <2>3. p.account[q] # p.account[o] BY <2>1, <2>2 DEF AtTable
    <2>4. PICK r \in JoinRequests :
             r.account = p.account[q] /\ p.position[q] = r.position % MaxPlayers
        BY <2>1 DEF AtTable
    <2>5. PICK s \in JoinRequests :
             s.account = p.account[o] /\ p.position[o] = s.position % MaxPlayers
        BY <2>1 DEF AtTable
    <2>6. r.position % MaxPlayers # s.position % MaxPlayers
        BY <2>3, <2>4, <2>5 DEF HeadsUp
    <2>7. p.position[q] # p.position[o] BY <2>4, <2>5, <2>6
    <2>. QED BY <2>3, <2>7 DEF q, o
<1>. QED BY <1>1 DEF Pair, AtTable, OneToASeat

(* Where two are, after n joins, with this many starts and restarts        *)
(* pending: before the first hand, between two hands, in a hand, after it. *)
Phase(p, n, starts, restarts) ==
    \/ p.state <= STARTING /\ Fresh(p) /\ restarts = 0 /\ starts <= 1 /\ (starts > 0 => n = 2)
    \/ /\ p.state <= STARTING /\ \A q \in Listed(p) : p.balance[q] >= BigBlind
       /\ n = 2 /\ restarts = 1 /\ starts = 0
    \/ Len(p.players) = 2 /\ TwoHanded(p) /\ n = 2 /\ restarts = 0 /\ starts = 0
    \/ p.state = DONE /\ n = 2 /\ restarts = 0 /\ starts = 0

Starts == Waiting("start") + Waiting("forgotten")

HeadsUpInv ==
    /\ poker.fault \in {"none", "null"}
    /\ Running =>
         /\ joins <= 2 /\ Len(poker.players) <= joins
         /\ AtTable(poker, joined)
         /\ Phase(poker, joins, Starts, Waiting("restart"))

(* Nobody has a hand to lose: the table only waits.                        *)
Idle(p, r) ==
    /\ Kept(p, r) /\ r.balance = p.balance /\ r.allin = p.allin
    /\ r.last_raised_pos = p.last_raised_pos /\ r.is_playing_last = p.is_playing_last
    /\ p.state <= STARTING /\ r.state <= STARTING

(* A step of the table without a deal: nothing, waiting, or a hand of two  *)
(* that goes on or is over.                                                *)
Onward(p, r) ==
    \/ Alike(p, r)
    \/ Idle(p, r)
    \/ InHand(p) /\ SameSeats(p, r) /\ (r.state = DONE \/ TwoHanded(r))

(* It keeps the seats and the phase.                                      *)
LEMMA OnwardKept ==
    ASSUME NEW p \in Table, NEW r, Onward(p, r),
           NEW n, NEW starts, NEW restarts, Phase(p, n, starts, restarts)
    PROVE  SameSeats(p, r) /\ Phase(r, n, starts, restarts)
<1>1. SameSeats(p, r) BY DEF Onward, Alike, Idle, Kept
<1>2. Listed(r) = Listed(p) /\ r.players = p.players BY <1>1 DEF SameSeats, Listed
<1>3. p.state \in 0 .. 9 BY FieldTypes DEF CREATED, DONE
<1>4. CASE Alike(p, r)
    <2>1. TwoHanded(p) => TwoHanded(r) BY <1>4, TwoHandedAlike
    <2>2. Fresh(p) => Fresh(r) BY <1>2, <1>4 DEF Fresh, Alike, Kept
    <2>3. r.state = p.state /\ r.balance = p.balance BY <1>4 DEF Alike
    <2>. QED BY <1>1, <1>2, <2>1, <2>2, <2>3 DEF Phase
<1>5. CASE Idle(p, r)
    <2>1. Fresh(p) => Fresh(r) BY <1>2, <1>5 DEF Fresh, Idle, Kept
    <2>2. r.state <= STARTING /\ r.balance = p.balance BY <1>5 DEF Idle
    <2>3. ~TwoHanded(p) /\ p.state # DONE
        BY <1>3, <1>5 DEF Idle, TwoHanded, InHand, STARTING, PREFLOP, RIVER, DONE
    <2>. QED BY <1>1, <1>2, <2>1, <2>2, <2>3 DEF Phase
<1>6. CASE InHand(p) /\ SameSeats(p, r) /\ (r.state = DONE \/ TwoHanded(r))
    <2>1. ~(p.state <= STARTING) /\ p.state # DONE
        BY <1>3, <1>6 DEF InHand, STARTING, PREFLOP, RIVER, DONE
    <2>2. Len(p.players) = 2 /\ n = 2 /\ restarts = 0 /\ starts = 0 BY <2>1 DEF Phase
    <2>. QED BY <1>2, <1>6, <2>2 DEF Phase
<1>. QED BY <1>4, <1>5, <1>6 DEF Onward

(* Clearing the reflections changes nothing the rest speaks of.            *)
LEMMA BecomesAlike ==
    ASSUME NEW p, NEW r \in Table, NEW q, Becomes(r, q), Onward(p, r)
    PROVE  Onward(p, poker')
<1> DEFINE none == 0
<1>1. poker' = [r EXCEPT !.reflections = none] BY DEF Becomes
<1> HIDE DEF none
<1>2. Alike(r, poker') BY <1>1 DEF Table, Alike, Kept, SameSeats
<1>3. CASE Alike(p, r) BY <1>2, <1>3 DEF Onward, Alike, Kept, SameSeats
<1>4. CASE Idle(p, r) BY <1>2, <1>4 DEF Onward, Idle, Alike, Kept, SameSeats
<1>5. CASE InHand(p) /\ SameSeats(p, r) /\ (r.state = DONE \/ TwoHanded(r))
    <2>1. SameSeats(p, poker') /\ poker'.state = r.state
        BY <1>2, <1>5 DEF Alike, Kept, SameSeats
    <2>2. TwoHanded(r) => TwoHanded(poker') BY <1>2, TwoHandedAlike
    <2>. QED BY <1>5, <2>1, <2>2 DEF Onward
<1>. QED BY <1>3, <1>4, <1>5 DEF Onward

(* Such a step of a session, with the same deals pending.                  *)
LEMMA OnwardStep ==
    ASSUME IInv, HeadsUpInv, Running, poker'.fault = "null" \/ Onward(poker, poker'),
           joined' = joined, joins' = joins,
           \A t \in DealTasks : Count(queue', t) + Count(timers', t) = Waiting(t)
    PROVE  HeadsUpInv'
<1>1. CASE poker'.fault = "null"
    <2>1. "null" # "none" OBVIOUS
    <2>. QED BY <1>1, <2>1 DEF HeadsUpInv, Running
<1>2. CASE Onward(poker, poker')
    <2>1. poker \in Table BY DEF IInv, TypeOK
    <2>2. /\ joins <= 2 /\ Len(poker.players) <= joins /\ AtTable(poker, joined)
          /\ Phase(poker, joins, Starts, Waiting("restart"))
        BY DEF HeadsUpInv
    <2>3. SameSeats(poker, poker') /\ Phase(poker', joins, Starts, Waiting("restart"))
        BY <1>2, <2>1, <2>2, OnwardKept
    <2>4. Starts' = Starts /\ Waiting("restart")' = Waiting("restart")
        BY DEF Starts, Waiting, DealTasks
    <2>5. AtTable(poker', joined) BY <2>2, <2>3, AtTableKept
    <2>6. poker'.fault = "none" /\ poker'.players = poker.players
        BY <2>3 DEF SameSeats, Running
    <2>. QED BY <2>2, <2>3, <2>4, <2>5, <2>6 DEF HeadsUpInv
<1>. QED BY <1>1, <1>2

-------------------------------------------------------------------------------
(* What is where in a session of two.                                      *)
LEMMA TwoFacts ==
    ASSUME HeadsUp, IInv, HeadsUpInv, Running
    PROVE  /\ poker \in Table /\ poker.fault = "none" /\ poker.left = {}
           /\ joins \in Nat /\ joins <= 2 /\ Len(poker.players) \in Nat
           /\ Len(poker.players) <= joins /\ AtTable(poker, joined)
           /\ Phase(poker, joins, Starts, Waiting("restart"))
           /\ InHand(poker) => Pair(poker) /\ TwoHanded(poker)
           /\ InHand(poker) \/ poker.state <= STARTING \/ poker.state = DONE
<1>1. /\ poker \in Table /\ poker.fault = "none" /\ joins \in Nat
      /\ joins <= 2 /\ Len(poker.players) <= joins /\ AtTable(poker, joined)
      /\ Phase(poker, joins, Starts, Waiting("restart"))
    BY DEF IInv, TypeOK, HeadsUpInv, Running
<1>2. poker.state \in 0 .. 9 /\ Len(poker.players) \in Nat
    BY <1>1, FieldTypes, ListedType DEF CREATED, DONE
<1>3. InHand(poker) => ~(poker.state <= STARTING) /\ poker.state # DONE
    BY <1>2 DEF InHand, STARTING, PREFLOP, RIVER, DONE
<1>4. InHand(poker) => Len(poker.players) = 2 /\ TwoHanded(poker)
    BY <1>1, <1>3 DEF Phase
<1>5. InHand(poker) => Pair(poker) BY <1>1, <1>4, AtTablePair
<1>6. InHand(poker) \/ poker.state <= STARTING \/ poker.state = DONE
    BY <1>1 DEF Phase, TwoHanded
<1>7. poker.left = {} BY <1>1 DEF AtTable
<1>. QED BY <1>1, <1>2, <1>4, <1>5, <1>6, <1>7

(* An action of one of the two.                                            *)
LEMMA DoActionOnward ==
    ASSUME HeadsUp, IInv, HeadsUpInv, Running, NEW q \in Listed(poker), NEW kind,
           NEW amount \in Chips, NEW ranking \in Rankings(poker)
    PROVE  /\ DoAction(poker, q, kind, amount, ranking) \in Table
           /\ Onward(poker, DoAction(poker, q, kind, amount, ranking))
<1> DEFINE r == DoAction(poker, q, kind, amount, ranking)
<1>1. poker \in Table /\ Visible(poker) BY DEF IInv, TypeOK
<1>2. r \in Table /\ (r = poker \/ InHand(poker)) BY <1>1, DoActionType
<1>3. CASE r = poker BY <1>2, <1>3 DEF Onward, Alike, Kept, SameSeats
<1>4. CASE InHand(poker)
    <2>1. Pair(poker) /\ TwoHanded(poker) BY <1>4, TwoFacts
    <2>2. SameSeats(poker, r) /\ (r.state = DONE \/ TwoHanded(r))
        BY <1>1, <2>1, DoActionTwo
    <2> HIDE DEF r
    <2>3. Onward(poker, r) BY <1>4, <2>2 DEF Onward
    <2>. QED BY <1>2, <2>3 DEF r
<1>. QED BY <1>2, <1>3, <1>4

(* A client's action.                                                     *)
LEMMA ActionTwo ==
    ASSUME HeadsUp, IInv, HeadsUpInv, Running, NEW a \in Accounts, NEW req \in ActionRequests,
           NEW ranking \in Rankings(poker), ClientAction(a, req, ranking)
    PROVE  HeadsUpInv'
<1> DEFINE q == GetById(poker, a)
           r == DoAction(poker, q, req.kind, req.amount, ranking)
<1>1. poker \in Table /\ req.amount \in Chips /\ queue \in Seq(Tasks)
    BY ActionAssumption DEF IInv, TypeOK
<1>2. q \in Listed(poker) BY <1>1, LookupType DEF ClientAction
<1>3. Becomes(r, queue) /\ timers' = timers /\ joined' = joined /\ joins' = joins
    BY DEF ClientAction
<1> HIDE DEF q
<1>4. r \in Table /\ Onward(poker, r) BY <1>1, <1>2, DoActionOnward
<1> HIDE DEF r
<1>5. Onward(poker, poker') BY <1>3, <1>4, BecomesAlike
<1>6. \A t \in DealTasks : Count(queue', t) + Count(timers', t) = Waiting(t)
    BY <1>1, <1>3, <1>4, BecomesCount DEF Waiting, DealTasks
<1>. QED BY <1>3, <1>5, <1>6, OnwardStep

(* So a task that pops the queue and runs the table keeps the invariant.  *)
LEMMA PopTwo ==
    ASSUME IInv, HeadsUpInv, Running, NEW t, Pops(t), t \notin DealTasks, NEW r \in Table,
           r.fault = "null" \/ Onward(poker, r), Becomes(r, Tail(queue)),
           timers' = timers, joined' = joined, joins' = joins
    PROVE  HeadsUpInv'
<1>1. \A u \in DealTasks : Count(queue', u) + Count(timers', u) = Waiting(u) BY PopCounts
<1>2. Tail(queue) \in Seq(Tasks) BY QueueTail
<1>3. poker'.fault = r.fault BY <1>2, BecomesTable
<1>4. Onward(poker, r) => Onward(poker, poker') BY BecomesAlike
<1>. QED BY <1>1, <1>3, <1>4, OnwardStep

(* The reflection of an action: nobody has left.                           *)
LEMMA ReflectTwo ==
    ASSUME HeadsUp, IInv, HeadsUpInv, Running, NEW ranking \in Rankings(poker),
           OnPokerAction(ranking)
    PROVE  HeadsUpInv'
<1> DEFINE null == Fails(poker, "null")
<1>1. poker \in Table /\ poker.left = {} BY TwoFacts
<1>2. /\ Becomes(null, Tail(queue)) \/ Becomes(poker, Tail(queue))
      /\ Pops("on_action") /\ timers' = timers /\ joined' = joined /\ joins' = joins
    BY <1>1 DEF OnPokerAction
<1>3. null \in Table /\ null.fault = "null" BY <1>1, FailsType DEF Faults
<1>4. Onward(poker, poker) BY DEF Onward, Alike, Kept, SameSeats
<1>5. "on_action" \notin DealTasks BY DEF DealTasks
<1> HIDE DEF null
<1>. QED BY <1>1, <1>2, <1>3, <1>4, <1>5, PopTwo

(* The proceed task: waiting, or a timeout's fold.                         *)
LEMMA ProceedTwo ==
    ASSUME HeadsUp, IInv, HeadsUpInv, Running, NEW ranking \in Rankings(poker),
           ProceedTask(ranking)
    PROVE  HeadsUpInv'
<1> DEFINE r == Proceed(poker, ranking)
           on_turn == GetByPosition(poker, poker.playing_position)
           null == Fails(poker, "null")
           state == W4P
           waits == [poker EXCEPT !.state = state]
<1>1. /\ poker \in Table /\ Visible(poker) /\ Len(poker.players) \in Nat
      /\ InHand(poker) \/ poker.state <= STARTING \/ poker.state = DONE
      /\ InHand(poker) => Pair(poker)
    BY TwoFacts DEF IInv
<1>2. /\ Becomes(r, Tail(queue)) /\ Pops("proceed") /\ poker.state # DONE
      /\ timers' = timers /\ joined' = joined /\ joins' = joins
    BY DEF ProceedTask
<1>3. r \in Table BY <1>1, ProceedType
<1>4. r.fault = "null" \/ Onward(poker, r)
    <2>1. CASE Len(poker.players) < 2
        <3>1. ~InHand(poker) BY <1>1, <2>1 DEF Pair
        <3>2. poker.state <= STARTING BY <1>1, <1>2, <3>1
        <3>3. state \notin SMALL_BLIND .. RIVER /\ state <= STARTING
            BY DEF SMALL_BLIND, RIVER, W4P, STARTING
        <3>4. r = IF ~(waits.state \in SMALL_BLIND .. RIVER /\ waits.overdue) THEN waits
                  ELSE IF on_turn = None THEN Fails(poker, "null")
                  ELSE DoAction(waits, on_turn, "FOLD", 0, ranking)
            BY <2>1 DEF Proceed
        <3> HIDE DEF state
        <3>5. waits.state = state BY <1>1 DEF Table
        <3>6. r = waits BY <3>3, <3>4, <3>5
        <3>7. Idle(poker, waits) BY <1>1, <3>2, <3>3 DEF Idle, Kept, SameSeats, Table
        <3> HIDE DEF waits, r
        <3>. QED BY <3>6, <3>7 DEF Onward
    <2>2. CASE ~(Len(poker.players) < 2)
        <3>1. r = poker \/ r = null \/ (on_turn # None /\ r = DoAction(poker, on_turn, "FOLD", 0, ranking))
            BY <2>2 DEF Proceed
        <3>2. CASE r = poker
            <4> HIDE DEF r
            <4>. QED BY <3>2 DEF Onward, Alike, Kept, SameSeats
        <3>3. CASE r = null
            <4>1. null.fault = "null" BY <1>1, FailsType DEF Faults
            <4> HIDE DEF r, null
            <4>. QED BY <3>3, <4>1
        <3>4. CASE on_turn # None /\ r = DoAction(poker, on_turn, "FOLD", 0, ranking)
            <4>1. on_turn \in Listed(poker) BY <1>1, <3>4, LookupType
            <4> HIDE DEF r, on_turn
            <4>2. 0 \in Chips BY ChipFacts
            <4>3. Onward(poker, DoAction(poker, on_turn, "FOLD", 0, ranking))
                BY <4>1, <4>2, DoActionOnward
            <4>. QED BY <3>4, <4>3
        <3>. QED BY <3>1, <3>2, <3>3, <3>4
    <2>. QED BY <2>1, <2>2
<1>5. "proceed" \notin DealTasks BY DEF DealTasks
<1> HIDE DEF r
<1>. QED BY <1>2, <1>3, <1>4, <1>5, PopTwo

(* The delay threads and the clock leave the table and the deals.         *)
LEMMA ClockTwo ==
    ASSUME IInv, HeadsUpInv, Running, ProceedDue \/ DealDue \/ Tick
    PROVE  HeadsUpInv'
<1>1. poker \in Table BY DEF IInv, TypeOK
<1>2. joined' = joined /\ joins' = joins BY DEF ProceedDue, DealDue, Tick
<1>3. poker' = poker \/ poker' = [poker EXCEPT !.overdue = TRUE]
    BY DEF ProceedDue, DealDue, Tick
<1>4. Onward(poker, poker') BY <1>1, <1>3 DEF Onward, Alike, Kept, SameSeats, Table
<1>5. \A t \in DealTasks : Count(queue', t) + Count(timers', t) = Waiting(t) BY ClockCounts
<1>. QED BY <1>2, <1>4, <1>5, OnwardStep

-------------------------------------------------------------------------------
(* What a player finds at the table he joins before the first hand.        *)
LEMMA PlayersAddFields ==
    ASSUME NEW p \in Table, NEW q \in Players, NEW a, NEW pos, NEW amount, p.state <= STARTING
    PROVE  LET r == PlayersAdd(p, q, a, pos, amount)
           IN  \/ r = Fails(p, "null")
               \/ /\ r.players = Append(p.players, q) /\ r.left = p.left \ {q}
                  /\ r.account[q] = a /\ r.position[q] = pos % MaxPlayers
                  /\ r.balance[q] = amount /\ r.bet[q] = 0
                  /\ \A o \in Players \ {q} :
                        /\ r.account[o] = p.account[o] /\ r.position[o] = p.position[o]
                        /\ r.balance[o] = p.balance[o] /\ r.bet[o] = p.bet[o]
                  /\ r.playing = p.playing \cup {q} /\ r.folded = p.folded \ {q}
                  /\ r.allin = p.allin \ {q}
                  /\ r.last_raised_pos = p.last_raised_pos /\ r.raised = p.raised
                  /\ r.is_playing_last = p.is_playing_last /\ r.fault = p.fault
<1> DEFINE seat == pos % MaxPlayers
           players == Append(p.players, q)
           account == [p.account EXCEPT ![q] = a]
           position == [p.position EXCEPT ![q] = seat]
           balance == [p.balance EXCEPT ![q] = amount]
           bet == [p.bet EXCEPT ![q] = 0]
           playing == p.playing \cup {q}
           folded == p.folded \ {q}
           allin == p.allin \ {q}
           left == p.left \ {q}
           on_turn == IF p.sb_player = None THEN seat ELSE p.playing_position
           sb == IF p.sb_player = None THEN q ELSE p.sb_player
           bb == IF p.sb_player # None /\ p.bb_player = None THEN q ELSE p.bb_player
           r == [p EXCEPT !.players = players, !.account = account, !.position = position,
                          !.balance = balance, !.bet = bet, !.playing = playing,
                          !.folded = folded, !.allin = allin, !.left = left,
                          !.playing_position = on_turn, !.sb_player = sb, !.bb_player = bb]
<1>1. p.state < SMALL_BLIND
    <2>1. p.state \in 0 .. 9 BY FieldTypes DEF CREATED, DONE
    <2>. QED BY <2>1 DEF STARTING, SMALL_BLIND
<1>2. PlayersAdd(p, q, a, pos, amount) \in {Fails(p, "null"), r}
    BY <1>1 DEF PlayersAdd
<1>3. /\ account[q] = a /\ position[q] = pos % MaxPlayers
      /\ balance[q] = amount /\ bet[q] = 0
      /\ \A o \in Players \ {q} :
            /\ account[o] = p.account[o] /\ position[o] = p.position[o]
            /\ balance[o] = p.balance[o] /\ bet[o] = p.bet[o]
    BY DEF Table
<1> HIDE DEF players, account, position, balance, bet, playing, folded, allin, left
<1> HIDE DEF on_turn, sb, bb
<1>4. /\ r.players = players /\ r.left = left /\ r.account = account /\ r.position = position
      /\ r.balance = balance /\ r.bet = bet /\ r.playing = playing /\ r.folded = folded
      /\ r.allin = allin /\ r.last_raised_pos = p.last_raised_pos /\ r.raised = p.raised
      /\ r.is_playing_last = p.is_playing_last /\ r.fault = p.fault
    BY DEF Table
<1> HIDE DEF r
<1>. QED BY <1>2, <1>3, <1>4 DEF players, playing, folded, allin, left

(* The players who are not removed are as they were.                       *)
LEMMA PlayersRemoveFields ==
    ASSUME NEW p \in Table, NEW S
    PROVE  LET r == PlayersRemove(p, S)
           IN  /\ r.fault = p.fault
               /\ \A q \in Players \ S :
                     /\ r.account[q] = p.account[q] /\ r.position[q] = p.position[q]
                     /\ r.balance[q] = p.balance[q]
<1> DEFINE players == Without(p.players, S)
           account == [q \in Players |-> IF q \in S THEN None ELSE p.account[q]]
           position == [q \in Players |-> IF q \in S THEN 0 ELSE p.position[q]]
           balance == [q \in Players |-> IF q \in S THEN 0 ELSE p.balance[q]]
           bet == [q \in Players |-> IF q \in S THEN 0 ELSE p.bet[q]]
           playing == p.playing \ S
           folded == p.folded \ S
           allin == p.allin \ S
           left == p.left \ S
           r == [p EXCEPT !.players = players, !.account = account, !.position = position,
                          !.balance = balance, !.bet = bet, !.playing = playing,
                          !.folded = folded, !.allin = allin, !.left = left]
<1>1. PlayersRemove(p, S) = r BY DEF PlayersRemove
<1>2. \A q \in Players \ S :
         /\ account[q] = p.account[q] /\ position[q] = p.position[q]
         /\ balance[q] = p.balance[q]
    OBVIOUS
<1> HIDE DEF players, account, position, balance, bet, playing, folded, allin, left
<1>3. r.fault = p.fault /\ r.account = account /\ r.position = position /\ r.balance = balance
    BY DEF Table
<1> HIDE DEF r
<1>. QED BY <1>1, <1>2, <1>3

(* The lookup by account finds the player of the account.                  *)
LEMMA OwnId ==
    ASSUME NEW p \in Table, NEW J, AtTable(p, J), NEW q \in Listed(p)
    PROVE  GetById(p, p.account[q]) = q /\ GetById(p, p.account[q]) # None
<1> DEFINE S == {x \in Players : p.account[x] = p.account[q]}
<1>1. p.players \in Seq(Players) /\ q \in Players BY ListedType
<1>2. Listed(p) = {p.players[i] : i \in DOMAIN p.players} BY DEF Listed
<1>3. q \in S BY <1>1
<1>4. FirstOf(p.players, S) # None
    <2>1. S \cap {p.players[i] : i \in DOMAIN p.players} # {} BY <1>2, <1>3
    <2> HIDE DEF S
    <2>. QED BY <1>1, <2>1, FirstOfType
<1>5. FirstOf(p.players, S) \in S \cap Listed(p)
    <2> HIDE DEF S
    <2>. QED BY <1>1, <1>2, <1>4, FirstOfType
<1>6. FirstOf(p.players, S) = q BY <1>5 DEF AtTable
<1>. QED BY <1>4, <1>6 DEF GetById

(* A join finds the table before its first hand.                           *)
LEMMA JoinTwo ==
    ASSUME HeadsUp, IInv, HeadsUpInv, Running, NEW req \in JoinRequests, NEW q \in Players,
           Join(req, q)
    PROVE  HeadsUpInv'
<1> DEFINE r == PlayersAdd(poker, q, req.account, req.position, req.amount)
           starts == Len(r.players) = 2 /\ r.state = W4P
           state == STARTING
           seat == req.position % MaxPlayers
<1>1. /\ poker \in Table /\ poker.fault = "none" /\ poker.left = {}
      /\ joins \in Nat /\ Len(poker.players) \in Nat
      /\ Len(poker.players) <= joins /\ AtTable(poker, joined)
      /\ Phase(poker, joins, Starts, Waiting("restart"))
    BY TwoFacts
<1>2. /\ queue \in Seq(Tasks) /\ timers \in Seq(Tasks)
      /\ \A t : Count(queue, t) \in Nat /\ Count(timers, t) \in Nat /\ Waiting(t) \in Nat
    BY WaitingTypes
<1>3. req.account \in Accounts /\ req.position \in Nat /\ req.amount \in Chips
    BY JoinAssumption
<1>4. /\ q \notin Listed(poker) /\ req.account \notin joined /\ joins < 2
      /\ joined' = joined \cup {req.account} /\ joins' = joins + 1
      /\ poker' = IF starts THEN [r EXCEPT !.state = state] ELSE r
      /\ timers' = IF starts THEN Append(Forgotten(timers), "start") ELSE timers
      /\ queue' = IF starts THEN Forgotten(queue) ELSE queue
    BY DEF Join, HeadsUp
<1>5. /\ poker.state <= STARTING /\ Fresh(poker) /\ Starts = 0 /\ Waiting("restart") = 0
    <2>1. joins # 2 BY <1>1, <1>4
    <2>2. Starts \in Nat BY <1>2 DEF Starts
    <2>. QED BY <1>1, <2>1, <2>2 DEF Phase
<1>6. /\ r \in Table /\ r.state = poker.state
    BY <1>1, <1>3, PlayersAddType
<1>7. state \in CREATED .. DONE /\ state <= STARTING BY DEF STARTING, CREATED, DONE
<1>8. CASE r = Fails(poker, "null")
    <2>1. r.fault = "null" BY <1>1, <1>8, FailsType DEF Faults
    <2> HIDE DEF r, state
    <2>2. poker'.fault = "null" BY <1>4, <1>6, <2>1 DEF Table
    <2>3. "null" # "none" OBVIOUS
    <2>. QED BY <2>2, <2>3 DEF HeadsUpInv, Running
<1>9. CASE r # Fails(poker, "null")
    <2>1. /\ r.players = Append(poker.players, q) /\ r.left = poker.left \ {q}
          /\ r.account[q] = req.account /\ r.position[q] = seat
          /\ r.balance[q] = req.amount /\ r.bet[q] = 0
          /\ \A o \in Players \ {q} :
                /\ r.account[o] = poker.account[o] /\ r.position[o] = poker.position[o]
                /\ r.balance[o] = poker.balance[o] /\ r.bet[o] = poker.bet[o]
          /\ r.playing = poker.playing \cup {q} /\ r.folded = poker.folded \ {q}
          /\ r.allin = poker.allin \ {q}
          /\ r.last_raised_pos = poker.last_raised_pos /\ r.raised = poker.raised
          /\ r.is_playing_last = poker.is_playing_last /\ r.fault = poker.fault
        BY <1>1, <1>5, <1>9, PlayersAddFields
    <2> HIDE DEF r, state, seat
    <2>2. /\ poker'.players = r.players /\ poker'.left = r.left /\ poker'.account = r.account
          /\ poker'.position = r.position /\ poker'.balance = r.balance /\ poker'.bet = r.bet
          /\ poker'.playing = r.playing /\ poker'.folded = r.folded /\ poker'.allin = r.allin
          /\ poker'.last_raised_pos = r.last_raised_pos /\ poker'.raised = r.raised
          /\ poker'.is_playing_last = r.is_playing_last /\ poker'.fault = r.fault
          /\ poker'.state <= STARTING
        <3>1. CASE starts BY <1>4, <1>6, <1>7, <3>1 DEF Table
        <3>2. CASE ~starts BY <1>4, <1>5, <1>6, <3>2
        <3>. QED BY <3>1, <3>2
    <2>3. poker.players \in Seq(Players) /\ Listed(poker) = Members(poker.players)
        BY <1>1, ListedType DEF Listed, Members
    <2>4. /\ Len(poker'.players) = Len(poker.players) + 1
          /\ Listed(poker') = Listed(poker) \cup {q} /\ NoRepeats(poker'.players)
        <3>1. Len(Append(poker.players, q)) = Len(poker.players) + 1
            BY <2>3, AppendProperties
        <3>2. /\ Members(Append(poker.players, q)) = Members(poker.players) \cup {q}
              /\ NoRepeats(Append(poker.players, q))
            BY <1>1, <1>4, <2>3, AppendMembers DEF AtTable
        <3>. QED BY <2>1, <2>2, <2>3, <3>1, <3>2 DEF Listed, Members
    <2>5. \A o \in Listed(poker) :
             /\ o # q /\ o \in Players /\ poker'.account[o] = poker.account[o]
             /\ poker'.position[o] = poker.position[o]
             /\ poker'.balance[o] = poker.balance[o] /\ poker'.bet[o] = poker.bet[o]
        <3>1. \A o \in Listed(poker) : o # q /\ o \in Players BY <1>1, <1>4, ListedType
        <3>. QED BY <2>1, <2>2, <3>1
    <2>6. /\ poker'.account[q] = req.account /\ poker'.position[q] = seat
          /\ poker'.balance[q] = req.amount /\ poker'.bet[q] = 0
        BY <2>1, <2>2
    <2>7. AtTable(poker', joined')
        <3>1. ASSUME NEW x \in Listed(poker')
              PROVE  /\ poker'.account[x] \in joined'
                     /\ \E s \in JoinRequests :
                           s.account = poker'.account[x]
                              /\ poker'.position[x] = s.position % MaxPlayers
            BY <1>1, <1>4, <2>4, <2>5, <2>6 DEF AtTable, seat
        <3>2. ASSUME NEW x \in Listed(poker'), NEW o \in Listed(poker'),
                     poker'.account[x] = poker'.account[o]
              PROVE  x = o
            <4>1. \A y \in Listed(poker) : poker.account[y] \in joined BY <1>1 DEF AtTable
            <4>. QED BY <1>1, <1>4, <2>4, <2>5, <2>6, <3>2, <4>1 DEF AtTable
        <3>3. poker'.left = {} BY <1>1, <2>1, <2>2
        <3>. QED BY <2>4, <3>1, <3>2, <3>3 DEF AtTable
    <2>8. Fresh(poker')
        <3>1. req.amount >= BigBlind BY DEF HeadsUp
        <3>2. \A x \in Listed(poker') : poker'.bet[x] = 0 /\ poker'.balance[x] >= BigBlind
            BY <1>5, <2>4, <2>5, <2>6, <3>1 DEF Fresh
        <3>3. Listed(poker') \subseteq (poker'.playing \ poker'.folded) \ poker'.allin
            BY <1>5, <2>1, <2>2, <2>4 DEF Fresh
        <3>. QED BY <1>5, <2>1, <2>2, <3>2, <3>3 DEF Fresh
    <2>9. Starts' <= 1 /\ (Starts' > 0 => joins' = 2) /\ Waiting("restart")' = 0
        <3>1. CASE ~starts
            <4>1. Starts' = Starts /\ Waiting("restart")' = Waiting("restart")
                BY <1>4, <3>1 DEF Starts, Waiting
            <4>. QED BY <1>5, <4>1
        <3>2. CASE starts
            <4>1. "forgotten" \in Tasks /\ "start" \in Tasks BY DEF Tasks, DealTasks
            <4>2. /\ Count(queue, "start") = 0 /\ Count(timers, "start") = 0
                  /\ Count(queue, "forgotten") = 0 /\ Count(timers, "forgotten") = 0
                  /\ Count(queue, "restart") = 0 /\ Count(timers, "restart") = 0
                <5>1. Waiting("start") = 0 /\ Waiting("forgotten") = 0
                    BY <1>2, <1>5 DEF Starts
                <5>. QED BY <1>2, <1>5, <5>1 DEF Waiting
            <4>3. /\ Forgotten(timers) \in Seq(Tasks)
                  /\ Count(Forgotten(queue), "start") = 0 /\ Count(Forgotten(timers), "start") = 0
                  /\ Count(Forgotten(queue), "forgotten") = 0
                  /\ Count(Forgotten(timers), "forgotten") = 0
                  /\ Count(Forgotten(queue), "restart") = 0
                  /\ Count(Forgotten(timers), "restart") = 0
                BY <1>2, <4>1, <4>2, ForgottenCounts, ForgottenType
            <4>4. /\ Count(Append(Forgotten(timers), "start"), "start") = 0 + 1
                  /\ Count(Append(Forgotten(timers), "start"), "forgotten") = 0 + 0
                  /\ Count(Append(Forgotten(timers), "start"), "restart") = 0 + 0
                BY <4>1, <4>3, CountAppend
            <4>5. Waiting("start")' = 0 + 1 /\ Waiting("forgotten")' = 0 + 0
                  /\ Waiting("restart")' = 0 + 0
                BY <1>4, <3>2, <4>3, <4>4 DEF Waiting
            <4>6. joins' = 2
                <5>1. Len(poker.players) + 1 = 2 BY <2>2, <2>4, <3>2
                <5>. QED BY <1>1, <1>4, <5>1
            <4>7. Starts' = 1 BY <4>5 DEF Starts
            <4>. QED BY <4>5, <4>6, <4>7
        <3>. QED BY <3>1, <3>2
    <2>10. Phase(poker', joins', Starts', Waiting("restart")')
        BY <2>2, <2>8, <2>9 DEF Phase
    <2>11. joins' <= 2 /\ Len(poker'.players) <= joins'
        BY <1>1, <1>4, <2>4
    <2>12. poker'.fault = "none" BY <1>1, <2>1, <2>2
    <2>. QED BY <2>7, <2>10, <2>11, <2>12 DEF HeadsUpInv
<1>. QED BY <1>8, <1>9

(* After a hand the players who do not cover the entrance minimum go, and  *)
(* a restart is the only deal pending.                                     *)
LEMMA FinishTwo ==
    ASSUME HeadsUp, IInv, HeadsUpInv, Running, FinishTask
    PROVE  HeadsUpInv'
<1> DEFINE Broke == {a \in Accounts : /\ GetById(poker, a) # None
                                      /\ poker.balance[GetById(poker, a)] < EnteranceMin}
           leaving == Broke \cap joined
           gone == {GetById(poker, a) : a \in leaving}
           S == poker.left \cup gone
           removed == PlayersRemove(poker, S)
           state == IF Len(removed.players) < 2 THEN W4P ELSE STARTING
           alone == /\ leaving # {}
                    /\ Cardinality(joined) > 1
                    /\ Cardinality(joined \ leaving) <= 1
           rest == IF alone THEN Cancelled(timers) ELSE timers
<1>1. /\ poker \in Table /\ poker.fault = "none" /\ poker.left = {}
      /\ joins \in Nat /\ Len(poker.players) \in Nat
      /\ Len(poker.players) <= joins /\ AtTable(poker, joined)
      /\ Phase(poker, joins, Starts, Waiting("restart"))
    BY TwoFacts
<1>2. /\ queue \in Seq(Tasks) /\ timers \in Seq(Tasks) /\ joined \subseteq Accounts
      /\ \A t : Count(queue, t) \in Nat /\ Count(timers, t) \in Nat /\ Waiting(t) \in Nat
    BY WaitingTypes
<1>3. /\ Pops("proceed") /\ poker.state = DONE /\ joined' = joined \ leaving
      /\ poker' = [removed EXCEPT !.state = state]
      /\ timers' = Append(rest, "restart")
      /\ queue' = IF alone THEN Cancelled(Tail(queue)) ELSE Tail(queue)
      /\ joins' = joins
    BY DEF FinishTask
<1>4. joins = 2 /\ Starts = 0 /\ Waiting("restart") = 0
    BY <1>1, <1>3 DEF Phase, TwoHanded, InHand, DONE, STARTING, PREFLOP, RIVER
<1>5. S = gone BY <1>1
<1>6. ASSUME NEW q \in Listed(poker), q \notin gone
      PROVE  poker.account[q] \in joined \ leaving /\ poker.balance[q] >= BigBlind
    <2>1. GetById(poker, poker.account[q]) = q /\ GetById(poker, poker.account[q]) # None
        BY <1>1, OwnId
    <2>2. poker.account[q] \in joined /\ poker.account[q] \in Accounts
        BY <1>1, <1>2 DEF AtTable
    <2>3. poker.account[q] \notin leaving BY <1>6, <2>1
    <2>4. ~(poker.balance[q] < EnteranceMin) BY <2>1, <2>2, <2>3
    <2>5. poker.balance[q] \in Int /\ EnteranceMin \in Nat /\ BigBlind \in Nat
        BY <1>1, FieldTypes, ListedType, TableAssumption, BlindsAssumption
    <2>. QED BY <2>2, <2>3, <2>4, <2>5 DEF HeadsUp
<1>7. /\ removed \in Table /\ removed.players = Without(poker.players, S)
      /\ removed.left = poker.left \ S
    BY <1>1, PlayersRemoveType
<1>8. /\ removed.fault = poker.fault
      /\ \A q \in Players \ S :
            /\ removed.account[q] = poker.account[q] /\ removed.position[q] = poker.position[q]
            /\ removed.balance[q] = poker.balance[q]
    <2> HIDE DEF S
    <2>. QED BY <1>1, PlayersRemoveFields
<1>9. state \in CREATED .. DONE /\ state <= STARTING
    BY DEF W4P, STARTING, CREATED, DONE
<1> HIDE DEF removed, state, leaving, gone, alone
<1>10. /\ Members(Without(poker.players, S)) = Listed(poker) \ S
       /\ NoRepeats(Without(poker.players, S))
       /\ Len(Without(poker.players, S)) <= Len(poker.players)
       /\ Len(Without(poker.players, S)) \in Nat
    <2>1. poker.players \in Seq(Players) BY <1>1, ListedType
    <2>2. Listed(poker) = Members(poker.players) BY DEF Listed, Members
    <2>3. NoRepeats(poker.players) BY <1>1 DEF AtTable
    <2> HIDE DEF S
    <2>. QED BY <2>1, <2>2, <2>3, WithoutMembers, WithoutLength
<1> HIDE DEF S
<1>11. /\ poker'.state = state /\ poker'.players = removed.players
       /\ poker'.left = removed.left /\ poker'.fault = removed.fault
       /\ poker'.account = removed.account /\ poker'.position = removed.position
       /\ poker'.balance = removed.balance
    BY <1>3, <1>7 DEF Table
<1>12. Listed(poker') = Listed(poker) \ gone BY <1>5, <1>7, <1>10, <1>11 DEF Listed, Members
<1>13. \A q \in Listed(poker') :
          /\ q \in Listed(poker) /\ q \in Players \ S /\ q \notin gone
          /\ poker'.account[q] = poker.account[q] /\ poker'.position[q] = poker.position[q]
          /\ poker'.balance[q] = poker.balance[q]
    BY <1>1, <1>5, <1>8, <1>11, <1>12, ListedType
<1>14. AtTable(poker', joined')
    <2>1. poker'.left = {} BY <1>1, <1>7, <1>11
    <2>2. NoRepeats(poker'.players) BY <1>7, <1>10, <1>11
    <2>3. \A q, o \in Listed(poker') : poker'.account[q] = poker'.account[o] => q = o
        BY <1>1, <1>13 DEF AtTable
    <2>4. \A q \in Listed(poker') :
             /\ poker'.account[q] \in joined'
             /\ \E r \in JoinRequests :
                   r.account = poker'.account[q] /\ poker'.position[q] = r.position % MaxPlayers
        BY <1>1, <1>3, <1>6, <1>13 DEF AtTable
    <2>. QED BY <2>1, <2>2, <2>3, <2>4 DEF AtTable
<1>15. \A q \in Listed(poker') : poker'.balance[q] >= BigBlind BY <1>6, <1>13
<1>16. Starts' = 0 /\ Waiting("restart")' = 1
    <2>1. Tail(queue) \in Seq(Tasks) /\ queue # << >> /\ Head(queue) = "proceed"
        BY <1>3, QueueTail DEF Pops
    <2>2. rest \in {Cancelled(timers), timers} /\ queue' \in {Cancelled(Tail(queue)), Tail(queue)}
        BY <1>3
    <2>3. timers' = Append(rest, "restart") BY <1>3
    <2> HIDE DEF rest
    <2>4. /\ Waiting("start") = 0 /\ Waiting("forgotten") = 0 /\ Waiting("restart") = 0
        BY <1>2, <1>4 DEF Starts
    <2>5. ASSUME NEW t \in DealTasks
          PROVE  Count(queue', t) = 0 /\ Count(rest, t) = 0 /\ rest \in Seq(Tasks)
        <3>1. Waiting(t) = 0 BY <2>4 DEF DealTasks
        <3>2. Count(queue, t) = 0 /\ Count(timers, t) = 0 BY <1>2, <3>1 DEF Waiting
        <3>3. t # "proceed" BY DEF DealTasks
        <3>4. Count(queue, t) = Count(Tail(queue), t) + 0
            BY <1>2, <2>1, <3>3, CountTail
        <3>5. Count(Tail(queue), t) \in Nat BY <2>1, CountPlaces
        <3>6. Count(Tail(queue), t) = 0 BY <3>2, <3>4, <3>5
        <3>7. /\ Count(Cancelled(Tail(queue)), t) \in Nat
              /\ Count(Cancelled(Tail(queue)), t) <= Count(Tail(queue), t)
            BY <2>1, CancelledCounts
        <3>8. /\ Cancelled(timers) \in Seq(Tasks) /\ Count(Cancelled(timers), t) \in Nat
              /\ Count(Cancelled(timers), t) <= Count(timers, t)
            BY <1>2, CancelledCounts
        <3>9. Count(Cancelled(Tail(queue)), t) = 0 /\ Count(Cancelled(timers), t) = 0
            BY <3>2, <3>6, <3>7, <3>8
        <3>. QED BY <1>2, <2>2, <3>2, <3>6, <3>8, <3>9
    <2>6. "restart" \in Tasks BY DEF Tasks, DealTasks
    <2>7. ASSUME NEW t \in DealTasks
          PROVE  Waiting(t)' = IF t = "restart" THEN 1 ELSE 0
        <3>1. Count(timers', t) = Count(rest, t) + (IF "restart" = t THEN 1 ELSE 0)
            BY <2>3, <2>5, <2>6, CountAppend
        <3>2. Waiting(t)' = Count(queue', t) + Count(timers', t) BY DEF Waiting
        <3>. QED BY <2>5, <3>1, <3>2
    <2>8. Waiting("start")' = 0 /\ Waiting("forgotten")' = 0 /\ Waiting("restart")' = 1
        BY <2>7 DEF DealTasks
    <2>. QED BY <2>8 DEF Starts
<1>17. Phase(poker', joins', Starts', Waiting("restart")')
    BY <1>3, <1>4, <1>9, <1>11, <1>15, <1>16 DEF Phase
<1>18. joins' <= 2 /\ Len(poker'.players) <= joins'
    BY <1>1, <1>3, <1>4, <1>7, <1>10, <1>11
<1>19. poker'.fault = "none" BY <1>1, <1>8, <1>11
<1>. QED BY <1>14, <1>17, <1>18, <1>19 DEF HeadsUpInv

-------------------------------------------------------------------------------
(* A deal on a table set up for it, to two or to nobody.                   *)
LEMMA DealTwo ==
    ASSUME HeadsUp, NEW p \in Table, NEW J, AtTable(p, J), p.fault = "none", Fresh(p),
           Len(p.players) <= 2, NEW ranking \in Rankings(p)
    PROVE  LET r == Start(p, ranking)
           IN  /\ r \in Table /\ SameSeats(p, r)
               /\ r = p \/ (Len(r.players) = 2 /\ TwoHanded(r))
<1> DEFINE r == Start(p, ranking)
           staying == {i \in DOMAIN p.players : p.players[i] \notin p.left}
<1>1. DOMAIN p.players = 1 .. Len(p.players) /\ Len(p.players) \in Nat BY ListedType
<1>2. staying = 1 .. Len(p.players) BY <1>1 DEF AtTable
<1>3. Cardinality(1 .. Len(p.players)) = Len(p.players) BY <1>1, FS_Interval
<1>4. CASE Len(p.players) = 2
    <2>1. Pair(p) BY <1>4, AtTablePair
    <2>2. r \in Table /\ SameSeats(p, r) /\ TwoHanded(r) BY <2>1, StartTwo
    <2> HIDE DEF r
    <2>3. Len(r.players) = 2 BY <1>4, <2>2 DEF SameSeats
    <2>. QED BY <2>2, <2>3 DEF r
<1>5. CASE Len(p.players) # 2
    <2> HIDE DEF staying
    <2>1. Cardinality(staying) < 2
        <3>1. Cardinality(staying) = Len(p.players) BY <1>2, <1>3, Zenon
        <3>2. \A n \in Nat : n <= 2 /\ n # 2 => n < 2 OBVIOUS
        <3>3. Len(p.players) \in Nat BY <1>1
        <3>4. Len(p.players) < 2 BY <1>5, <3>2, <3>3, Zenon
        <3>. QED BY <3>1, <3>4
    <2>2. r = p BY <2>1, StartType DEF staying
    <2> HIDE DEF r
    <2>3. r \in Table /\ SameSeats(p, r) /\ r = p BY <2>2 DEF SameSeats
    <2>. QED BY <2>3 DEF r
<1>. QED BY <1>4, <1>5

(* What the deal leaves of the session once no deal is pending.            *)
LEMMA DealtTwo ==
    ASSUME HeadsUp, IInv, Running, NEW p \in Table, AtTable(p, joined), p.fault = "none",
           Fresh(p), p.state <= STARTING, joins = 2, Len(p.players) <= 2,
           NEW ranking \in Rankings(p),
           NEW q \in Seq(Tasks), Becomes(Start(p, ranking), q), joined' = joined, joins' = joins,
           Starts' = 0, Waiting("restart")' = 0
    PROVE  HeadsUpInv'
<1> DEFINE r == Start(p, ranking)
<1>1. /\ r \in Table /\ SameSeats(p, r)
      /\ r = p \/ (Len(r.players) = 2 /\ TwoHanded(r))
    BY DealTwo
<1> HIDE DEF r
<1>2. Onward(r, r) BY DEF Onward, Alike, Kept, SameSeats
<1>3. Becomes(r, q) BY DEF r
<1>4. Onward(r, poker') BY <1>1, <1>2, <1>3, BecomesAlike
<1>5. Phase(r, 2, 0, 0) BY <1>1 DEF Phase
<1>6. SameSeats(r, poker') /\ Phase(poker', 2, 0, 0) BY <1>1, <1>4, <1>5, OnwardKept
<1>7. AtTable(poker', joined) BY <1>1, <1>6, AtTableKept
<1>8. poker'.fault = "none" /\ poker'.players = p.players BY <1>1, <1>6 DEF SameSeats
<1>. QED BY <1>6, <1>7, <1>8 DEF HeadsUpInv

(* The start task deals the first hand.                                    *)
LEMMA StartTaskTwo ==
    ASSUME HeadsUp, IInv, HeadsUpInv, Running, NEW ranking \in Rankings(poker),
           StartTask(ranking)
    PROVE  HeadsUpInv'
<1> DEFINE u == Tail(queue)
           q == Forgotten(u)
           r == Start(poker, ranking)
<1>1. /\ poker \in Table /\ poker.fault = "none"
      /\ joins \in Nat /\ Len(poker.players) \in Nat
      /\ Len(poker.players) <= joins /\ AtTable(poker, joined)
      /\ Phase(poker, joins, Starts, Waiting("restart"))
    BY TwoFacts
<1>2. /\ queue \in Seq(Tasks) /\ timers \in Seq(Tasks)
      /\ \A t : Count(queue, t) \in Nat /\ Count(timers, t) \in Nat /\ Waiting(t) \in Nat
    BY WaitingTypes
<1>3. /\ queue # << >> /\ Head(queue) \in {"start", "forgotten"}
      /\ Becomes(r, q) /\ timers' = Forgotten(timers) /\ joined' = joined /\ joins' = joins
    BY DEF StartTask
<1>4. u \in Seq(Tasks) /\ q \in Seq(Tasks)
    BY <1>2, <1>3, QueueTail, ForgottenDriving DEF Pops
<1> HIDE DEF u
<1>5. /\ \A t : Count(u, t) \in Nat
      /\ Count(queue, "start") = Count(u, "start") + (IF Head(queue) = "start" THEN 1 ELSE 0)
      /\ Count(queue, "forgotten")
           = Count(u, "forgotten") + (IF Head(queue) = "forgotten" THEN 1 ELSE 0)
      /\ Count(queue, "restart")
           = Count(u, "restart") + (IF Head(queue) = "restart" THEN 1 ELSE 0)
    BY <1>2, <1>3, <1>4, CountTail, CountPlaces DEF u
<1>6. Starts > 0
    <2>1. CASE Head(queue) = "start" BY <1>2, <1>5, <2>1 DEF Starts, Waiting
    <2>2. CASE Head(queue) = "forgotten" BY <1>2, <1>5, <2>2 DEF Starts, Waiting
    <2>. QED BY <1>3, <2>1, <2>2
<1>7. /\ poker.state <= STARTING /\ Fresh(poker) /\ joins = 2
      /\ Starts <= 1 /\ Waiting("restart") = 0
    BY <1>1, <1>6 DEF Phase
<1>8. /\ Count(u, "start") = 0 /\ Count(u, "forgotten") = 0 /\ Count(u, "restart") = 0
      /\ Count(timers, "start") = 0 /\ Count(timers, "forgotten") = 0
      /\ Count(timers, "restart") = 0
    <2>1. Count(queue, "start") + Count(timers, "start")
             + (Count(queue, "forgotten") + Count(timers, "forgotten")) <= 1
        BY <1>7 DEF Starts, Waiting
    <2>2. /\ Count(u, "start") = 0 /\ Count(u, "forgotten") = 0
          /\ Count(timers, "start") = 0 /\ Count(timers, "forgotten") = 0
        <3>1. CASE Head(queue) = "start" BY <1>2, <1>5, <2>1, <3>1
        <3>2. CASE Head(queue) = "forgotten" BY <1>2, <1>5, <2>1, <3>2
        <3>. QED BY <1>3, <3>1, <3>2
    <2>3. Count(u, "restart") = 0 /\ Count(timers, "restart") = 0
        BY <1>2, <1>3, <1>5, <1>7 DEF Waiting
    <2>. QED BY <2>2, <2>3
<1>9. r \in Table BY <1>1, <1>7, DealTwo
<1> HIDE DEF r
<1>10. Starts' = 0 /\ Waiting("restart")' = 0
    <2>1. "forgotten" \in Tasks BY DEF Tasks, DealTasks
    <2>2. /\ Count(q, "start") = 0 /\ Count(q, "forgotten") = 0 /\ Count(q, "restart") = 0
          /\ Count(timers', "start") = 0 /\ Count(timers', "forgotten") = 0
          /\ Count(timers', "restart") = 0
        BY <1>2, <1>3, <1>4, <1>8, <2>1, ForgottenCounts
    <2> HIDE DEF q
    <2>3. /\ Count(queue', "start") = 0 /\ Count(queue', "forgotten") = 0
          /\ Count(queue', "restart") = 0
        BY <1>3, <1>4, <1>9, <2>2, BecomesCount
    <2>. QED BY <2>2, <2>3 DEF Starts, Waiting
<1> HIDE DEF q
<1>11. Becomes(Start(poker, ranking), q) BY <1>3 DEF r
<1>12. Len(poker.players) <= 2 BY <1>1, <1>7
<1>. QED BY <1>1, <1>3, <1>4, <1>7, <1>10, <1>11, <1>12, DealtTwo

(* A restart sets the table up for the next hand.                          *)
LEMMA ResetFresh ==
    ASSUME NEW p \in Table, \A q \in Listed(p) : p.balance[q] >= BigBlind
    PROVE  SameSeats(p, Reset(p)) /\ Fresh(Reset(p))
<1> DEFINE nobody == -1
           button == IF p.button_position + 1 >= Len(p.players) THEN 0
                     ELSE p.button_position + 1
           playing == p.playing \cup Listed(p)
           folded == p.folded \ Listed(p)
           allin == p.allin \ Listed(p)
           bet == [q \in Players |-> IF q \in Listed(p) THEN 0 ELSE p.bet[q]]
           full == Modulus - 1
           nil == {}
           nothing == 0
           r == [p EXCEPT
                   !.state = W4P, !.synced_action_counter = nothing, !.last_raised_pos = nobody,
                   !.is_sb_must_call = FALSE, !.winner = None, !.is_playing_last = FALSE,
                   !.pot_amount = nothing, !.current_raise = full, !.current_bet = full,
                   !.raised = nil, !.sb_player = None, !.bb_player = None,
                   !.button_position = button, !.playing = playing, !.folded = folded,
                   !.allin = allin, !.bet = bet]
<1>1. Reset(p) = r BY DEF Reset
<1>2. Listed(p) \subseteq Players BY ListedType
<1>3. \A q \in Listed(p) : bet[q] = 0 BY <1>2
<1>4. Listed(p) \subseteq (playing \ folded) \ allin
    <2>1. ASSUME NEW x \in Listed(p) PROVE x \in (playing \ folded) \ allin OBVIOUS
    <2> HIDE DEF playing, folded, allin
    <2>. QED BY <2>1
<1> HIDE DEF nobody, button, playing, folded, allin, bet, full, nil, nothing
<1>5. /\ SameSeats(p, r) /\ r.playing = playing /\ r.folded = folded /\ r.allin = allin
      /\ r.bet = bet /\ r.balance = p.balance /\ r.last_raised_pos = nobody
      /\ r.raised = nil /\ ~r.is_playing_last
    BY DEF Table, SameSeats
<1> HIDE DEF r
<1>6. Listed(r) = Listed(p) BY <1>5 DEF SameSeats, Listed
<1>7. r.last_raised_pos = -1 /\ r.raised = {} BY <1>5 DEF nobody, nil
<1>8. Fresh(r) BY <1>3, <1>4, <1>5, <1>6, <1>7 DEF Fresh
<1>. QED BY <1>1, <1>5, <1>8

(* The restart task deals the next hand, to two or to nobody.             *)
LEMMA RestartTaskTwo ==
    ASSUME HeadsUp, IInv, HeadsUpInv, Running, NEW ranking \in Rankings(poker),
           RestartTask(ranking)
    PROVE  HeadsUpInv'
<1> DEFINE q == Tail(queue)
           p == Reset(poker)
           r == Start(p, ranking)
<1>1. /\ poker \in Table /\ poker.fault = "none"
      /\ joins \in Nat /\ Len(poker.players) \in Nat
      /\ Len(poker.players) <= joins /\ AtTable(poker, joined)
      /\ Phase(poker, joins, Starts, Waiting("restart"))
    BY TwoFacts
<1>2. /\ queue \in Seq(Tasks) /\ timers \in Seq(Tasks)
      /\ \A t : Count(queue, t) \in Nat /\ Count(timers, t) \in Nat /\ Waiting(t) \in Nat
    BY WaitingTypes
<1>3. /\ queue # << >> /\ Head(queue) = "restart" /\ Pops("restart")
      /\ Becomes(r, q) /\ timers' = timers /\ joined' = joined /\ joins' = joins
    BY DEF RestartTask, Pops
<1>4. q \in Seq(Tasks) BY <1>3, QueueTail
<1>5. /\ \A t : Count(q, t) \in Nat
      /\ Count(queue, "start") = Count(q, "start") + 0
      /\ Count(queue, "forgotten") = Count(q, "forgotten") + 0
      /\ Count(queue, "restart") = Count(q, "restart") + 1
    BY <1>2, <1>3, <1>4, CountTail, CountPlaces
<1> HIDE DEF q
<1>6. Waiting("restart") > 0 BY <1>2, <1>5 DEF Waiting
<1>7. /\ poker.state <= STARTING /\ \A x \in Listed(poker) : poker.balance[x] >= BigBlind
      /\ joins = 2 /\ Starts = 0 /\ Waiting("restart") = 1
    BY <1>1, <1>6 DEF Phase
<1>8. /\ p \in Table /\ p.state = W4P /\ p.players = poker.players
    BY <1>1, ResetType
<1>9. SameSeats(poker, p) /\ Fresh(p) BY <1>1, <1>7, ResetFresh
<1>10. ranking \in Rankings(p) BY <1>8 DEF Rankings, Listed
<1> HIDE DEF p
<1>11. /\ AtTable(p, joined) /\ p.fault = "none" /\ p.state <= STARTING
       /\ Len(p.players) <= 2
    <2>1. AtTable(p, joined) BY <1>1, <1>9, AtTableKept
    <2>2. p.state <= STARTING BY <1>8 DEF W4P, STARTING
    <2>3. p.fault = "none" BY <1>1, <1>9 DEF SameSeats
    <2>. QED BY <1>1, <1>7, <1>8, <2>1, <2>2, <2>3
<1>12. r \in Table BY <1>8, <1>9, <1>10, <1>11, DealTwo
<1> HIDE DEF r
<1>13. Starts' = 0 /\ Waiting("restart")' = 0
    <2>1. /\ Count(queue', "start") = Count(q, "start")
          /\ Count(queue', "forgotten") = Count(q, "forgotten")
          /\ Count(queue', "restart") = Count(q, "restart")
        BY <1>3, <1>4, <1>12, BecomesCount
    <2>2. Waiting("start")' + Waiting("forgotten")' = Starts
        BY <1>2, <1>3, <1>5, <2>1 DEF Waiting, Starts
    <2>3. Waiting("restart")' + 1 = Waiting("restart")
        BY <1>2, <1>3, <1>5, <2>1 DEF Waiting
    <2>4. Waiting("restart")' \in Nat BY <1>2, <1>3, <1>5, <2>1 DEF Waiting
    <2>. QED BY <1>7, <2>2, <2>3, <2>4 DEF Starts
<1>14. Becomes(Start(p, ranking), q) BY <1>3 DEF r
<1>. QED BY <1>3, <1>4, <1>7, <1>8, <1>9, <1>10, <1>11, <1>13, <1>14, DealtTwo

-------------------------------------------------------------------------------

(* A session starts before the first hand.                                *)
LEMMA InitTwo == Init => HeadsUpInv
<1>1. SUFFICES ASSUME Init PROVE HeadsUpInv
    OBVIOUS
<1>2. /\ queue = <<"proceed">> /\ timers = << >> /\ joined = {} /\ joins = 0
      /\ poker.state = CREATED /\ poker.players = << >> /\ poker.left = {}
      /\ poker.last_raised_pos = -1 /\ poker.raised = {} /\ ~poker.is_playing_last
      /\ poker.fault = "none"
    BY <1>1 DEF Init, NewTable
<1>3. Listed(poker) = {} BY <1>2 DEF Listed
<1>4. AtTable(poker, joined) BY <1>2, <1>3 DEF AtTable, NoRepeats
<1>5. Fresh(poker) BY <1>2, <1>3 DEF Fresh
<1>6. \A t \in DealTasks : Waiting(t) = 0
    <2>1. ASSUME NEW t \in DealTasks PROVE Count(<<"proceed">>, t) = 0
        <3>1. {i \in DOMAIN <<"proceed">> : <<"proceed">>[i] = t} = {} BY DEF DealTasks
        <3>. QED BY <3>1, FS_EmptySet DEF Count
    <2>2. ASSUME NEW t \in DealTasks PROVE Count(<< >>, t) = 0
        <3>1. {i \in DOMAIN << >> : << >>[i] = t} = {} OBVIOUS
        <3>. QED BY <3>1, FS_EmptySet DEF Count
    <2>. QED BY <1>2, <2>1, <2>2 DEF Waiting
<1>7. Starts = 0 /\ Waiting("restart") = 0 BY <1>6 DEF Starts, DealTasks
<1>8. CREATED <= STARTING BY DEF CREATED, STARTING
<1>9. Phase(poker, joins, Starts, Waiting("restart")) BY <1>2, <1>5, <1>7, <1>8 DEF Phase
<1>10. Len(poker.players) = 0 BY <1>2
<1>. QED BY <1>2, <1>4, <1>9, <1>10 DEF HeadsUpInv

(* Every step of a session of two keeps the invariant.                     *)
LEMMA NextTwo ==
    ASSUME HeadsUp, IInv, HeadsUpInv, [Next]_vars
    PROVE  HeadsUpInv'
<1>1. CASE UNCHANGED vars
    BY <1>1 DEF vars, HeadsUpInv, Running, Starts, Waiting, Count
<1>2. CASE Next
    <2>1. Running BY <1>2 DEF Next
    <2>2. CASE ClientStep
        <3>1. Leavers = {} BY DEF HeadsUp
        <3>. QED BY <2>1, <2>2, <3>1, JoinTwo, ActionTwo DEF ClientStep
    <2>3. CASE TaskStep
        BY <2>1, <2>3, FinishTwo, ReflectTwo, ProceedTwo, StartTaskTwo, RestartTaskTwo
        DEF TaskStep, Deals
    <2>4. CASE ProceedDue \/ DealDue \/ Tick BY <2>1, <2>4, ClockTwo
    <2>. QED BY <1>2, <2>2, <2>3, <2>4 DEF Next
<1>. QED BY <1>1, <1>2

(* At a table for two whoever has the turn can act, whatever the two send, *)
(* all-ins, raises below the bet and timeouts included (poker.c:578-614    *)
(* and 631); with three the turn may come to one who cannot.               *)
THEOREM TwoCanAct == HeadsUp /\ Spec => []TurnCanAct
<1>1. SUFFICES ASSUME HeadsUp PROVE Spec => []TurnCanAct
    OBVIOUS
<1>2. Init => HeadsUpInv BY InitTwo
<1>3. IInv /\ HeadsUpInv /\ [Next]_vars => HeadsUpInv' BY <1>1, NextTwo
<1>4. IInv /\ HeadsUpInv => TurnCanAct
    BY <1>1, TwoFacts DEF TurnCanAct, TwoHanded
<1>. QED BY <1>2, <1>3, <1>4, Invariance, PTL DEF Spec

(* Nor does such a table ever search its seats in vain (poker.c:116, 132   *)
(* and 600) or read an unfilled entry at a showdown (poker.c:909).         *)
THEOREM TwoNeverHang == HeadsUp /\ Spec => []NoHang
<1>1. SUFFICES ASSUME HeadsUp PROVE Spec => []NoHang
    OBVIOUS
<1>2. Init => HeadsUpInv BY InitTwo
<1>3. IInv /\ HeadsUpInv /\ [Next]_vars => HeadsUpInv' BY <1>1, NextTwo
<1>4. HeadsUpInv => NoHang
    <2>1. "none" \notin {"spin", "undefined"} /\ "null" \notin {"spin", "undefined"} OBVIOUS
    <2>. QED BY <2>1 DEF HeadsUpInv, NoHang
<1>. QED BY <1>2, <1>3, <1>4, Invariance, PTL DEF Spec
===============================================================================
