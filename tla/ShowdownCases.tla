---------------------------- MODULE ShowdownCases ----------------------------
(***************************************************************************)
(* The showdown in its two halves: the rank of Cards on hands of seven,    *)
(* and the payout of Showdown on every small showdown: who is listed, who  *)
(* has folded or left, what each has bet, and any order of the ranks.      *)
(***************************************************************************)
EXTENDS Showdown, Cards, FiniteSetsExt

CONSTANTS Listed,   \* the players in the table's list
          MaxBet,   \* bound: the largest bet
          Ranks,    \* the cards of the instance: of every kind with these indexes,
          Singles,  \* and of one kind with these
          Shuffles  \* the orders in which a hand's cards come

ASSUME CardsAssumption == Ranks \subseteq 0 .. 12 /\ Singles \subseteq 0 .. 12
ASSUME ShufflesAssumption ==
    Shuffles \subseteq {p \in [1 .. 7 -> 1 .. 7] : \A i, j \in 1 .. 7 : p[i] = p[j] => i = j}
ASSUME ListedAssumption == IsFiniteSet(Listed) /\ MaxBet \in Nat

VARIABLES ranking, contenders, bet, result,   \* a payout
          seven, rank                         \* a hand

payout == <<ranking, contenders, bet, result>>
hand == <<seven, rank>>

Pot == MapThenSumSet(LAMBDA q : bet[q], Listed)

Orders == {r \in [1 .. Cardinality(Listed) -> Listed] :
              \A i, j \in DOMAIN r : r[i] = r[j] => i = j}

NoResult == [pay |-> << >>]

Payouts ==
    /\ ranking \in Orders
    /\ contenders \in SUBSET Listed \ {{}}
    /\ bet \in [Listed -> 0 .. MaxBet]
    /\ result = NoResult
    /\ seven = << >> /\ rank = 0

Deck == {c \in Drawable(<< >>) : c.index \in Ranks \/ (c.index \in Singles /\ c.kind = 0)}
Number(c) == 3 * c.index + c.kind
Nth(cards, n) == CHOOSE c \in cards : Cardinality({d \in cards : Number(d) <= Number(c)}) = n
Hands ==
    /\ \E cards \in kSubset(7, Deck), p \in Shuffles :
         seven = [i \in 1 .. 7 |-> Nth(cards, p[i])]
    /\ rank = 0
    /\ ranking = << >> /\ contenders = {} /\ bet = << >> /\ result = NoResult

CasesInit == Payouts \/ Hands

ShowDown ==
    /\ ranking # << >> /\ result = NoResult
    /\ result' = Settle(ranking, contenders, bet, Pot)
    /\ UNCHANGED <<ranking, contenders, bet, hand>>

Rank ==
    /\ seven # << >> /\ rank = 0
    /\ rank' = BestRank(seven)
    /\ UNCHANGED <<seven, payout>>

CasesNext == ShowDown \/ Rank

Spec == CasesInit /\ [][CasesNext]_<<payout, hand>>

Settled == result # NoResult /\ result.is_defined
Level   == \A q, o \in Listed : bet[q] = bet[o]

(* Reference: what the player at place i of the ranking wins is, from each *)
(* bet, what his own bet matches beyond what those ranked higher match.    *)
Smaller(x, y) == IF x <= y THEN x ELSE y
Above(q) ==
    LET i == CHOOSE i \in DOMAIN ranking : ranking[i] = q
    IN  {ranking[k] : k \in 1 .. (i - 1)} \cap contenders
Won(q) ==
    [o \in Listed |->
        Max({0, Smaller(bet[o], bet[q]) - Max({0} \cup {Smaller(bet[o], bet[k]) : k \in Above(q)})})]
SidePots ==
    [q \in contenders |->
        LET won == Won(q)
        IN  MapThenSumSet(LAMBDA o : won[o], Listed)]

(* The payout never hands out more than the players who are paid have bet, *)
(* so it creates no chips whatever the bets (poker.c:929-960).             *)
NeverOverpays ==
    Settled => MapThenSumSet(LAMBDA q : result.pay[q], Listed)
                 <= MapThenSumSet(LAMBDA q : bet[q], contenders)

(* From each opponent a player wins at most what he has bet himself, which *)
(* is what limits a player who is all-in (poker.c:941-944).                *)
OnlyMatchedBetsAreWon ==
    Settled => \A q \in contenders : result.pay[q] <= bet[q] * Cardinality(contenders)

(* The payout is the reference's when everybody has bet the same, and for  *)
(* two contenders when the better hand has bet no more than the other.     *)
PaysSidePots ==
    LET short == /\ Cardinality(contenders) = 2
                 /\ bet[ranking[1]] <= bet[ranking[2]]
    IN  Settled /\ (Level \/ short) =>
            \A q \in contenders : result.pay[q] = SidePots[q]

(* The category of a hand is the best one that any five of the seven make, *)
(* from how many cards there are of each index and of each kind; straights *)
(* apart, which are looked for in the wrong direction (card.c:304).        *)
Count(i) == Cardinality({k \in 1 .. 7 : seven[k].index = i})
Suited(s) == Cardinality({k \in 1 .. 7 : seven[k].kind = s})
BestCategory ==
    LET many(n) == {i \in 0 .. 12 : Count(i) >= n}
    IN  Max({1} \cup {c \in 2 .. 7 :
                \/ c = 7 /\ many(3) # {} /\ Cardinality(many(2)) >= 2
                \/ c = 6 /\ \E s \in 0 .. 3 : Suited(s) >= 5
                \/ c = 4 /\ many(3) # {}
                \/ c = 3 /\ Cardinality(many(2)) >= 2
                \/ c = 2 /\ many(2) # {}})
CategoryIsRight == rank # 0 => rank \div 1000000 = BestCategory

(* The leading number of the rank, by which two hands of a category are    *)
(* compared first, is the best card the category can have in these seven:  *)
(* whatever order the cards were dealt in, and whichever of the 21 fives   *)
(* was looked at first.  For two pairs it is the lower one, for a high     *)
(* card the lowest of the best five.                                       *)
NthHighest(s, n) == Max({i \in s : Cardinality({j \in s : j > i}) >= n - 1})
LeadsWithItsGroup ==
    LET many(n) == {i \in 0 .. 12 : Count(i) >= n}
        suit == CHOOSE s \in 0 .. 3 : Suited(s) >= 5
        lead == CASE BestCategory \in {7, 4} -> Max(many(3))
                  [] BestCategory = 6 -> Max({seven[k].index : k \in {k \in 1 .. 7 : seven[k].kind = suit}})
                  [] BestCategory = 3 -> NthHighest(many(2), 2)
                  [] BestCategory = 2 -> Max(many(2))
                  [] OTHER -> NthHighest(many(1), 5)
    IN  rank # 0 => (rank % 1000000) \div 10000 = lead + 1

(* PROTOCOL.md:812, earned_amount: "Pot amount that the winner earned".  A *)
(* winner who has matched every bet earns the pot.                         *)
WinnerEarnsThePot ==
    Settled /\ (\A q \in Listed : bet[q] <= bet[ranking[1]])
        => result.pay[ranking[1]] = Pot
===============================================================================
