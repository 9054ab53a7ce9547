---------------------------- MODULE ShowdownProofs ----------------------------
(***************************************************************************)
(* The cases of ShowdownCases: the showdowns for any number of players,    *)
(* all bets and any order of the ranks, holes among them, and what the     *)
(* loop of payouts can hand out; then the ranks of any seven cards of the  *)
(* deck, in any order of dealing.                                          *)
(***************************************************************************)
EXTENDS ShowdownCases, CommonProofs

(* The inductive invariant: the case is a showdown as the payout's lemmas  *)
(* mean it, and its result, once there is one, is what Settle makes of it. *)
CaseInv ==
    \/ result = NoResult /\ ranking = << >>
    \/ /\ Showdowns(ranking, contenders, bet)
       /\ Whole(ranking, bet, Pot) /\ DOMAIN bet = Listed
       /\ result \in {NoResult, Settle(ranking, contenders, bet, Pot)}

LEMMA PotIsASum == Pot = SumOf(bet, Listed)
BY DEF Pot, SumOf, MapThenSumSet, MapThenFoldSet

(* What is drawn at the start is a showdown.                               *)
LEMMA InitCase == CasesInit => CaseInv
<1>1. ASSUME Payouts PROVE CaseInv
    <2>1. /\ ranking \in Orders /\ contenders \in SUBSET Listed
          /\ bet \in [Listed -> 0 .. MaxBet] /\ result = NoResult
        BY <1>1 DEF Payouts
    <2>2. IsFiniteSet(Listed) /\ MaxBet \in Nat /\ Cardinality(Listed) \in Nat
        BY ListedAssumption, FS_CardinalityType
    <2>3. DOMAIN bet = Listed /\ bet \in [Listed -> Nat]
        BY <2>1, <2>2
    <2>4. /\ ranking \in Seq(Listed) /\ Len(ranking) = Cardinality(Listed)
          /\ \A i, j \in DOMAIN ranking : ranking[i] = ranking[j] => i = j
        <3>1. /\ ranking \in [1 .. Cardinality(Listed) -> Listed]
              /\ \A i, j \in DOMAIN ranking : ranking[i] = ranking[j] => i = j
            BY <2>1 DEF Orders
        <3>2. ranking \in Seq(Listed)
            BY <2>2, <3>1, SeqDef
        <3>3. Len(ranking) \in Nat /\ DOMAIN ranking = 1 .. Len(ranking)
            BY <3>2, LenProperties
        <3>4. DOMAIN ranking = 1 .. Cardinality(Listed)
            BY <3>1
        <3>5. Len(ranking) = Cardinality(Listed)
            BY <2>2, <3>3, <3>4
        <3>6. QED
            BY <3>1, <3>2, <3>5
    <2>5. Cardinality(contenders) <= Len(ranking)
        BY <2>1, <2>2, <2>4, FS_Subset
    <2>6. Whole(ranking, bet, Pot)
        BY <2>3, <2>4, PotIsASum DEF Whole
    <2>7. QED
        BY <2>1, <2>2, <2>3, <2>4, <2>5, <2>6 DEF CaseInv, Showdowns
<1>2. ASSUME Hands PROVE CaseInv
    BY <1>2 DEF Hands, CaseInv
<1>3. QED
    BY <1>1, <1>2 DEF CasesInit

(* A showdown, and a hand, keep it.                                        *)
LEMMA StepKeepsCase == CaseInv /\ [CasesNext]_<<payout, hand>> => CaseInv'
<1>1. SUFFICES ASSUME CaseInv, [CasesNext]_<<payout, hand>> PROVE CaseInv'
    OBVIOUS
<1>2. CASE ShowDown
    <2>1. /\ ranking # << >> /\ result' = Settle(ranking, contenders, bet, Pot)
          /\ ranking' = ranking /\ contenders' = contenders /\ bet' = bet
        BY <1>2 DEF ShowDown
    <2>2. Pot' = Pot
        BY <2>1 DEF Pot, MapThenSumSet, MapThenFoldSet
    <2>3. QED
        BY <1>1, <2>1, <2>2 DEF CaseInv
<1>3. CASE Rank \/ UNCHANGED <<payout, hand>>
    <2>1. /\ ranking' = ranking /\ contenders' = contenders /\ bet' = bet /\ result' = result
        BY <1>3 DEF Rank, payout
    <2>2. Pot' = Pot
        BY <2>1 DEF Pot, MapThenSumSet, MapThenFoldSet
    <2>3. QED
        BY <1>1, <2>1, <2>2 DEF CaseInv
<1>4. QED
    BY <1>1, <1>2, <1>3 DEF CasesNext

(* What a settled case has been paid.                                      *)
LEMMA SettledPays ==
    ASSUME CaseInv, Settled
    PROVE  /\ Listed = DOMAIN bet /\ contenders \in SUBSET Listed
           /\ SumOf(result.pay, Listed) <= SumOf(bet, contenders)
           /\ \A q \in Listed : result.pay[q] <= bet[q] * Cardinality(contenders)
           /\ \A q \in Listed : result.pay[q] \in Nat
<1>1. /\ Showdowns(ranking, contenders, bet) /\ DOMAIN bet = Listed
      /\ result = Settle(ranking, contenders, bet, Pot) /\ result.is_defined
    BY DEF CaseInv, Settled
<1>2. Pot \in Int
    <2>1. IsFiniteSet(Listed) /\ \A q \in Listed : bet[q] \in Nat
        BY <1>1 DEF Showdowns
    <2>2. QED
        BY <2>1, SumStep, PotIsASum
<1>3. result \in Settlements(Listed) => \A q \in Listed : result.pay[q] \in Nat
    BY DEF Settlements
<1>4. QED
    BY <1>1, <1>2, <1>3, SettleWithin DEF Showdowns

(* The reference definition: what its parts come to.                       *)
LEMMA AboveIs ==
    ASSUME Showdowns(ranking, contenders, bet), NEW k \in DOMAIN ranking
    PROVE  Above(ranking[k]) = {ranking[j] : j \in 1 .. (k - 1)} \cap contenders
<1>1. (CHOOSE i \in DOMAIN ranking : ranking[i] = ranking[k]) = k
    BY DEF Showdowns
<1>2. QED
    BY <1>1 DEF Above

LEMMA SidePotIsASum ==
    ASSUME NEW q \in contenders
    PROVE  SidePots[q] = SumOf(Won(q), Listed)
<1>1. SidePots[q] = MapThenSumSet(LAMBDA o : Won(q)[o], Listed)
    BY DEF SidePots
<1>2. QED
    BY <1>1 DEF SumOf, MapThenSumSet, MapThenFoldSet

(* From a bet the best hand wins what its own bet matches of it.           *)
LEMMA FirstWins ==
    ASSUME bet \in [Listed -> Nat], NEW q \in Listed, Above(q) = {}, NEW o \in Listed
    PROVE  Won(q)[o] = Smaller(bet[o], bet[q])
<1> DEFINE m == Smaller(bet[o], bet[q])
<1>1. m \in Nat
    BY DEF Smaller
<1>2. {0} \cup {Smaller(bet[o], bet[k]) : k \in Above(q)} = {0}
    OBVIOUS
<1>3. Max({0}) = 0
    BY MaxOnly
<1> HIDE DEF m
<1>4. m - 0 = m /\ Max({0, m}) = m
    BY <1>1, MaxOnly
<1>5. QED
    BY <1>2, <1>3, <1>4 DEF Won, m

(* A hand below another wins what its bet matches beyond the other's.      *)
LEMMA NextWins ==
    ASSUME bet \in [Listed -> Nat], NEW q \in Listed, NEW o \in Listed,
           NEW k \in Listed, Above(q) # {}, \A r \in Above(q) : bet[r] = bet[k]
    PROVE  Won(q)[o] = IF Smaller(bet[o], bet[q]) >= Smaller(bet[o], bet[k])
                       THEN Smaller(bet[o], bet[q]) - Smaller(bet[o], bet[k]) ELSE 0
<1> DEFINE m == Smaller(bet[o], bet[q])
           l == Smaller(bet[o], bet[k])
<1>1. m \in Nat /\ l \in Nat
    BY DEF Smaller
<1>2. {0} \cup {Smaller(bet[o], bet[r]) : r \in Above(q)} = {0, l}
    OBVIOUS
<1> HIDE DEF m, l
<1>3. Max({0, l}) = l
    BY <1>1, MaxOnly
<1>4. Max({0, m - l}) = IF m >= l THEN m - l ELSE 0
    <2> DEFINE d == m - l
    <2>1. d \in Int /\ (m >= l <=> d >= 0)
        BY <1>1
    <2> HIDE DEF d
    <2>2. d >= 0 => Max({0, d}) = d
        BY <2>1, MaxOnly
    <2>3. ~(d >= 0) => Max({0, d}) = 0
        <3>1. SUFFICES ASSUME ~(d >= 0) PROVE Max({0, d}) = 0
            OBVIOUS
        <3>2. 0 \in {0, d} /\ {0, d} \in SUBSET Int /\ \A x \in {0, d} : x <= 0
            BY <2>1, <3>1
        <3>3. QED
            BY <3>2, MaxOnly
    <2>4. QED
        BY <2>1, <2>2, <2>3 DEF d
<1>5. QED
    BY <1>2, <1>3, <1>4 DEF Won, m, l

(* A settled case, as the payout's lemmas have it.                         *)
LEMMA SettledCase ==
    ASSUME CaseInv, Settled, NEW q \in contenders
    PROVE  /\ Showdowns(ranking, contenders, bet) /\ Whole(ranking, bet, Pot)
           /\ DOMAIN bet = Listed /\ IsFiniteSet(Listed) /\ bet \in [Listed -> Nat]
           /\ result = Settle(ranking, contenders, bet, Pot) /\ result.is_defined
           /\ contenders \in SUBSET Listed /\ Pot \in Int
           /\ Len(ranking) \in Nat \ {0} /\ DOMAIN ranking = 1 .. Len(ranking)
           /\ Len(ranking) = Cardinality(Listed)
           /\ \A i \in 1 .. Len(ranking) : ranking[i] \in Listed
           /\ \A o \in Listed : \E i \in 1 .. Len(ranking) : ranking[i] = o
<1>1. /\ Showdowns(ranking, contenders, bet) /\ Whole(ranking, bet, Pot)
      /\ result = Settle(ranking, contenders, bet, Pot) /\ result.is_defined
      /\ DOMAIN bet = Listed
    BY DEF CaseInv, Settled
<1>2. Pot \in Int
    <2>1. IsFiniteSet(Listed) /\ \A o \in Listed : bet[o] \in Nat
        BY <1>1 DEF Showdowns
    <2>2. QED
        BY <2>1, SumStep, PotIsASum
<1>3. /\ Len(ranking) \in Nat /\ DOMAIN ranking = 1 .. Len(ranking)
      /\ \A i \in 1 .. Len(ranking) : ranking[i] \in Listed
      /\ \A o \in Listed : \E i \in 1 .. Len(ranking) : ranking[i] = o
    BY <1>1, RankingCovers
<1>4. contenders \in SUBSET Listed /\ q \in Listed
    BY <1>1 DEF Showdowns
<1>5. Len(ranking) # 0
    BY <1>3, <1>4
<1>6. QED
    BY <1>1, <1>2, <1>3, <1>4, <1>5 DEF Showdowns, Whole

(* If everybody has bet the same, the best hand wins it all.               *)
LEMMA LevelIsPaid ==
    ASSUME CaseInv, Settled, Level, NEW q \in contenders
    PROVE  result.pay[q] = SidePots[q]
<1> DEFINE n == Len(ranking)
           r1 == ranking[1]
           b == bet[r1]
<1>1. /\ Showdowns(ranking, contenders, bet) /\ Whole(ranking, bet, Pot)
      /\ DOMAIN bet = Listed /\ IsFiniteSet(Listed) /\ bet \in [Listed -> Nat]
      /\ result = Settle(ranking, contenders, bet, Pot) /\ result.is_defined
      /\ contenders \in SUBSET Listed /\ Pot \in Int
      /\ n \in Nat \ {0} /\ DOMAIN ranking = 1 .. n /\ n = Cardinality(Listed)
      /\ \A i \in 1 .. n : ranking[i] \in Listed
      /\ \A o \in Listed : \E i \in 1 .. n : ranking[i] = o
    BY SettledCase
<1>2. 1 \in 1 .. n /\ r1 \in Listed /\ b \in Nat /\ \A o \in Listed : bet[o] = b
    BY <1>1 DEF Level
<1>3. /\ r1 \in contenders /\ Unreached(1, ranking, contenders) \in SUBSET contenders
      /\ result.pay[r1] = b * (1 + Cardinality(
             {o \in Unreached(1, ranking, contenders) : bet[o] >= b}))
    <2>1. /\ Showdowns(ranking, contenders, bet) /\ Whole(ranking, bet, Pot)
          /\ n # 0 /\ result = Settle(ranking, contenders, bet, Pot) /\ result.is_defined
        BY <1>1
    <2>2. QED
        BY <2>1, FirstTwoPaid
<1>4. SidePots[r1] = b * n
    <2>1. Above(r1) = {}
        BY <1>1, <1>2, AboveIs
    <2>2. \A o \in Listed : Won(r1)[o] = Smaller(bet[o], b)
        BY <1>1, <1>2, <2>1, FirstWins
    <2>3. \A o \in Listed : Won(r1)[o] = b
        BY <1>2, <2>2 DEF Smaller
    <2>4. SumOf(Won(r1), Listed) = b * Cardinality(Listed)
        BY <1>1, <1>2, <2>3, SumOfSame
    <2>5. QED
        BY <1>1, <1>3, <2>4, SidePotIsASum
<1>5. q # r1 => SidePots[q] = 0
    <2>1. SUFFICES ASSUME q # r1 PROVE SidePots[q] = 0
        OBVIOUS
    <2>2. PICK k \in 1 .. n : ranking[k] = q
        BY <1>1
    <2>3. Above(q) = {ranking[j] : j \in 1 .. (k - 1)} \cap contenders /\ 1 \in 1 .. (k - 1)
        <3>1. k # 1 /\ k \in DOMAIN ranking
            BY <1>1, <2>1, <2>2
        <3>2. Above(q) = {ranking[j] : j \in 1 .. (k - 1)} \cap contenders
            BY <1>1, <2>2, <3>1, AboveIs
        <3>3. 1 \in 1 .. (k - 1)
            BY <1>1, <3>1
        <3>4. QED
            BY <3>2, <3>3
    <2>4. r1 \in Above(q) /\ Above(q) \in SUBSET Listed
        BY <1>1, <1>3, <2>3
    <2>5. \A r \in Above(q) : bet[r] = bet[r1]
        BY <1>2, <2>4
    <2>6. \A o \in Listed : Won(q)[o] =
              IF Smaller(bet[o], bet[q]) >= Smaller(bet[o], b)
              THEN Smaller(bet[o], bet[q]) - Smaller(bet[o], b) ELSE 0
        BY <1>1, <1>2, <2>4, <2>5, NextWins
    <2>7. \A o \in Listed : Won(q)[o] = 0
        BY <1>1, <1>2, <2>6 DEF Smaller
    <2>8. SumOf(Won(q), Listed) = 0
        BY <1>1, <2>7, SumOfNothing
    <2>9. QED
        BY <2>8, SidePotIsASum
<1>6. /\ \A o \in Listed : result.pay[o] \in Nat
      /\ SumOf(result.pay, Listed) <= SumOf(bet, contenders)
      /\ result.pay[q] <= bet[q] * Cardinality(contenders)
    BY <1>1, SettledPays
<1>7. CASE b = 0
    <2>1. IsFiniteSet(contenders)
        BY <1>1, FS_Subset
    <2>2. Cardinality(contenders) \in Nat /\ bet[q] = 0 /\ q \in Listed
        BY <1>1, <1>2, <1>7, <2>1, FS_CardinalityType
    <2>3. result.pay[q] = 0
        BY <1>6, <2>2
    <2>4. QED
        BY <1>1, <1>4, <1>5, <1>7, <2>3
<1>8. CASE b # 0
    <2>1. contenders = Listed
        <3>1. \A o \in Listed \ contenders : bet[o] = 0
            BY <1>1, PaidToTheLast
        <3>2. QED
            BY <1>1, <1>2, <1>8, <3>1
    <2>2. {o \in Unreached(1, ranking, contenders) : bet[o] >= b} = Listed \ {r1}
        <3>1. Unreached(1, ranking, contenders) = {ranking[j] : j \in 2 .. n}
            BY <1>1, <2>1 DEF Unreached
        <3>2. \A j \in 2 .. n : ranking[j] \in Listed \ {r1}
            BY <1>1, <1>2 DEF Showdowns
        <3>3. \A o \in Listed \ {r1} : \E j \in 2 .. n : ranking[j] = o
            <4>1. \A j \in 1 .. n : j = 1 \/ j \in 2 .. n
                BY <1>1
            <4>2. QED
                BY <1>1, <4>1
        <3>4. Unreached(1, ranking, contenders) = Listed \ {r1}
            BY <3>1, <3>2, <3>3
        <3>5. \A o \in Listed : bet[o] >= b
            BY <1>2
        <3>6. QED
            BY <3>4, <3>5
    <2>3. Cardinality(Listed \ {r1}) = n - 1
        <3>1. IsFiniteSet(Listed) /\ r1 \in Listed /\ n = Cardinality(Listed)
            BY <1>1, <1>2
        <3> HIDE DEF n, r1
        <3>2. QED
            BY <3>1, FS_RemoveElement
    <2>4. result.pay[r1] = b * n
        <3>1. 1 + (n - 1) = n
            BY <1>1
        <3>2. QED
            BY <1>3, <2>2, <2>3, <3>1
    <2>5. CASE q = r1
        BY <1>4, <2>4, <2>5
    <2>6. CASE q # r1
        <3> DEFINE rest == Listed \ {r1}
        <3>1. SumOf(result.pay, Listed) = result.pay[r1] + SumOf(result.pay, rest)
            BY <1>1, <1>2, <1>6, SumStep
        <3>2. IsFiniteSet(rest) /\ \A o \in rest : result.pay[o] \in Nat
            BY <1>1, <1>6, FS_Subset
        <3>3. SumOf(result.pay, rest) \in Nat
            BY <3>2, SumStep
        <3>4. SumOf(bet, contenders) = b * n
            BY <1>1, <1>2, <2>1, SumOfSame
        <3>5. q \in rest
            BY <1>1, <2>6
        <3>6. SumOf(result.pay, rest) = 0
            <4> DEFINE all == b * n
            <4>1. all \in Nat
                BY <1>1, <1>2
            <4> HIDE DEF all, rest
            <4>2. all + SumOf(result.pay, rest) <= all
                BY <1>6, <2>4, <3>1, <3>4 DEF all
            <4>3. QED
                BY <3>3, <4>1, <4>2
        <3> HIDE DEF rest
        <3>7. result.pay[q] = 0
            BY <3>2, <3>5, <3>6, SumIsNothing
        <3>8. QED
            BY <1>5, <2>6, <3>7
    <2>7. QED
        BY <2>5, <2>6
<1>9. QED
    BY <1>7, <1>8

(* Of two contenders the better one, if he has bet no more than the other, *)
(* wins as much from him as he has bet; the other has the rest back.       *)
LEMMA ShortIsPaid ==
    ASSUME CaseInv, Settled, Cardinality(contenders) = 2, bet[ranking[1]] <= bet[ranking[2]],
           NEW q \in contenders
    PROVE  result.pay[q] = SidePots[q]
<1> DEFINE n == Len(ranking)
           r1 == ranking[1]
           r2 == ranking[2]
<1>1. /\ Showdowns(ranking, contenders, bet) /\ Whole(ranking, bet, Pot)
      /\ DOMAIN bet = Listed /\ IsFiniteSet(Listed) /\ bet \in [Listed -> Nat]
      /\ result = Settle(ranking, contenders, bet, Pot) /\ result.is_defined
      /\ contenders \in SUBSET Listed /\ Pot \in Int
      /\ n \in Nat \ {0} /\ DOMAIN ranking = 1 .. n /\ n = Cardinality(Listed)
      /\ \A i \in 1 .. n : ranking[i] \in Listed
    BY SettledCase
<1>2. 1 \in 1 .. n /\ 2 \in 1 .. n
    BY <1>1 DEF Showdowns
<1>3. /\ r1 \in Listed /\ r2 \in Listed /\ r1 # r2
      /\ bet[r1] \in Nat /\ bet[r2] \in Nat /\ bet[r1] <= bet[r2]
    BY <1>1, <1>2 DEF Showdowns
<1>4. /\ r1 \in contenders /\ Unreached(1, ranking, contenders) \in SUBSET contenders
      /\ result.pay[r1] = bet[r1] * (1 + Cardinality(
             {o \in Unreached(1, ranking, contenders) : bet[o] >= bet[r1]}))
      /\ result.pay[r2] = bet[r2] - bet[r1]
    <2>1. /\ Showdowns(ranking, contenders, bet) /\ Whole(ranking, bet, Pot)
          /\ n # 0 /\ result = Settle(ranking, contenders, bet, Pot) /\ result.is_defined
        BY <1>1
    <2>2. QED
        BY <2>1, FirstTwoPaid
<1>5. Unreached(1, ranking, contenders) = {r2}
    <2>1. (1 + 1) .. Cardinality(contenders) = {2}
        OBVIOUS
    <2>2. QED
        BY <2>1 DEF Unreached
<1>6. contenders = {r1, r2}
    <2>1. {r1, r2} \in SUBSET contenders /\ IsFiniteSet(contenders)
        BY <1>1, <1>4, <1>5, FS_Subset
    <2>2. /\ IsFiniteSet(contenders \ {r1}) /\ r2 \in contenders \ {r1}
          /\ Cardinality(contenders \ {r1}) = 1
        <3>1. r1 \in contenders /\ r2 \in contenders \ {r1} /\ 2 - 1 = 1
            BY <1>3, <2>1
        <3> HIDE DEF r1, r2
        <3>2. QED
            BY <2>1, <3>1, FS_RemoveElement
    <2>3. /\ IsFiniteSet((contenders \ {r1}) \ {r2})
          /\ Cardinality((contenders \ {r1}) \ {r2}) = 0
        <3>1. 1 - 1 = 0
            OBVIOUS
        <3> HIDE DEF r1, r2
        <3>2. QED
            BY <2>2, <3>1, FS_RemoveElement
    <2>4. (contenders \ {r1}) \ {r2} = {}
        BY <2>3, FS_EmptySet
    <2>5. QED
        BY <2>1, <2>4
<1>7. \A o \in Listed \ {r1, r2} : bet[o] = 0
    BY <1>1, <1>6, PaidToTheLast
<1>8. CASE q = r1
    <2>1. Cardinality({r2}) = 1
        BY FS_Singleton
    <2>2. {o \in {r2} : bet[o] >= bet[r1]} = {r2}
        BY <1>3
    <2>3. result.pay[r1] = bet[r1] * (1 + 1)
        BY <1>4, <1>5, <2>1, <2>2
    <2>4. Above(r1) = {}
        BY <1>1, <1>2, AboveIs
    <2>5. \A o \in Listed : Won(r1)[o] = Smaller(bet[o], bet[r1])
        BY <1>1, <1>3, <2>4, FirstWins
    <2>6. /\ \A o \in Listed : Won(r1)[o] \in Nat
          /\ Won(r1)[r1] = bet[r1] /\ Won(r1)[r2] = bet[r1]
          /\ \A o \in Listed \ {r1, r2} : Won(r1)[o] = 0
        BY <1>1, <1>3, <1>7, <2>5 DEF Smaller
    <2>7. SumOf(Won(r1), Listed) = bet[r1] + bet[r1]
        <3> DEFINE won == Won(r1)
        <3>1. /\ IsFiniteSet(Listed) /\ r1 \in Listed /\ r2 \in Listed /\ r1 # r2
              /\ \A o \in Listed : won[o] \in Nat
              /\ \A o \in Listed \ {r1, r2} : won[o] = 0
            BY <1>1, <1>3, <2>6
        <3> HIDE DEF won, r1, r2
        <3>2. SumOf(won, Listed) = won[r1] + won[r2]
            BY <3>1, SumOfTwo
        <3>3. QED
            BY <2>6, <3>2 DEF won
    <2>8. bet[r1] * (1 + 1) = bet[r1] + bet[r1]
        BY <1>3
    <2>9. QED
        BY <1>8, <2>3, <2>7, <2>8, SidePotIsASum
<1>9. CASE q = r2
    <2>1. Above(r2) = {r1}
        <3>1. 1 .. (2 - 1) = {1}
            OBVIOUS
        <3>2. QED
            BY <1>1, <1>2, <1>4, <3>1, AboveIs
    <2>2. \A o \in Listed : Won(r2)[o] =
              IF Smaller(bet[o], bet[r2]) >= Smaller(bet[o], bet[r1])
              THEN Smaller(bet[o], bet[r2]) - Smaller(bet[o], bet[r1]) ELSE 0
        BY <1>1, <1>3, <2>1, NextWins
    <2>3. /\ \A o \in Listed : Won(r2)[o] \in Nat
          /\ Won(r2)[r1] = 0 /\ Won(r2)[r2] = bet[r2] - bet[r1]
          /\ \A o \in Listed \ {r1, r2} : Won(r2)[o] = 0
        BY <1>1, <1>3, <1>7, <2>2 DEF Smaller
    <2>4. SumOf(Won(r2), Listed) = bet[r2] - bet[r1]
        <3> DEFINE won == Won(r2)
        <3>1. /\ IsFiniteSet(Listed) /\ r1 \in Listed /\ r2 \in Listed /\ r1 # r2
              /\ \A o \in Listed : won[o] \in Nat
              /\ \A o \in Listed \ {r1, r2} : won[o] = 0
            BY <1>1, <1>3, <2>3
        <3> HIDE DEF won, r1, r2
        <3>2. SumOf(won, Listed) = won[r1] + won[r2]
            BY <3>1, SumOfTwo
        <3>3. QED
            BY <1>3, <2>3, <3>2 DEF won
    <2>5. QED
        BY <1>4, <1>9, <2>4, SidePotIsASum
<1>10. QED
    BY <1>6, <1>8, <1>9

LEMMA CaseNeverOverpays == CaseInv => NeverOverpays
<1>1. SUFFICES ASSUME CaseInv, Settled
               PROVE  MapThenSumSet(LAMBDA q : result.pay[q], Listed)
                        <= MapThenSumSet(LAMBDA q : bet[q], contenders)
    BY DEF NeverOverpays
<1>2. MapThenSumSet(LAMBDA q : result.pay[q], Listed) = SumOf(result.pay, Listed)
    BY DEF SumOf, MapThenSumSet, MapThenFoldSet
<1>3. MapThenSumSet(LAMBDA q : bet[q], contenders) = SumOf(bet, contenders)
    BY DEF SumOf, MapThenSumSet, MapThenFoldSet
<1>4. QED
    BY <1>1, <1>2, <1>3, SettledPays

(* However the bets and the ranks lie, and whatever entry of the ranking   *)
(* no hand was computed for: a payout hands out no more than the           *)
(* contenders have bet (poker.c:929-960).                                  *)
THEOREM OverpaysNever == Spec => []NeverOverpays
<1>1. QED
    BY InitCase, StepKeepsCase, CaseNeverOverpays, PTL DEF Spec

(* And it gives nobody more than his own bet from each contender, which is *)
(* what limits a player who is all-in (poker.c:941-944).                   *)
THEOREM MatchedBetsOnly == Spec => []OnlyMatchedBetsAreWon
<1>1. CaseInv => OnlyMatchedBetsAreWon
    BY SettledPays DEF OnlyMatchedBetsAreWon
<1>2. QED
    BY <1>1, InitCase, StepKeepsCase, PTL DEF Spec

(* A payout that reads no hole gives each contender what the side pots     *)
(* come to, in the two cases where the loop's method is theirs: everyone   *)
(* has bet the same, or the better of two contenders has bet no more than  *)
(* the other (poker.c:929-960).                                            *)
THEOREM SidePotsArePaid == Spec => []PaysSidePots
<1>1. CaseInv => PaysSidePots
    BY LevelIsPaid, ShortIsPaid DEF PaysSidePots
<1>2. QED
    BY <1>1, InitCase, StepKeepsCase, PTL DEF Spec

-----------------------------------------------------------------------------
(* Seven cards, no two of them the same.                                   *)
SevenOf == {h \in [1 .. 7 -> Drawn] : \A i, j \in 1 .. 7 : h[i] = h[j] => i = j}
CardsOf(h) == {h[k] : k \in 1 .. 7}

(* An exchange neither adds nor loses a card.                              *)
LEMMA ExchangedIs ==
    ASSUME NEW h \in SevenOf, NEW i \in 1 .. 7, NEW j \in 1 .. 7
    PROVE  LET e == Exchanged(h, i, j)
           IN  /\ e \in SevenOf /\ CardsOf(e) = CardsOf(h)
               /\ ~(h[i].index > h[j].index) => e = h
<1> DEFINE e == Exchanged(h, i, j)
           f == [k \in 1 .. 7 |-> IF k = i THEN h[j] ELSE IF k = j THEN h[i] ELSE h[k]]
<1>1. h \in [1 .. 7 -> Drawn] /\ \A k, l \in 1 .. 7 : h[k] = h[l] => k = l BY DEF SevenOf
<1>2. CASE ~(h[i].index > h[j].index)
    <2>1. e = h BY <1>2 DEF Exchanged
    <2>. QED BY <1>2, <2>1
<1>3. CASE h[i].index > h[j].index
    <2>1. i # j
        <3>1. h[i].index \in Int BY <1>1 DEF Drawn
        <3>. QED BY <1>3, <3>1
    <2>2. [h EXCEPT ![i] = h[j], ![j] = h[i]] = f BY <1>1, <2>1
    <2>3. e = f BY <1>3, <2>2 DEF Exchanged
    <2>4. f \in [1 .. 7 -> Drawn] BY <1>1
    <2>5. ASSUME NEW k \in 1 .. 7, NEW l \in 1 .. 7, f[k] = f[l] PROVE k = l
        BY <1>1, <2>1, <2>5
    <2>6. CardsOf(f) = CardsOf(h)
        <3>1. \A k \in 1 .. 7 : f[k] \in CardsOf(h) BY DEF CardsOf
        <3>2. ASSUME NEW k \in 1 .. 7 PROVE h[k] \in CardsOf(f)
            <4>1. CASE k = i
                <5>1. h[k] = f[j] BY <2>1, <4>1
                <5>. QED BY <5>1 DEF CardsOf
            <4>2. CASE k = j
                <5>1. h[k] = f[i] BY <2>1, <4>2
                <5>. QED BY <5>1 DEF CardsOf
            <4>3. CASE k # i /\ k # j
                <5>1. h[k] = f[k] BY <4>3
                <5>. QED BY <5>1 DEF CardsOf
            <4>. QED BY <4>1, <4>2, <4>3
        <3>. QED BY <3>1, <3>2 DEF CardsOf
    <2> HIDE DEF f
    <2>7. f \in SevenOf BY <2>4, <2>5 DEF SevenOf
    <2>. QED BY <1>3, <2>3, <2>6, <2>7
<1>. QED BY <1>2, <1>3

(* The order after j exchanges of the place r: what is before r is in      *)
(* order, r holds no more than the places that it has been compared with,  *)
(* and the lowest card is last of those in order, or has come to r.        *)
Ordered(h, r) == \A k, l \in 1 .. r : k < l => h[k].index >= h[l].index
Lowest(h, r) == \A k \in 1 .. 7 : h[k].index >= h[r].index
Row(h, r, j) ==
    /\ Ordered(h, r - 1)
    /\ \A k \in 1 .. j : h[k].index >= h[r].index
    /\ r > 1 => Lowest(h, IF j < r - 1 THEN r - 1 ELSE r)

LEMMA RowStep ==
    ASSUME NEW h \in SevenOf, NEW r \in 1 .. 7, NEW j \in 1 .. 7, Row(h, r, j - 1)
    PROVE  Row(Exchanged(h, r, j), r, j)
<1> DEFINE e == Exchanged(h, r, j)
<1>1. \A k \in 1 .. 7 : h[k].index \in Int BY DEF SevenOf, Drawn
<1>2. CASE ~(h[r].index > h[j].index)
    <2>1. e = h BY <1>2, ExchangedIs
    <2>2. Ordered(h, r - 1) BY DEF Row
    <2>3. \A k \in 1 .. j : h[k].index >= h[r].index BY <1>1, <1>2 DEF Row
    <2>4. ASSUME r > 1 PROVE Lowest(h, IF j < r - 1 THEN r - 1 ELSE r)
        <3>1. CASE j < r - 1 BY <2>4, <3>1 DEF Row
        <3>2. CASE j = r - 1
            <4>1. Lowest(h, r - 1) BY <2>4, <3>2 DEF Row
            <4>. QED BY <1>1, <1>2, <3>2, <4>1 DEF Lowest
        <3>3. CASE j > r - 1 BY <2>4, <3>3 DEF Row
        <3>. QED BY <3>1, <3>2, <3>3
    <2>5. Row(h, r, j)
        <3> HIDE DEF e
        <3>. QED BY <2>2, <2>3, <2>4 DEF Row
    <2>. QED BY <2>1, <2>5
<1>3. CASE h[r].index > h[j].index
    <2>1. \A k \in 1 .. 7 : e[k] = IF k = r THEN h[j] ELSE IF k = j THEN h[r] ELSE h[k]
        <3>1. h \in [1 .. 7 -> Drawn] BY DEF SevenOf
        <3>2. r # j BY <1>1, <1>3
        <3>. QED BY <1>3, <3>1, <3>2 DEF Exchanged
    <2>2. r # j BY <1>1, <1>3
    <2>3. r > 1 => j <= r - 1
        <3>1. ASSUME r > 1, j > r - 1 PROVE FALSE
            <4>1. Lowest(h, r) BY <3>1 DEF Row
            <4>. QED BY <1>1, <1>3, <4>1 DEF Lowest
        <3>. QED BY <3>1
    <2>4. Ordered(e, r - 1)
        <3>1. SUFFICES ASSUME NEW k \in 1 .. (r - 1), NEW l \in 1 .. (r - 1), k < l
                       PROVE  e[k].index >= e[l].index
            BY DEF Ordered
        <3>2. k \in 1 .. 7 /\ l \in 1 .. 7 /\ k # r /\ l # r OBVIOUS
        <3>3. h[k].index >= h[l].index BY <3>1 DEF Row, Ordered
        <3>4. CASE k = j
            <4>1. e[k] = h[r] /\ e[l] = h[l] BY <2>1, <3>1, <3>2, <3>4
            <4>. QED BY <1>1, <1>3, <3>2, <3>3, <3>4, <4>1
        <3>5. CASE l = j
            <4>1. e[k] = h[k] /\ e[l] = h[r] BY <2>1, <3>1, <3>2, <3>5
            <4>2. k \in 1 .. (j - 1) BY <3>1, <3>5
            <4>3. h[k].index >= h[r].index BY <4>2 DEF Row
            <4>. QED BY <4>1, <4>3
        <3>6. CASE k # j /\ l # j
            <4>1. e[k] = h[k] /\ e[l] = h[l] BY <2>1, <3>2, <3>6
            <4>. QED BY <3>3, <4>1
        <3>. QED BY <3>4, <3>5, <3>6
    <2>5. ASSUME NEW k \in 1 .. j PROVE e[k].index >= e[r].index
        <3>1. e[r] = h[j] /\ k \in 1 .. 7 BY <2>1
        <3>2. CASE k = j
            <4>1. e[k] = h[r] BY <2>1, <2>2, <3>2
            <4>. QED BY <1>1, <1>3, <3>1, <4>1
        <3>3. CASE k = r BY <1>1, <3>1, <3>3
        <3>4. CASE k # j /\ k # r
            <4>1. e[k] = h[k] /\ k \in 1 .. (j - 1) BY <2>1, <3>1, <3>4
            <4>2. h[k].index >= h[r].index BY <4>1 DEF Row
            <4>. QED BY <1>1, <1>3, <3>1, <4>1, <4>2
        <3>. QED BY <3>2, <3>3, <3>4
    <2>6. ASSUME r > 1 PROVE Lowest(e, IF j < r - 1 THEN r - 1 ELSE r)
        <3>1. Lowest(h, r - 1) BY <2>3, <2>6 DEF Row
        <3>2. \A k \in 1 .. 7 : \E l \in 1 .. 7 : e[k] = h[l] BY <2>1
        <3>3. \A k \in 1 .. 7 : e[k].index >= h[r - 1].index BY <3>1, <3>2 DEF Lowest
        <3>4. CASE j < r - 1
            <4>1. e[r - 1] = h[r - 1] BY <2>1, <2>6, <3>4
            <4>. QED BY <3>3, <3>4, <4>1 DEF Lowest
        <3>5. CASE j = r - 1
            <4>1. e[r] = h[r - 1] BY <2>1, <3>5
            <4>. QED BY <3>3, <3>5, <4>1 DEF Lowest
        <3>. QED BY <2>3, <2>6, <3>4, <3>5
    <2>. QED BY <2>4, <2>5, <2>6 DEF Row
<1>. QED BY <1>2, <1>3

LEMMA RowStarts ==
    ASSUME NEW h \in SevenOf, NEW r \in 1 .. 7, Row(h, r, 7)
    PROVE  Ordered(h, r) /\ (r < 7 => Row(h, r + 1, 0))
<1>1. \A k \in 1 .. 7 : h[k].index \in Int BY DEF SevenOf, Drawn
<1>2. Lowest(h, r) BY DEF Row, Lowest
<1>3. ASSUME NEW k \in 1 .. r, NEW l \in 1 .. r, k < l PROVE h[k].index >= h[l].index
    <2>1. CASE l = r BY <1>2, <2>1 DEF Lowest
    <2>2. CASE l # r
        <3>1. k \in 1 .. (r - 1) /\ l \in 1 .. (r - 1) BY <1>3, <2>2
        <3>. QED BY <1>3, <3>1 DEF Row, Ordered
    <2>. QED BY <2>1, <2>2
<1>4. Ordered(h, r) BY <1>3 DEF Ordered
<1>5. ASSUME r < 7 PROVE Row(h, r + 1, 0)
    <2>1. (IF 0 < r + 1 - 1 THEN r + 1 - 1 ELSE r + 1) = r /\ r + 1 - 1 = r OBVIOUS
    <2>. QED BY <1>2, <1>4, <2>1 DEF Row
<1>. QED BY <1>4, <1>5

(* The exchanges one after another.                                        *)
LEMMA SortedSteps ==
    ASSUME NEW h \in SevenOf
    PROVE  \E c :
              /\ c[0] = h
              /\ \A i, j \in 1 .. 7 :
                    c[7 * (i - 1) + j] = Exchanged(c[7 * (i - 1) + j - 1], i, j)
              /\ \A n \in 0 .. 49 : c[n] \in SevenOf /\ CardsOf(c[n]) = CardsOf(h)
              /\ Sorted(h) = c[49]
<1> DEFINE N == 49
           step(s, p) == Exchanged(s, p[1], p[2])
           Body(f, s) == IF s = {} THEN h ELSE step(f[s \ {Max(s)}], Places7[Max(s)])
           it == CHOOSE f : f = [s \in SUBSET DOMAIN Places7 |-> Body(f, s)]
           X == {s \in SevenOf : CardsOf(s) = CardsOf(h)}
           F == [z \in X \X (1 .. N) |-> step(z[1], Places7[z[2]])]
<1>1. Sorted(h) = it[DOMAIN Places7]
    BY DEF Sorted, FoldLeft, MapThenFoldSet
<1>0. N = 49 OBVIOUS
<1>2. N \in Nat /\ DOMAIN Places7 = 1 .. N /\ h \in X BY DEF Places7
<1> HIDE DEF N
<1>3. ASSUME NEW n \in 1 .. N
      PROVE  Places7[n][1] \in 1 .. 7 /\ Places7[n][2] \in 1 .. 7
    <2>1. Places7[n] = <<1 + ((n - 1) \div 7), 1 + ((n - 1) % 7)>> BY <1>0, <1>2 DEF Places7
    <2>2. 1 + ((n - 1) \div 7) \in 1 .. 7 /\ 1 + ((n - 1) % 7) \in 1 .. 7 BY <1>0, <1>2
    <2>. QED BY <2>1, <2>2
<1>4. ASSUME NEW x \in X, NEW n \in 1 .. N
      PROVE  F[<<x, n>>] = step(x, Places7[n]) /\ F[<<x, n>>] \in X
    <2>1. F[<<x, n>>] = step(x, Places7[n]) OBVIOUS
    <2>2. step(x, Places7[n]) \in X BY <1>3, ExchangedIs
    <2>. QED BY <2>1, <2>2
<1> HIDE DEF step, X, F
<1>5. PICK g : Fold(g, N, h, F) BY <1>2, FoldExists
<1>6. \A s \in SUBSET (1 .. N) : g[s] \in X BY <1>2, <1>4, <1>5, FoldValues
<1>7. g = [s \in SUBSET (1 .. N) |-> Body(g, s)]
    <2>1. ASSUME NEW s \in SUBSET (1 .. N), s # {}
          PROVE  step(g[s \ {Max(s)}], Places7[Max(s)]) = F[<<g[s \ {Max(s)}], Max(s)>>]
        <3>1. Max(s) \in 1 .. N BY <1>2, <2>1, MaxIs
        <3>2. g[s \ {Max(s)}] \in X BY <1>6
        <3>. QED BY <1>4, <3>1, <3>2
    <2>. QED BY <1>5, <2>1 DEF Fold
<1>8. it = [s \in SUBSET (1 .. N) |-> Body(it, s)] BY <1>2, <1>7
<1>9. \A s \in SUBSET (1 .. N) : it[s] = g[s]
    <2> DEFINE P == {s \in SUBSET (1 .. N) : it[s] = g[s]}
    <2> HIDE DEF it
    <2>1. ASSUME NEW s \in SUBSET (1 .. N), \A x \in s : s \ {x} \in P PROVE s \in P
        <3>1. it[s] = Body(it, s) /\ g[s] = Body(g, s) BY <1>7, <1>8
        <3>2. CASE s = {} BY <3>1, <3>2
        <3>3. CASE s # {}
            <4>1. Max(s) \in s BY <1>2, <3>3, MaxIs
            <4>2. it[s \ {Max(s)}] = g[s \ {Max(s)}] BY <2>1, <4>1
            <4>. QED BY <3>1, <3>3, <4>2
        <3>. QED BY <3>2, <3>3
    <2>2. P \in SUBSET (SUBSET (1 .. N)) /\ IsFiniteSet(1 .. N) BY <1>2, FS_Interval
    <2> HIDE DEF P
    <2>3. \A s \in SUBSET (1 .. N) : s \in P BY <2>1, <2>2, BySmaller
    <2>. QED BY <2>3 DEF P
<1> DEFINE c == [n \in 0 .. N |-> g[1 .. n]]
<1>10. c[0] = h /\ \A n \in 1 .. N : c[n] = F[<<c[n - 1], n>>]
    <2>1. g[1 .. 0] = h /\ \A n \in 1 .. N : g[1 .. n] = F[<<g[1 .. (n - 1)], n>>]
        BY <1>2, <1>5, FoldSteps
    <2>. QED BY <1>2, <2>1
<1>11. \A n \in 0 .. N : c[n] \in X BY <1>2, <1>6
<1>12. Sorted(h) = c[N]
    <2>1. 1 .. N \in SUBSET (1 .. N) /\ N \in 0 .. N BY <1>2
    <2> HIDE DEF it
    <2>. QED BY <1>1, <1>2, <1>9, <2>1
<1> HIDE DEF c
<1>13. ASSUME NEW i \in 1 .. 7, NEW j \in 1 .. 7
       PROVE  c[7 * (i - 1) + j] = Exchanged(c[7 * (i - 1) + j - 1], i, j)
    <2> DEFINE n == 7 * (i - 1) + j
    <2>1. /\ n \in 1 .. 49 /\ n - 1 \in 0 .. 49
          /\ (n - 1) \div 7 = i - 1 /\ (n - 1) % 7 = j - 1
        OBVIOUS
    <2>2. Places7[n] = <<i, j>> BY <2>1 DEF Places7
    <2> HIDE DEF n
    <2>3. c[n] = step(c[n - 1], Places7[n]) BY <1>0, <1>2, <1>4, <1>10, <1>11, <2>1
    <2>4. c[n] = Exchanged(c[n - 1], i, j) BY <2>2, <2>3 DEF step
    <2>. QED BY <2>4 DEF n
<1>. QED BY <1>0, <1>2, <1>10, <1>11, <1>12, <1>13 DEF X

(* What the loop does: the hand's cards, highest first.                    *)
LEMMA SortedIs ==
    ASSUME NEW h \in SevenOf
    PROVE  /\ Sorted(h) \in SevenOf /\ CardsOf(Sorted(h)) = CardsOf(h)
           /\ Ordered(Sorted(h), 7)
<1>1. PICK c :
          /\ c[0] = h
          /\ \A i, j \in 1 .. 7 : c[7 * (i - 1) + j] = Exchanged(c[7 * (i - 1) + j - 1], i, j)
          /\ \A n \in 0 .. 49 : c[n] \in SevenOf /\ CardsOf(c[n]) = CardsOf(h)
          /\ Sorted(h) = c[49]
    BY SortedSteps
<1>2. ASSUME NEW r \in 1 .. 7, Row(c[7 * (r - 1)], r, 0)
      PROVE  Row(c[7 * r], r, 7)
    <2> DEFINE P == {j \in 0 .. 7 : Row(c[7 * (r - 1) + j], r, j)}
    <2>1. 0 \in P BY <1>2
    <2>2. ASSUME NEW j \in 1 .. 7, j - 1 \in P PROVE j \in P
        <3> DEFINE b == c[7 * (r - 1) + j - 1]
        <3>1. 7 * (r - 1) + (j - 1) = 7 * (r - 1) + j - 1 /\ 7 * (r - 1) + j - 1 \in 0 .. 49
            OBVIOUS
        <3>2. b \in SevenOf /\ Row(b, r, j - 1) BY <1>1, <2>2, <3>1
        <3>3. c[7 * (r - 1) + j] = Exchanged(b, r, j) BY <1>1
        <3> HIDE DEF b
        <3>4. Row(Exchanged(b, r, j), r, j) BY <3>2, RowStep
        <3>. QED BY <3>3, <3>4
    <2>3. P \in SUBSET (0 .. 7) OBVIOUS
    <2> HIDE DEF P
    <2>4. 7 \in P BY <2>1, <2>2, <2>3, UpTo
    <2>5. Row(c[7 * (r - 1) + 7], r, 7) BY <2>4 DEF P
    <2>6. 7 * (r - 1) + 7 = 7 * r OBVIOUS
    <2>. QED BY <2>5, <2>6
<1>3. Row(c[0], 1, 0) BY DEF Row, Ordered
<1> DEFINE Q == {i \in 0 .. 6 : Row(c[7 * i], i + 1, 0)}
<1>4. 0 \in Q BY <1>3
<1>5. ASSUME NEW i \in 1 .. 6, i - 1 \in Q PROVE i \in Q
    <2>1. Row(c[7 * (i - 1)], i, 0) /\ 7 * i \in 0 .. 49 BY <1>5
    <2>2. Row(c[7 * i], i, 7) BY <1>2, <2>1
    <2>3. c[7 * i] \in SevenOf BY <1>1, <2>1
    <2>4. Row(c[7 * i], i + 1, 0) BY <2>2, <2>3, RowStarts
    <2>. QED BY <2>4
<1>6. Q \in SUBSET (0 .. 6) OBVIOUS
<1> HIDE DEF Q
<1>7. 6 \in Q BY <1>4, <1>5, <1>6, UpTo
<1>8. Row(c[7 * (7 - 1)], 7, 0) BY <1>7 DEF Q
<1>9. Row(c[49], 7, 7) BY <1>2, <1>8
<1>10. c[49] \in SevenOf /\ CardsOf(c[49]) = CardsOf(h) BY <1>1
<1>. QED BY <1>1, <1>9, <1>10, RowStarts

-----------------------------------------------------------------------------
(* A finite set whose members have different numbers, in their order.      *)
Enumerates(f, T, w) ==
    /\ f \in [1 .. Cardinality(T) -> T]
    /\ \A i, j \in 1 .. Cardinality(T) : i < j => w[f[i]] < w[f[j]]
    /\ \A x \in T : \E i \in 1 .. Cardinality(T) : f[i] = x

LEMMA Enumerated ==
    ASSUME NEW T, IsFiniteSet(T), NEW w \in [T -> Int], \A x, y \in T : w[x] = w[y] => x = y
    PROVE  \E f : Enumerates(f, T, w)
<1> DEFINE P == {s \in SUBSET T : \E f : Enumerates(f, s, w)}
<1>1. ASSUME NEW s \in SUBSET T, \A x \in s : s \ {x} \in P PROVE s \in P
    <2>1. CASE s = {}
        <3> DEFINE f == [i \in {} |-> 0]
        <3>1. 1 .. Cardinality(s) = {} BY <2>1, FS_EmptySet
        <3>2. f \in [{} -> s] OBVIOUS
        <3>3. Enumerates(f, s, w) BY ONLY <2>1, <3>1, <3>2 DEF Enumerates
        <3>. QED BY <3>3
    <2>2. CASE s # {}
        <3>0. \A x \in s : \E f : Enumerates(f, s \ {x}, w) BY <1>1
        <3>1. IsFiniteSet(s) /\ Cardinality(s) \in Nat /\ Cardinality(s) # 0
            BY <2>2, FS_Subset, FS_CardinalityType, FS_EmptySet
        <3> DEFINE n == Cardinality(s) - 1
        <3>2. n \in Nat /\ Cardinality(s) = n + 1 BY <3>1
        <3>12. \A x \in s : Cardinality(s \ {x}) = n BY <3>1, FS_RemoveElement
        <3> HIDE DEF n
        <3>3. \E m \in s : \A y \in s \ {m} : w[y] < w[m]
            <4>1. PICK x \in s : TRUE BY <2>2
            <4>2. PICK f : Enumerates(f, s \ {x}, w) BY <3>0, <4>1
            <4>3. /\ f \in [1 .. n -> s \ {x}]
                  /\ \A i, j \in 1 .. n : i < j => w[f[i]] < w[f[j]]
                  /\ \A y \in s \ {x} : \E i \in 1 .. n : f[i] = y
                BY <3>12, <4>1, <4>2 DEF Enumerates
            <4>4. \A y \in s : w[y] \in Int OBVIOUS
            <4>5. CASE n = 0 BY <4>3, <4>5
            <4>6. CASE n # 0
                <5>1. n \in 1 .. n /\ f[n] \in s \ {x} BY <3>2, <4>3, <4>6
                <5>2. \A y \in s \ {x, f[n]} : w[y] < w[f[n]]
                    <6>1. ASSUME NEW y \in s \ {x, f[n]} PROVE w[y] < w[f[n]]
                        <7>1. PICK i \in 1 .. n : f[i] = y BY <4>3
                        <7>2. i < n BY <3>2, <7>1
                        <7>. QED BY <4>3, <5>1, <7>1, <7>2
                    <6>. QED BY <6>1
                <5>3. w[x] # w[f[n]] BY <4>1, <5>1
                <5>4. CASE w[x] > w[f[n]]
                    <6>1. \A y \in s \ {x} : w[y] < w[x] BY <4>4, <5>1, <5>2, <5>4
                    <6>. QED BY <6>1
                <5>5. CASE w[x] < w[f[n]]
                    <6>1. \A y \in s \ {f[n]} : w[y] < w[f[n]] BY <5>2, <5>5
                    <6>. QED BY <5>1, <6>1
                <5>. QED BY <4>4, <5>1, <5>3, <5>4, <5>5
            <4>. QED BY <4>5, <4>6
        <3>4. PICK m \in s : \A y \in s \ {m} : w[y] < w[m] BY <3>3
        <3>5. PICK f : Enumerates(f, s \ {m}, w) BY <3>0
        <3>6. /\ f \in [1 .. n -> s \ {m}]
              /\ \A i, j \in 1 .. n : i < j => w[f[i]] < w[f[j]]
              /\ \A y \in s \ {m} : \E i \in 1 .. n : f[i] = y
            BY <3>12, <3>5 DEF Enumerates
        <3> DEFINE h == [i \in 1 .. (n + 1) |-> IF i = n + 1 THEN m ELSE f[i]]
        <3>7. \A i \in 1 .. (n + 1) : (i = n + 1 => h[i] = m) /\ (i # n + 1 => i \in 1 .. n /\ h[i] = f[i])
            BY <3>2
        <3>8. h \in [1 .. (n + 1) -> s] BY <3>2, <3>6
        <3> HIDE DEF h
        <3>9. ASSUME NEW i \in 1 .. (n + 1), NEW j \in 1 .. (n + 1), i < j
              PROVE  w[h[i]] < w[h[j]]
            <4>1. i \in 1 .. n /\ h[i] = f[i] BY <3>2, <3>7, <3>9
            <4>2. CASE j = n + 1 BY <3>4, <3>6, <3>7, <4>1, <4>2
            <4>3. CASE j # n + 1 BY <3>6, <3>7, <3>9, <4>1, <4>3
            <4>. QED BY <4>2, <4>3
        <3>10. ASSUME NEW x \in s PROVE \E i \in 1 .. (n + 1) : h[i] = x
            <4>1. CASE x = m BY <3>2, <3>7, <4>1
            <4>2. CASE x # m
                <5>1. PICK i \in 1 .. n : f[i] = x BY <3>6, <4>2
                <5>2. i \in 1 .. (n + 1) /\ i # n + 1 BY <3>2
                <5>. QED BY <3>7, <5>1, <5>2
            <4>. QED BY <4>1, <4>2
        <3>11. Enumerates(h, s, w) BY <3>2, <3>8, <3>9, <3>10 DEF Enumerates
        <3>. QED BY <3>11
    <2>. QED BY <2>1, <2>2
<1>2. P \in SUBSET (SUBSET T) OBVIOUS
<1> HIDE DEF P
<1>3. \A s \in SUBSET T : s \in P BY <1>1, <1>2, BySmaller
<1>4. T \in P BY <1>3
<1>. QED BY <1>4 DEF P

(* Its n-th has n members up to it.                                        *)
LEMMA EnumeratedCounts ==
    ASSUME NEW T, IsFiniteSet(T), NEW w \in [T -> Int], NEW f, Enumerates(f, T, w),
           NEW n \in 1 .. Cardinality(T)
    PROVE  Cardinality({x \in T : w[x] <= w[f[n]]}) = n
<1> DEFINE S == {x \in T : w[x] <= w[f[n]]}
           e == [i \in 1 .. n |-> f[i]]
<1>1. /\ Cardinality(T) \in Nat /\ f \in [1 .. Cardinality(T) -> T]
      /\ \A i, j \in 1 .. Cardinality(T) : i < j => w[f[i]] < w[f[j]]
      /\ \A x \in T : \E i \in 1 .. Cardinality(T) : f[i] = x
    BY FS_CardinalityType DEF Enumerates
<1>2. \A x \in T : w[x] \in Int OBVIOUS
<1>3. \A i \in 1 .. n : e[i] = f[i] /\ i \in 1 .. Cardinality(T) /\ f[i] \in T BY <1>1
<1> HIDE DEF e
<1>4. ASSUME NEW i \in 1 .. n PROVE e[i] \in S
    <2>1. CASE i = n BY <1>2, <1>3, <2>1
    <2>2. CASE i # n
        <3>1. i < n BY <2>2
        <3>2. w[f[i]] < w[f[n]] BY <1>1, <1>3, <3>1
        <3>3. w[f[n]] \in Int /\ w[f[i]] \in Int BY <1>1, <1>2, <1>3
        <3>. QED BY <1>3, <3>2, <3>3
    <2>. QED BY <2>1, <2>2
<1>5. ASSUME NEW x \in S PROVE \E i \in 1 .. n : e[i] = x
    <2>1. PICK i \in 1 .. Cardinality(T) : f[i] = x BY <1>1
    <2>2. i <= n
        <3>1. CASE i > n
            <4>1. w[f[n]] < w[f[i]] BY <1>1, <3>1
            <4>. QED BY <1>1, <1>2, <2>1, <4>1
        <3>. QED BY <1>1, <3>1
    <2>3. i \in 1 .. n BY <1>1, <2>2
    <2>. QED BY <1>3, <2>1, <2>3
<1>6. ASSUME NEW i \in 1 .. n, NEW j \in 1 .. n, e[i] = e[j] PROVE i = j
    <2>1. i \in 1 .. Cardinality(T) /\ j \in 1 .. Cardinality(T) /\ f[i] = f[j]
          /\ w[f[i]] \in Int
        BY <1>2, <1>3, <1>6
    <2>2. ~(i < j) /\ ~(j < i)
        <3>1. CASE i < j
            <4>1. w[f[i]] < w[f[j]] BY <1>1, <2>1, <3>1
            <4>. QED BY <2>1, <4>1
        <3>2. CASE j < i
            <4>1. w[f[j]] < w[f[i]] BY <1>1, <2>1, <3>2
            <4>. QED BY <2>1, <4>1
        <3>. QED BY <3>1, <3>2
    <2>. QED BY <2>2
<1>7. DOMAIN e = 1 .. n BY DEF e
<1>8. e \in [1 .. n -> S]
    <2>1. e = [i \in 1 .. n |-> e[i]] BY DEF e
    <2>. QED BY <1>4, <2>1
<1>9. ExistsBijection(1 .. n, S)
    <2>1. e \in Bijection(1 .. n, S)
        <3>1. e \in Injection(1 .. n, S) BY <1>6, <1>8 DEF Injection, IsInjective
        <3>2. e \in Surjection(1 .. n, S) BY <1>5, <1>8 DEF Surjection
        <3>. QED BY <3>1, <3>2 DEF Bijection
    <2>. QED BY <2>1 DEF ExistsBijection
<1>10. IsFiniteSet(1 .. n) /\ Cardinality(1 .. n) = n
    <2>1. n \in Nat /\ n >= 1 BY <1>1
    <2>2. IsFiniteSet(1 .. n) /\ Cardinality(1 .. n) = IF 1 > n THEN 0 ELSE n - 1 + 1
        BY <2>1, FS_Interval
    <2>. QED BY <2>1, <2>2
<1>. QED BY <1>9, <1>10, FS_Bijection

(* Cards have different numbers, and so there are finitely many.           *)
LEMMA NumbersDiffer ==
    /\ \A c \in Drawn : Number(c) \in 0 .. 38
    /\ \A c, d \in Drawn : Number(c) = Number(d) => c = d
    /\ IsFiniteSet(Drawn)
<1>1. \A c \in Drawn : Number(c) \in 0 .. 38 BY DEF Number, Drawn
<1>2. ASSUME NEW c \in Drawn, NEW d \in Drawn, Number(c) = Number(d) PROVE c = d
    <2>1. /\ c.index \in 0 .. 12 /\ d.index \in 0 .. 12 /\ c.kind \in 0 .. 2 /\ d.kind \in 0 .. 2
          /\ 3 * c.index + c.kind = 3 * d.index + d.kind
        BY <1>2 DEF Drawn, Number
    <2>2. ASSUME NEW a \in Int, NEW b \in Int, NEW x \in 0 .. 2, NEW y \in 0 .. 2,
                 3 * a + x = 3 * b + y
          PROVE  a = b /\ x = y
        BY <2>2
    <2>3. c.index = d.index /\ c.kind = d.kind BY <2>1, <2>2
    <2>. QED BY <2>3 DEF Drawn
<1>3. IsFiniteSet(Drawn)
    <2> DEFINE w == [c \in Drawn |-> Number(c)]
    <2>1. w \in [Drawn -> 0 .. 38] /\ \A c, d \in Drawn : w[c] = w[d] => c = d BY <1>1, <1>2
    <2> HIDE DEF w
    <2>2. w \in Injection(Drawn, 0 .. 38) BY <2>1 DEF Injection, IsInjective
    <2>3. IsFiniteSet(0 .. 38) BY 0 \in Int, 38 \in Int, FS_Interval
    <2>. QED BY <2>2, <2>3, FS_Injection
<1>. QED BY <1>1, <1>2, <1>3

(* The n-th card of a set is one.                                          *)
LEMMA NthIs ==
    ASSUME NEW cards \in SUBSET Drawn, NEW n \in 1 .. Cardinality(cards)
    PROVE  /\ Nth(cards, n) \in cards
           /\ Cardinality({d \in cards : Number(d) <= Number(Nth(cards, n))}) = n
<1> DEFINE w == [c \in cards |-> Number(c)]
<1>1. IsFiniteSet(cards) BY NumbersDiffer, FS_Subset
<1>2. w \in [cards -> Int]
    <2>1. \A c \in cards : Number(c) \in Int BY NumbersDiffer
    <2>. QED BY <2>1
<1>3. \A c \in cards : w[c] = Number(c) OBVIOUS
<1>4. \A c, d \in cards : w[c] = w[d] => c = d BY NumbersDiffer, <1>3
<1> HIDE DEF w
<1>5. PICK f : Enumerates(f, cards, w) BY <1>1, <1>2, <1>4, Enumerated
<1>6. Cardinality({d \in cards : w[d] <= w[f[n]]}) = n
    BY <1>1, <1>2, <1>5, EnumeratedCounts
<1>7. f[n] \in cards BY <1>5 DEF Enumerates
<1>8. {d \in cards : w[d] <= w[f[n]]} = {d \in cards : Number(d) <= Number(f[n])}
    BY <1>3, <1>7
<1>9. \E c \in cards : Cardinality({d \in cards : Number(d) <= Number(c)}) = n
    BY <1>6, <1>7, <1>8
<1>. QED BY <1>9 DEF Nth

(* So what is dealt are seven cards.                                       *)
LEMMA HandsAreSeven == Hands => seven \in SevenOf
<1>1. SUFFICES ASSUME NEW cards \in kSubset(7, Deck), NEW p \in Shuffles,
                      seven = [i \in 1 .. 7 |-> Nth(cards, p[i])]
               PROVE  seven \in SevenOf
    BY DEF Hands
<1>2. cards \in SUBSET Drawn /\ Cardinality(cards) = 7
    BY DEF kSubset, Deck, Drawable
<1>3. p \in [1 .. 7 -> 1 .. 7] /\ \A i, j \in 1 .. 7 : p[i] = p[j] => i = j
    BY ShufflesAssumption
<1>4. \A n \in 1 .. 7 : /\ Nth(cards, n) \in cards
                       /\ Cardinality({d \in cards : Number(d) <= Number(Nth(cards, n))}) = n
    BY <1>2, NthIs
<1>5. \A i \in 1 .. 7 : seven[i] = Nth(cards, p[i]) /\ p[i] \in 1 .. 7 BY <1>1, <1>3
<1>6. seven \in [1 .. 7 -> Drawn]
    <2>1. \A i \in 1 .. 7 : Nth(cards, p[i]) \in Drawn BY <1>2, <1>3, <1>4
    <2>. QED BY <1>1, <2>1
<1>7. ASSUME NEW i \in 1 .. 7, NEW j \in 1 .. 7, seven[i] = seven[j] PROVE i = j
    <2>1. Nth(cards, p[i]) = Nth(cards, p[j]) BY <1>5, <1>7
    <2>2. p[i] = p[j] BY <1>4, <1>5, <2>1
    <2>. QED BY <1>3, <2>2
<1>. QED BY <1>6, <1>7 DEF SevenOf

-----------------------------------------------------------------------------
LEMMA OfSeven ==
    ASSUME NEW S \in SUBSET (1 .. 7)
    PROVE  /\ IsFiniteSet(S) /\ Cardinality(S) \in Nat
           /\ S \in SUBSET Int
<1> DEFINE T == 1 .. 7
<1>1. IsFiniteSet(T) BY 1 \in Int, 7 \in Int, FS_Interval
<1>2. T \in SUBSET Int /\ S \in SUBSET T OBVIOUS
<1> HIDE DEF T
<1>3. IsFiniteSet(S) BY <1>1, <1>2, FS_Subset
<1>. QED BY <1>2, <1>3, FS_CardinalityType

(* How many of seven cards are of a set depends on which cards they are,   *)
(* not on their order.                                                     *)
LEMMA CountOf ==
    ASSUME NEW h \in SevenOf, NEW A
    PROVE  Cardinality({k \in 1 .. 7 : h[k] \in A}) = Cardinality(A \cap CardsOf(h))
<1> DEFINE S == {k \in 1 .. 7 : h[k] \in A}
           T == A \cap CardsOf(h)
           f == [k \in S |-> h[k]]
<1>1. h \in [1 .. 7 -> Drawn] /\ \A i, j \in 1 .. 7 : h[i] = h[j] => i = j BY DEF SevenOf
<1>2. IsFiniteSet(S)
    <2>1. S \in SUBSET (1 .. 7) OBVIOUS
    <2> HIDE DEF S
    <2>. QED BY <2>1, OfSeven
<1>3. f \in [S -> T] BY DEF CardsOf
<1>4. \A i, j \in S : f[i] = f[j] => i = j BY <1>1
<1>5. \A c \in T : \E k \in S : f[k] = c BY DEF CardsOf
<1> HIDE DEF f, S, T
<1>6. f \in Injection(S, T) /\ f \in Surjection(S, T)
    BY <1>3, <1>4, <1>5 DEF Injection, IsInjective, Surjection
<1>7. ExistsBijection(S, T) BY <1>6 DEF ExistsBijection, Bijection
<1>8. Cardinality(T) = Cardinality(S) BY <1>2, <1>7, FS_Bijection
<1>. QED BY <1>8 DEF S, T

(* There are n places in a set of them when n go up.                       *)
LEMMA Counted ==
    ASSUME NEW S \in SUBSET (1 .. 7), NEW n \in Nat
    PROVE  /\ Cardinality(S) >= n => \E f \in [1 .. n -> S] :
                                        \A i, j \in 1 .. n : i < j => f[i] < f[j]
           /\ \A f \in [1 .. n -> S] : (\A i, j \in 1 .. n : i < j => f[i] < f[j])
                                        => Cardinality(S) >= n
<1>1. IsFiniteSet(S) /\ Cardinality(S) \in Nat /\ S \in SUBSET Int BY OfSeven
<1>2. ASSUME Cardinality(S) >= n
      PROVE  \E f \in [1 .. n -> S] : \A i, j \in 1 .. n : i < j => f[i] < f[j]
    <2> DEFINE w == [k \in S |-> k]
    <2>1. w \in [S -> Int] /\ \A x, y \in S : w[x] = w[y] => x = y OBVIOUS
    <2>2. PICK g : Enumerates(g, S, w)
        <3> HIDE DEF w
        <3>. QED BY <1>1, <2>1, Enumerated
    <2> DEFINE f == [i \in 1 .. n |-> g[i]]
    <2>3. \A i \in 1 .. n : i \in 1 .. Cardinality(S) BY <1>1, <1>2
    <2>4. /\ \A i \in 1 .. n : g[i] \in S
          /\ \A i, j \in 1 .. n : i < j => w[g[i]] < w[g[j]]
        BY <2>2, <2>3 DEF Enumerates
    <2>5. f \in [1 .. n -> S] BY <2>4
    <2>6. \A i, j \in 1 .. n : i < j => f[i] < f[j] BY <2>4
    <2>. QED BY <2>5, <2>6
<1>3. ASSUME NEW f \in [1 .. n -> S], \A i, j \in 1 .. n : i < j => f[i] < f[j]
      PROVE  Cardinality(S) >= n
    <2>1. ASSUME NEW i \in 1 .. n, NEW j \in 1 .. n, f[i] = f[j] PROVE i = j
        <3>1. f[i] \in Int /\ f[j] \in Int BY <1>1
        <3>2. ~(i < j) /\ ~(j < i) BY <1>3, <2>1, <3>1
        <3>. QED BY <3>2
    <2>2. f \in Injection(1 .. n, S) BY <2>1 DEF Injection, IsInjective
    <2>3. Cardinality(1 .. n) = n
        <3>1. Cardinality(1 .. n) = IF 1 > n THEN 0 ELSE n - 1 + 1 BY FS_Interval
        <3>. QED BY <3>1
    <2>4. Cardinality(1 .. n) <= Cardinality(S) BY <1>1, <2>2, FS_Injection
    <2>. QED BY <1>1, <2>3, <2>4
<1>. QED BY <1>2, <1>3

-----------------------------------------------------------------------------
(* Five cards as they come out of the sorted seven.                        *)
FiveOf ==
    {five \in [1 .. 5 -> Drawn] : /\ \A i, j \in 1 .. 5 : five[i] = five[j] => i = j
                                  /\ \A i \in 1 .. 4 : five[i].index >= five[i + 1].index}

LEMMA FivesAre ==
    ASSUME NEW g \in SevenOf, Ordered(g, 7), NEW at \in FIVES_INDEXES
    PROVE  [i \in 1 .. 5 |-> g[at[i]]] \in FiveOf
<1> DEFINE five == [i \in 1 .. 5 |-> g[at[i]]]
<1>1. /\ g \in [1 .. 7 -> Drawn] /\ \A i, j \in 1 .. 7 : g[i] = g[j] => i = j
      /\ at \in [1 .. 5 -> 1 .. 7] /\ \A i \in 1 .. 4 : at[i] < at[i + 1]
    BY DEF SevenOf, FIVES_INDEXES
<1>2. at[1] < at[2] /\ at[2] < at[3] /\ at[3] < at[4] /\ at[4] < at[5] BY <1>1
<1>3. \A i, j \in 1 .. 5 : i < j => at[i] < at[j] BY <1>1, <1>2
<1>4. five \in [1 .. 5 -> Drawn] BY <1>1
<1>5. ASSUME NEW i \in 1 .. 5, NEW j \in 1 .. 5, five[i] = five[j] PROVE i = j
    <2>1. at[i] \in 1 .. 7 /\ at[j] \in 1 .. 7 /\ at[i] = at[j] BY <1>1, <1>5
    <2>. QED BY <1>3, <2>1
<1>6. ASSUME NEW i \in 1 .. 4 PROVE five[i].index >= five[i + 1].index
    <2>1. at[i] \in 1 .. 7 /\ at[i + 1] \in 1 .. 7 /\ at[i] < at[i + 1] BY <1>1
    <2>2. g[at[i]].index >= g[at[i + 1]].index BY <2>1 DEF Ordered
    <2>. QED BY <2>2
<1>. QED BY <1>4, <1>5, <1>6 DEF FiveOf

LEMMA GroupedIs ==
    ASSUME NEW f \in [1 .. 5 -> Drawn]
    PROVE  /\ Grouped(f, 2) <=> f[1].index = f[2].index
           /\ Grouped(f, 3) <=> f[1].index = f[2].index /\ f[3].index = f[4].index
           /\ Grouped(f, 4) <=> f[1].index = f[2].index /\ f[2].index = f[3].index
           /\ Grouped(f, 7) <=> /\ f[1].index = f[2].index /\ f[2].index = f[3].index
                                /\ f[4].index = f[5].index
           /\ Grouped(f, 8) <=> /\ f[1].index = f[2].index /\ f[2].index = f[3].index
                                /\ f[3].index = f[4].index
           /\ Grouped(f, 1) /\ Grouped(f, 5) /\ Grouped(f, 6) /\ Grouped(f, 9)
<1>1. Alike(f, 1, 2) <=> f[1].index = f[2].index BY DEF Alike
<1>2. Alike(f, 3, 4) <=> f[3].index = f[4].index BY DEF Alike
<1>3. Alike(f, 4, 5) <=> f[4].index = f[5].index BY DEF Alike
<1>4. Alike(f, 1, 3) <=> f[1].index = f[2].index /\ f[2].index = f[3].index
    <2>1. \A k \in 1 .. (3 - 1) : k = 1 \/ k = 2 OBVIOUS
    <2>2. 1 \in 1 .. (3 - 1) /\ 2 \in 1 .. (3 - 1) /\ 1 + 1 = 2 /\ 2 + 1 = 3 OBVIOUS
    <2>. QED BY <2>1, <2>2 DEF Alike
<1>5. Alike(f, 1, 4) <=> /\ f[1].index = f[2].index /\ f[2].index = f[3].index
                         /\ f[3].index = f[4].index
    <2>1. \A k \in 1 .. (4 - 1) : k = 1 \/ k = 2 \/ k = 3 OBVIOUS
    <2>2. /\ 1 \in 1 .. (4 - 1) /\ 2 \in 1 .. (4 - 1) /\ 3 \in 1 .. (4 - 1)
          /\ 1 + 1 = 2 /\ 2 + 1 = 3 /\ 3 + 1 = 4
        OBVIOUS
    <2>. QED BY <2>1, <2>2 DEF Alike
<1>6. Grouped(f, 2) <=> f[1].index = f[2].index BY <1>1 DEF Grouped
<1>7. Grouped(f, 3) <=> f[1].index = f[2].index /\ f[3].index = f[4].index
    BY <1>1, <1>2 DEF Grouped
<1>8. Grouped(f, 4) <=> f[1].index = f[2].index /\ f[2].index = f[3].index
    BY <1>4 DEF Grouped
<1>9. Grouped(f, 7) <=> /\ f[1].index = f[2].index /\ f[2].index = f[3].index
                        /\ f[4].index = f[5].index
    BY <1>3, <1>4 DEF Grouped
<1>10. Grouped(f, 8) <=> /\ f[1].index = f[2].index /\ f[2].index = f[3].index
                         /\ f[3].index = f[4].index
    BY <1>5 DEF Grouped
<1>11. Grouped(f, 1) /\ Grouped(f, 5) /\ Grouped(f, 6) /\ Grouped(f, 9) BY DEF Grouped
<1>. QED BY <1>6, <1>7, <1>8, <1>9, <1>10, <1>11

(* What is tried, category by category.                                    *)
LEMMA ArrangementsAre ==
    /\ \A c \in {1, 5, 6, 9} : Arrangements[c] = <<<<1, 2, 3, 4, 5>>>>
    /\ Arrangements[2] = <<<<1, 2, 3, 4, 5>>, <<2, 3, 1, 4, 5>>, <<3, 4, 1, 2, 5>>, <<4, 5, 1, 2, 3>>>>
    /\ Arrangements[3] = <<<<1, 2, 3, 4, 5>>, <<1, 2, 4, 5, 3>>, <<2, 3, 4, 5, 1>>>>
    /\ Arrangements[4] = <<<<1, 2, 3, 4, 5>>, <<2, 3, 4, 1, 5>>, <<3, 4, 5, 1, 2>>>>
    /\ Arrangements[7] = <<<<1, 2, 3, 4, 5>>, <<3, 4, 5, 1, 2>>>>
    /\ Arrangements[8] = <<<<1, 2, 3, 4, 5>>, <<2, 3, 4, 5, 1>>>>
<1>1. 2 \in 1 .. 9 /\ 3 \in 1 .. 9 /\ 4 \in 1 .. 9 /\ 7 \in 1 .. 9 /\ 8 \in 1 .. 9
      /\ \A c \in {1, 5, 6, 9} : c \in 1 .. 9 /\ c # 2 /\ c # 3 /\ c # 4 /\ c # 7 /\ c # 8
    OBVIOUS
<1>2. \A c \in {1, 5, 6, 9} : Arrangements[c] = <<<<1, 2, 3, 4, 5>>>> BY <1>1 DEF Arrangements
<1>3. Arrangements[2] = <<<<1, 2, 3, 4, 5>>, <<2, 3, 1, 4, 5>>, <<3, 4, 1, 2, 5>>, <<4, 5, 1, 2, 3>>>>
    BY <1>1 DEF Arrangements
<1>4. Arrangements[3] = <<<<1, 2, 3, 4, 5>>, <<1, 2, 4, 5, 3>>, <<2, 3, 4, 5, 1>>>>
    BY <1>1 DEF Arrangements
<1>5. Arrangements[4] = <<<<1, 2, 3, 4, 5>>, <<2, 3, 4, 1, 5>>, <<3, 4, 5, 1, 2>>>>
    BY <1>1 DEF Arrangements
<1>6. Arrangements[7] = <<<<1, 2, 3, 4, 5>>, <<3, 4, 5, 1, 2>>>> BY <1>1 DEF Arrangements
<1>7. Arrangements[8] = <<<<1, 2, 3, 4, 5>>, <<2, 3, 4, 5, 1>>>> BY <1>1 DEF Arrangements
<1>. QED BY <1>2, <1>3, <1>4, <1>5, <1>6, <1>7

LEMMA FitsPair ==
    ASSUME NEW five \in FiveOf
    PROVE  /\ \A n \in Fitting(five, 2) : n \in 1 .. 4 /\ five[n].index = five[n + 1].index
                                          /\ Placed(five, Arrangements[2][n])[1] = five[n]
           /\ \A n \in 1 .. 4 : five[n].index = five[n + 1].index => n \in Fitting(five, 2)
<1> DEFINE A == Arrangements[2]
           p(n) == Placed(five, A[n])
<1>1. A = <<<<1, 2, 3, 4, 5>>, <<2, 3, 1, 4, 5>>, <<3, 4, 1, 2, 5>>, <<4, 5, 1, 2, 3>>>>
    BY ArrangementsAre
<1>2. DOMAIN A = 1 .. 4 BY <1>1
<1>3. \A n \in 1 .. 4 : A[n][1] = n /\ A[n][2] = n + 1 BY <1>1
<1>4. \A n \in 1 .. 4 : A[n] \in [1 .. 5 -> 1 .. 5] BY <1>1
<1> HIDE DEF A
<1>5. ASSUME NEW n \in 1 .. 4
      PROVE  p(n) \in [1 .. 5 -> Drawn] /\ p(n)[1] = five[n] /\ p(n)[2] = five[n + 1]
    <2>1. A[n] \in [1 .. 5 -> 1 .. 5] /\ five \in [1 .. 5 -> Drawn] BY <1>4 DEF FiveOf
    <2>. QED BY <1>3, <2>1 DEF Placed
<1>6. \A n \in 1 .. 4 : Grouped(p(n), 2) <=> five[n].index = five[n + 1].index
    BY <1>5, GroupedIs
<1>7. Fitting(five, 2) = {n \in 1 .. 4 : Grouped(p(n), 2)} BY <1>2 DEF Fitting, A
<1>. QED BY <1>5, <1>6, <1>7 DEF A

LEMMA FitsTwoPairs ==
    ASSUME NEW five \in FiveOf
    PROVE  /\ \A n \in Fitting(five, 3) : \E i \in 1 .. 2, j \in 3 .. 4 :
                 /\ i + 1 < j
                 /\ five[i].index = five[i + 1].index /\ five[j].index = five[j + 1].index
                 /\ Placed(five, Arrangements[3][n])[3] = five[j]
           /\ \A i \in 1 .. 2, j \in 3 .. 4 :
                 /\ i + 1 < j
                 /\ five[i].index = five[i + 1].index /\ five[j].index = five[j + 1].index
                 => Fitting(five, 3) # {}
<1> DEFINE A == Arrangements[3]
           p(n) == Placed(five, A[n])
           I(n) == IF n = 3 THEN 2 ELSE 1
           J(n) == IF n = 1 THEN 3 ELSE 4
<1>1. A = <<<<1, 2, 3, 4, 5>>, <<1, 2, 4, 5, 3>>, <<2, 3, 4, 5, 1>>>> BY ArrangementsAre
<1>2. DOMAIN A = 1 .. 3 BY <1>1
<1>3. \A n \in 1 .. 3 : A[n][1] = I(n) /\ A[n][2] = I(n) + 1 /\ A[n][3] = J(n) /\ A[n][4] = J(n) + 1
    BY <1>1
<1>4. \A n \in 1 .. 3 : A[n] \in [1 .. 5 -> 1 .. 5] BY <1>1
<1> HIDE DEF A
<1>5. ASSUME NEW n \in 1 .. 3
      PROVE  /\ p(n) \in [1 .. 5 -> Drawn]
             /\ p(n)[1] = five[I(n)] /\ p(n)[2] = five[I(n) + 1]
             /\ p(n)[3] = five[J(n)] /\ p(n)[4] = five[J(n) + 1]
    <2>1. A[n] \in [1 .. 5 -> 1 .. 5] /\ five \in [1 .. 5 -> Drawn] BY <1>4 DEF FiveOf
    <2>2. p(n) \in [1 .. 5 -> Drawn] BY <2>1 DEF Placed
    <2>3. \A i \in 1 .. 5 : p(n)[i] = five[A[n][i]] BY DEF Placed
    <2>. QED BY <1>3, <2>2, <2>3
<1>6. \A n \in 1 .. 3 : Grouped(p(n), 3) <=>
          five[I(n)].index = five[I(n) + 1].index /\ five[J(n)].index = five[J(n) + 1].index
    BY <1>5, GroupedIs
<1>7. Fitting(five, 3) = {n \in 1 .. 3 : Grouped(p(n), 3)} BY <1>2 DEF Fitting, A
<1>8. \A n \in 1 .. 3 : I(n) \in 1 .. 2 /\ J(n) \in 3 .. 4 /\ I(n) + 1 < J(n) OBVIOUS
<1>9. ASSUME NEW i \in 1 .. 2, NEW j \in 3 .. 4, i + 1 < j
      PROVE  \E n \in 1 .. 3 : I(n) = i /\ J(n) = j
    <2>1. CASE i = 1 /\ j = 3 BY <2>1
    <2>2. CASE i = 1 /\ j = 4 BY <2>2, I(2) = 1, J(2) = 4
    <2>3. CASE i = 2 /\ j = 4 BY <2>3, I(3) = 2, J(3) = 4
    <2>. QED BY <1>9, <2>1, <2>2, <2>3
<1> HIDE DEF I, J
<1>10. ASSUME NEW n \in Fitting(five, 3)
       PROVE  \E i \in 1 .. 2, j \in 3 .. 4 :
                 /\ i + 1 < j
                 /\ five[i].index = five[i + 1].index /\ five[j].index = five[j + 1].index
                 /\ p(n)[3] = five[j]
    <2>1. n \in 1 .. 3 /\ Grouped(p(n), 3) BY <1>7
    <2>. QED BY <1>5, <1>6, <1>8, <2>1
<1>11. ASSUME NEW i \in 1 .. 2, NEW j \in 3 .. 4, i + 1 < j,
              five[i].index = five[i + 1].index, five[j].index = five[j + 1].index
       PROVE  Fitting(five, 3) # {}
    <2>1. PICK n \in 1 .. 3 : I(n) = i /\ J(n) = j BY <1>9, <1>11
    <2>2. Grouped(p(n), 3) BY <1>6, <1>11, <2>1
    <2>. QED BY <1>7, <2>2
<1>. QED BY <1>10, <1>11 DEF A

LEMMA FitsThree ==
    ASSUME NEW five \in FiveOf
    PROVE  /\ \A n \in Fitting(five, 4) :
                 /\ n \in 1 .. 3 /\ Placed(five, Arrangements[4][n])[1] = five[n]
                 /\ five[n].index = five[n + 1].index /\ five[n + 1].index = five[n + 2].index
           /\ \A n \in 1 .. 3 :
                 /\ five[n].index = five[n + 1].index /\ five[n + 1].index = five[n + 2].index
                 => n \in Fitting(five, 4)
<1> DEFINE A == Arrangements[4]
           p(n) == Placed(five, A[n])
<1>1. A = <<<<1, 2, 3, 4, 5>>, <<2, 3, 4, 1, 5>>, <<3, 4, 5, 1, 2>>>> BY ArrangementsAre
<1>2. DOMAIN A = 1 .. 3 BY <1>1
<1>3. \A n \in 1 .. 3 : A[n][1] = n /\ A[n][2] = n + 1 /\ A[n][3] = n + 2 BY <1>1
<1>4. \A n \in 1 .. 3 : A[n] \in [1 .. 5 -> 1 .. 5] BY <1>1
<1> HIDE DEF A
<1>5. ASSUME NEW n \in 1 .. 3
      PROVE  /\ p(n) \in [1 .. 5 -> Drawn]
             /\ p(n)[1] = five[n] /\ p(n)[2] = five[n + 1] /\ p(n)[3] = five[n + 2]
    <2>1. A[n] \in [1 .. 5 -> 1 .. 5] /\ five \in [1 .. 5 -> Drawn] BY <1>4 DEF FiveOf
    <2>. QED BY <1>3, <2>1 DEF Placed
<1>6. \A n \in 1 .. 3 : Grouped(p(n), 4) <=>
          five[n].index = five[n + 1].index /\ five[n + 1].index = five[n + 2].index
    BY <1>5, GroupedIs
<1>7. Fitting(five, 4) = {n \in 1 .. 3 : Grouped(p(n), 4)} BY <1>2 DEF Fitting, A
<1>. QED BY <1>5, <1>6, <1>7 DEF A

LEMMA FitsFullHouse ==
    ASSUME NEW five \in FiveOf
    PROVE  /\ \A n \in Fitting(five, 7) :
                 /\ n \in 1 .. 2 /\ five[1].index = five[2].index /\ five[4].index = five[5].index
                 /\ n = 1 => /\ Placed(five, Arrangements[7][n])[1] = five[1]
                             /\ five[2].index = five[3].index
                 /\ n = 2 => /\ Placed(five, Arrangements[7][n])[1] = five[3]
                             /\ five[3].index = five[4].index
           /\ /\ five[1].index = five[2].index /\ five[4].index = five[5].index
              /\ five[2].index = five[3].index \/ five[3].index = five[4].index
              => Fitting(five, 7) # {}
<1> DEFINE A == Arrangements[7]
           p(n) == Placed(five, A[n])
<1>1. A = <<<<1, 2, 3, 4, 5>>, <<3, 4, 5, 1, 2>>>> BY ArrangementsAre
<1>2. DOMAIN A = 1 .. 2 BY <1>1
<1>3. /\ A[1] = <<1, 2, 3, 4, 5>> /\ A[2] = <<3, 4, 5, 1, 2>>
      /\ A[1] \in [1 .. 5 -> 1 .. 5] /\ A[2] \in [1 .. 5 -> 1 .. 5]
    BY <1>1
<1> HIDE DEF A
<1>4. five \in [1 .. 5 -> Drawn] BY DEF FiveOf
<1>5. /\ p(1) \in [1 .. 5 -> Drawn] /\ p(1)[1] = five[1] /\ p(1)[2] = five[2] /\ p(1)[3] = five[3]
      /\ p(1)[4] = five[4] /\ p(1)[5] = five[5]
    BY <1>3, <1>4 DEF Placed
<1>6. /\ p(2) \in [1 .. 5 -> Drawn] /\ p(2)[1] = five[3] /\ p(2)[2] = five[4] /\ p(2)[3] = five[5]
      /\ p(2)[4] = five[1] /\ p(2)[5] = five[2]
    BY <1>3, <1>4 DEF Placed
<1>7. Grouped(p(1), 7) <=> /\ five[1].index = five[2].index /\ five[2].index = five[3].index
                           /\ five[4].index = five[5].index
    BY <1>5, GroupedIs
<1>8. Grouped(p(2), 7) <=> /\ five[3].index = five[4].index /\ five[4].index = five[5].index
                           /\ five[1].index = five[2].index
    BY <1>6, GroupedIs
<1>9. Fitting(five, 7) = {n \in 1 .. 2 : Grouped(p(n), 7)} BY <1>2 DEF Fitting, A
<1> HIDE DEF p
<1>10. \A n \in 1 .. 2 : n = 1 \/ n = 2 OBVIOUS
<1>11. ASSUME NEW n \in Fitting(five, 7)
       PROVE  /\ n \in 1 .. 2 /\ five[1].index = five[2].index /\ five[4].index = five[5].index
              /\ n = 1 => p(n)[1] = five[1] /\ five[2].index = five[3].index
              /\ n = 2 => p(n)[1] = five[3] /\ five[3].index = five[4].index
    BY <1>5, <1>6, <1>7, <1>8, <1>9, <1>10
<1>12. ASSUME five[1].index = five[2].index, five[4].index = five[5].index,
              five[2].index = five[3].index \/ five[3].index = five[4].index
       PROVE  Fitting(five, 7) # {}
    BY <1>7, <1>8, <1>9, <1>12
<1>. QED BY <1>11, <1>12 DEF p, A

(* Of a fourth kind nothing is drawn, so no four cards have one index.     *)
LEMMA NoFour == ASSUME NEW five \in FiveOf PROVE Fitting(five, 8) = {}
<1> DEFINE A == Arrangements[8]
           p(n) == Placed(five, A[n])
<1>1. A = <<<<1, 2, 3, 4, 5>>, <<2, 3, 4, 5, 1>>>> BY ArrangementsAre
<1>2. DOMAIN A = 1 .. 2 BY <1>1
<1>3. \A n \in 1 .. 2 : A[n][1] = n /\ A[n][2] = n + 1 /\ A[n][3] = n + 2 /\ A[n][4] = n + 3 BY <1>1
<1>4. \A n \in 1 .. 2 : A[n] \in [1 .. 5 -> 1 .. 5] BY <1>1
<1> HIDE DEF A
<1>5. ASSUME NEW n \in 1 .. 2
      PROVE  /\ p(n) \in [1 .. 5 -> Drawn]
             /\ p(n)[1] = five[n] /\ p(n)[2] = five[n + 1] /\ p(n)[3] = five[n + 2]
             /\ p(n)[4] = five[n + 3]
    <2>1. A[n] \in [1 .. 5 -> 1 .. 5] /\ five \in [1 .. 5 -> Drawn] BY <1>4 DEF FiveOf
    <2>. QED BY <1>3, <2>1 DEF Placed
<1>6. \A c, d \in Drawn : c.index = d.index /\ c.kind = d.kind => c = d BY DEF Drawn
<1>7. ASSUME NEW n \in 1 .. 2 PROVE ~Grouped(p(n), 8)
    <2>1. SUFFICES ASSUME five[n].index = five[n + 1].index, five[n + 1].index = five[n + 2].index,
                          five[n + 2].index = five[n + 3].index
                   PROVE  FALSE
        BY <1>5, GroupedIs
    <2>2. /\ five[n] \in Drawn /\ five[n + 1] \in Drawn /\ five[n + 2] \in Drawn
          /\ five[n + 3] \in Drawn
          /\ five[n] # five[n + 1] /\ five[n] # five[n + 2] /\ five[n] # five[n + 3]
          /\ five[n + 1] # five[n + 2] /\ five[n + 1] # five[n + 3] /\ five[n + 2] # five[n + 3]
        BY DEF FiveOf
    <2>3. /\ five[n].kind # five[n + 1].kind /\ five[n].kind # five[n + 2].kind
          /\ five[n].kind # five[n + 3].kind /\ five[n + 1].kind # five[n + 2].kind
          /\ five[n + 1].kind # five[n + 3].kind /\ five[n + 2].kind # five[n + 3].kind
        BY <1>6, <2>1, <2>2
    <2>4. /\ five[n].kind \in 0 .. 2 /\ five[n + 1].kind \in 0 .. 2
          /\ five[n + 2].kind \in 0 .. 2 /\ five[n + 3].kind \in 0 .. 2
        BY <2>2 DEF Drawn
    <2>. QED BY <2>3, <2>4
<1>. QED BY <1>2, <1>7 DEF Fitting, A

(* The other checks leave the cards as they are.                           *)
LEMMA FitsAnyhow ==
    ASSUME NEW five \in FiveOf, NEW c \in {1, 5, 6, 9}
    PROVE  Fitting(five, c) = {1} /\ Placed(five, Arrangements[c][1]) = five
<1> DEFINE A == Arrangements[c]
<1>1. A = <<<<1, 2, 3, 4, 5>>>> BY ArrangementsAre
<1>2. DOMAIN A = {1} /\ A[1] = <<1, 2, 3, 4, 5>> BY <1>1
<1> HIDE DEF A
<1>3. five \in [1 .. 5 -> Drawn] BY DEF FiveOf
<1>4. \A i \in 1 .. 5 : A[1][i] = i BY <1>2
<1>5. Placed(five, A[1]) = five BY <1>3, <1>4 DEF Placed
<1>6. Grouped(five, c) BY <1>3, GroupedIs
<1>. QED BY <1>2, <1>5, <1>6 DEF Fitting, A

(* Sorted downwards, nothing is a straight to a check that looks upwards.  *)
LEMMA NoStraight == ASSUME NEW five \in FiveOf PROVE ~Ascending(five)
<1>1. five[1].index >= five[2].index /\ five[1].index \in Int /\ five[2].index \in Int
    <2>1. five[1].index >= five[1 + 1].index BY DEF FiveOf
    <2>2. five[1] \in Drawn /\ five[2] \in Drawn BY DEF FiveOf
    <2>. QED BY <2>1, <2>2 DEF Drawn
<1>2. SUFFICES ASSUME Ascending(five) PROVE FALSE OBVIOUS
<1>3. five[1].index = five[1 + 1].index - 1 BY <1>2 DEF Ascending
<1>. QED BY <1>1, <1>3
-----------------------------------------------------------------------------
(* The category of five cards, and the card that leads their rank.         *)
Leader(c) == IF c = 3 THEN 3 ELSE IF c \in {1, 5, 9} THEN 5 ELSE 1
Lead(five) == Arranged(five, Category(five))[Leader(Category(five))].index

LEMMA CategoryIs ==
    ASSUME NEW five \in FiveOf
    PROVE  /\ Category(five) \in {1, 2, 3, 4, 6, 7} /\ Exists(five, Category(five))
           /\ \A d \in 1 .. 9 : Exists(five, d) => d <= Category(five)
<1> DEFINE S == {c \in 1 .. 9 : Exists(five, c)}
<1>1. 1 \in S
    <2>1. Fitting(five, 1) = {1} BY FitsAnyhow
    <2>. QED BY <2>1 DEF Exists
<1>2. 5 \notin S /\ 9 \notin S BY NoStraight DEF Exists
<1>3. 8 \notin S
    <2>1. Fitting(five, 8) = {} BY NoFour
    <2>. QED BY <2>1 DEF Exists
<1>4. S \in SUBSET (1 .. 9) OBVIOUS
<1>5. Category(five) = Max(S) BY DEF Category
<1> HIDE DEF S
<1>6. Max(S) \in S /\ \A y \in S : Max(S) >= y BY <1>1, <1>4, MaxIs
<1>7. Max(S) \in 1 .. 9 /\ Max(S) # 5 /\ Max(S) # 8 /\ Max(S) # 9 BY <1>2, <1>3, <1>4, <1>6
<1>8. ASSUME NEW d \in 1 .. 9, Exists(five, d) PROVE d <= Max(S)
    <2>1. d \in S BY <1>8 DEF S
    <2>. QED BY <1>6, <1>7, <2>1
<1>9. Exists(five, Max(S)) BY <1>6 DEF S
<1>. QED BY <1>5, <1>7, <1>8, <1>9

(* The arrangement that is taken is one that fits.                         *)
LEMMA ArrangedIs ==
    ASSUME NEW five \in FiveOf, NEW c \in {1, 2, 3, 4, 6, 7}, Exists(five, c)
    PROVE  \E n \in Fitting(five, c) : Arranged(five, c) = Placed(five, Arrangements[c][n])
<1> DEFINE F == Fitting(five, c)
<1>1. F # {}
    <2>1. CASE c = 6
        <3>1. F = {1} BY <2>1, FitsAnyhow
        <3>. QED BY <3>1
    <2>2. CASE c # 6
        <3>1. c # 9 /\ c # 5 /\ c # 6 BY <2>2
        <3>. QED BY <3>1 DEF Exists
    <2>. QED BY <2>1, <2>2
<1>2. F \in SUBSET Nat
    <2>1. CASE c \in {1, 6}
        <3>1. F = {1} BY <2>1, FitsAnyhow
        <3>. QED BY <3>1
    <2>2. CASE c = 2
        <3>1. \A n \in Fitting(five, 2) : n \in 1 .. 4 BY FitsPair
        <3>. QED BY <2>2, <3>1
    <2>3. CASE c = 3
        <3>1. DOMAIN Arrangements[3] = 1 .. 3
            <4>1. Arrangements[3] = <<<<1, 2, 3, 4, 5>>, <<1, 2, 4, 5, 3>>, <<2, 3, 4, 5, 1>>>>
                BY ArrangementsAre
            <4>. QED BY <4>1
        <3>. QED BY <2>3, <3>1 DEF Fitting
    <2>4. CASE c = 4
        <3>1. \A n \in Fitting(five, 4) : n \in 1 .. 3 BY FitsThree
        <3>. QED BY <2>4, <3>1
    <2>5. CASE c = 7
        <3>1. \A n \in Fitting(five, 7) : n \in 1 .. 2 BY FitsFullHouse
        <3>. QED BY <2>5, <3>1
    <2>. QED BY <2>1, <2>2, <2>3, <2>4, <2>5
<1> HIDE DEF F
<1>3. PICK n \in F : \A m \in F : n <= m BY <1>1, <1>2, LeastNat
<1>4. Min(F) \in F BY <1>3 DEF Min
<1>. QED BY <1>4 DEF Arranged, F

(* What leads, category by category.                                       *)
LEMMA LeadIs ==
    ASSUME NEW five \in FiveOf
    PROVE  /\ Category(five) = 1 => Lead(five) = five[5].index
           /\ Category(five) = 2 => \E n \in 1 .. 4 :
                 Lead(five) = five[n].index /\ five[n].index = five[n + 1].index
           /\ Category(five) = 3 => \E i \in 1 .. 2, j \in 3 .. 4 :
                 /\ i + 1 < j /\ Lead(five) = five[j].index
                 /\ five[i].index = five[i + 1].index /\ five[j].index = five[j + 1].index
           /\ Category(five) = 4 => \E n \in 1 .. 3 :
                 /\ Lead(five) = five[n].index
                 /\ five[n].index = five[n + 1].index /\ five[n + 1].index = five[n + 2].index
           /\ Category(five) = 6 => Lead(five) = five[1].index
           /\ Category(five) = 7 =>
                 /\ five[1].index = five[2].index /\ five[4].index = five[5].index
                 /\ \/ Lead(five) = five[1].index /\ five[2].index = five[3].index
                    \/ Lead(five) = five[3].index /\ five[3].index = five[4].index
<1> DEFINE c == Category(five)
<1>1. c \in {1, 2, 3, 4, 6, 7} /\ Exists(five, c) BY CategoryIs
<1> HIDE DEF c
<1>2. PICK n \in Fitting(five, c) : Arranged(five, c) = Placed(five, Arrangements[c][n])
    BY <1>1, ArrangedIs
<1>3. Lead(five) = Placed(five, Arrangements[c][n])[Leader(c)].index BY <1>2 DEF Lead, c
<1>4. CASE c = 1
    <2>1. Leader(c) = 5 BY <1>4 DEF Leader
    <2>2. n = 1 /\ Placed(five, Arrangements[c][n]) = five BY <1>2, <1>4, FitsAnyhow
    <2>. QED BY <1>3, <1>4, <2>1, <2>2 DEF c
<1>5. CASE c = 2
    <2>1. Leader(c) = 1 BY <1>5 DEF Leader
    <2>2. /\ n \in 1 .. 4 /\ five[n].index = five[n + 1].index
          /\ Placed(five, Arrangements[c][n])[1] = five[n]
        BY <1>2, <1>5, FitsPair
    <2>. QED BY <1>3, <1>5, <2>1, <2>2 DEF c
<1>6. CASE c = 3
    <2>1. Leader(c) = 3 BY <1>6 DEF Leader
    <2>2. \E i \in 1 .. 2, j \in 3 .. 4 :
             /\ i + 1 < j
             /\ five[i].index = five[i + 1].index /\ five[j].index = five[j + 1].index
             /\ Placed(five, Arrangements[c][n])[3] = five[j]
        BY <1>2, <1>6, FitsTwoPairs
    <2>. QED BY <1>3, <1>6, <2>1, <2>2 DEF c
<1>7. CASE c = 4
    <2>1. Leader(c) = 1 BY <1>7 DEF Leader
    <2>2. /\ n \in 1 .. 3 /\ Placed(five, Arrangements[c][n])[1] = five[n]
          /\ five[n].index = five[n + 1].index /\ five[n + 1].index = five[n + 2].index
        BY <1>2, <1>7, FitsThree
    <2>. QED BY <1>3, <1>7, <2>1, <2>2 DEF c
<1>8. CASE c = 6
    <2>1. Leader(c) = 1 BY <1>8 DEF Leader
    <2>2. n = 1 /\ Placed(five, Arrangements[c][n]) = five BY <1>2, <1>8, FitsAnyhow
    <2>. QED BY <1>3, <1>8, <2>1, <2>2 DEF c
<1>9. CASE c = 7
    <2>1. Leader(c) = 1 BY <1>9 DEF Leader
    <2>2. /\ n \in 1 .. 2 /\ five[1].index = five[2].index /\ five[4].index = five[5].index
          /\ n = 1 => /\ Placed(five, Arrangements[7][n])[1] = five[1]
                      /\ five[2].index = five[3].index
          /\ n = 2 => /\ Placed(five, Arrangements[7][n])[1] = five[3]
                      /\ five[3].index = five[4].index
        BY <1>2, <1>9, FitsFullHouse
    <2>3. n = 1 \/ n = 2 BY <2>2
    <2>4. Lead(five) = Placed(five, Arrangements[7][n])[1].index BY <1>3, <1>9, <2>1
    <2>5. /\ five[1].index = five[2].index /\ five[4].index = five[5].index
          /\ \/ Lead(five) = five[1].index /\ five[2].index = five[3].index
             \/ Lead(five) = five[3].index /\ five[3].index = five[4].index
        <3>1. CASE n = 1 BY <2>2, <2>4, <3>1
        <3>2. CASE n = 2 BY <2>2, <2>4, <3>2
        <3>. QED BY <2>3, <3>1, <3>2
    <2>. QED BY <1>9, <2>5 DEF c
<1>. QED BY <1>1, <1>4, <1>5, <1>6, <1>7, <1>8, <1>9 DEF c

(* The rank: the category first, then the card that leads.                 *)
LEMMA ScoreIs ==
    ASSUME NEW five \in FiveOf
    PROVE  /\ Lead(five) \in 0 .. 12
           /\ \E r \in 0 .. 1313 :
                 Score(five) = 1000000 * Category(five) + (10000 * (Lead(five) + 1) + r)
<1> DEFINE c == Category(five)
           a == Arranged(five, c)
<1>1. c \in {1, 2, 3, 4, 6, 7} /\ Exists(five, c) BY CategoryIs
<1>2. PICK n \in Fitting(five, c) : a = Placed(five, Arrangements[c][n])
    BY <1>1, ArrangedIs
<1>3. Arrangements[c][n] \in [1 .. 5 -> 1 .. 5]
    <2>1. \A d \in {1, 2, 3, 4, 6, 7} : \A m \in DOMAIN Arrangements[d] :
             Arrangements[d][m] \in [1 .. 5 -> 1 .. 5]
        <3>1. \A m \in DOMAIN Arrangements[2] : Arrangements[2][m] \in [1 .. 5 -> 1 .. 5]
            <4>1. Arrangements[2] = <<<<1, 2, 3, 4, 5>>, <<2, 3, 1, 4, 5>>, <<3, 4, 1, 2, 5>>, <<4, 5, 1, 2, 3>>>>
                BY ArrangementsAre
            <4>. QED BY <4>1
        <3>2. \A m \in DOMAIN Arrangements[3] : Arrangements[3][m] \in [1 .. 5 -> 1 .. 5]
            <4>1. Arrangements[3] = <<<<1, 2, 3, 4, 5>>, <<1, 2, 4, 5, 3>>, <<2, 3, 4, 5, 1>>>>
                BY ArrangementsAre
            <4>. QED BY <4>1
        <3>3. \A m \in DOMAIN Arrangements[4] : Arrangements[4][m] \in [1 .. 5 -> 1 .. 5]
            <4>1. Arrangements[4] = <<<<1, 2, 3, 4, 5>>, <<2, 3, 4, 1, 5>>, <<3, 4, 5, 1, 2>>>>
                BY ArrangementsAre
            <4>. QED BY <4>1
        <3>4. \A m \in DOMAIN Arrangements[7] : Arrangements[7][m] \in [1 .. 5 -> 1 .. 5]
            <4>1. Arrangements[7] = <<<<1, 2, 3, 4, 5>>, <<3, 4, 5, 1, 2>>>> BY ArrangementsAre
            <4>. QED BY <4>1
        <3>5. \A d \in {1, 6} : \A m \in DOMAIN Arrangements[d] : Arrangements[d][m] \in [1 .. 5 -> 1 .. 5]
            <4>1. \A d \in {1, 6} : Arrangements[d] = <<<<1, 2, 3, 4, 5>>>> BY ArrangementsAre
            <4>. QED BY <4>1
        <3>. QED BY <3>1, <3>2, <3>3, <3>4, <3>5
    <2>2. n \in DOMAIN Arrangements[c] BY <1>2 DEF Fitting
    <2> HIDE DEF c
    <2>. QED BY <1>1, <2>1, <2>2
<1>4. \A i \in 1 .. 5 : a[i] \in Drawn
    <2>1. five \in [1 .. 5 -> Drawn] BY DEF FiveOf
    <2>2. \A i \in 1 .. 5 : a[i] = five[Arrangements[c][n][i]] BY <1>2 DEF Placed
    <2>. QED BY <1>3, <2>1, <2>2
<1>5. \A i \in 1 .. 5 : a[i].index \in 0 .. 12 BY <1>4 DEF Drawn
<1> DEFINE v == [i \in 1 .. 5 |-> a[i].index + 1]
           M == 1000000
           K == 10000
           H == 100
<1>6. /\ c \in {2, 4, 7} => Score(five) = M * c + (K * v[1] + v[5])
      /\ c = 6 => Score(five) = M * c + K * v[1]
      /\ c = 3 => Score(five) = M * c + (K * v[3] + H * v[1] + v[5])
      /\ c = 1 => Score(five) = M * c + K * v[5]
    BY SMT DEF Score
<1>7. \A i \in 1 .. 5 : v[i] = a[i].index + 1 /\ v[i] \in 1 .. 13 BY <1>5
<1>8. Leader(c) \in 1 .. 5 /\ Lead(five) = a[Leader(c)].index BY <1>1 DEF Lead, Leader
<1>9. Lead(five) \in 0 .. 12 /\ v[Leader(c)] = Lead(five) + 1 BY <1>5, <1>7, <1>8
<1> DEFINE R == 0 .. 1313
<1>10. /\ \A x \in 1 .. 13 : x \in R
       /\ \A x, y \in 1 .. 13 : H * x + y \in R
       /\ 0 \in R
    BY SMT
<1>11. M \in Int /\ K \in Int /\ H \in Int BY SMT
<1> DEFINE lead == Lead(five) + 1
<1>12. lead \in Int /\ lead = v[Leader(c)] BY <1>9
<1> HIDE DEF c, a, v, M, K, H, R, lead
<1>13. \E r \in R : Score(five) = M * c + (K * lead + r)
    <2>0. K * lead \in Int BY <1>11, <1>12
    <2>1. CASE c \in {2, 4, 7}
        <3>1. v[1] = lead BY <1>12, <2>1 DEF Leader
        <3>2. Score(five) = M * c + (K * lead + v[5]) BY <1>6, <2>1, <3>1
        <3>3. v[5] \in R BY <1>7, <1>10
        <3>. QED BY <3>2, <3>3
    <2>2. CASE c = 6
        <3>1. v[1] = lead BY <1>12, <2>2 DEF Leader
        <3>2. Score(five) = M * c + (K * lead + 0) BY <1>6, <2>0, <2>2, <3>1
        <3>. QED BY <1>10, <3>2
    <2>3. CASE c = 3
        <3>1. v[3] = lead BY <1>12, <2>3 DEF Leader
        <3>2. v[1] \in 1 .. 13 /\ v[5] \in 1 .. 13 BY <1>7
        <3>3. H * v[1] \in Int BY <1>11, <3>2
        <3>4. K * lead + H * v[1] + v[5] = K * lead + (H * v[1] + v[5])
            BY <2>0, <3>2, <3>3
        <3>5. Score(five) = M * c + (K * lead + (H * v[1] + v[5])) BY <1>6, <2>3, <3>1, <3>4
        <3>6. H * v[1] + v[5] \in R BY <1>10, <3>2
        <3>. QED BY <3>5, <3>6
    <2>4. CASE c = 1
        <3>1. v[5] = lead BY <1>12, <2>4 DEF Leader
        <3>2. Score(five) = M * c + (K * lead + 0) BY <1>6, <2>0, <2>4, <3>1
        <3>. QED BY <1>10, <3>2
    <2>. QED BY <1>1, <2>1, <2>2, <2>3, <2>4
<1>. QED BY <1>9, <1>13, SMT DEF c, M, K, R, lead

-----------------------------------------------------------------------------
(* No more than five places are among some five that go up.                *)
LEMMA Covered ==
    ASSUME NEW f \in [1 .. 5 -> 1 .. 7]
    PROVE  \E at \in FIVES_INDEXES : \A x \in 1 .. 5 : \E i \in 1 .. 5 : at[i] = f[x]
<1> DEFINE S == {f[x] : x \in 1 .. 5}
           T == 1 .. 7
           N == 1 .. 5
           h == [x \in N |-> f[x]]
<1>1. IsFiniteSet(T) /\ Cardinality(T) = 7
    <2>1. IsFiniteSet(1 .. 7) /\ Cardinality(1 .. 7) = IF 1 > 7 THEN 0 ELSE 7 - 1 + 1
        BY 1 \in Int, 7 \in Int, FS_Interval
    <2>. QED BY <2>1
<1>2. IsFiniteSet(N) /\ Cardinality(N) = 5
    <2>1. IsFiniteSet(1 .. 5) /\ Cardinality(1 .. 5) = IF 1 > 5 THEN 0 ELSE 5 - 1 + 1
        BY 1 \in Int, 5 \in Int, FS_Interval
    <2>. QED BY <2>1
<1>3. S \in SUBSET T OBVIOUS
<1>4. IsFiniteSet(S) /\ Cardinality(S) <= 5
    <2>1. h \in [N -> S] /\ \A y \in S : \E x \in N : h[x] = y OBVIOUS
    <2> HIDE DEF h, S, N
    <2>2. h \in Surjection(N, S) BY <2>1 DEF Surjection
    <2>. QED BY <1>2, <2>2, FS_Surjection
<1>5. T \ S \in SUBSET T /\ Cardinality(T \ S) >= 2
    <2> HIDE DEF S, T
    <2>1. Cardinality(T \ S) = Cardinality(T) - Cardinality(T \cap S) BY <1>1, FS_Difference
    <2>2. T \cap S = S BY <1>3
    <2>3. Cardinality(S) \in Nat BY <1>4, FS_CardinalityType
    <2>. QED BY <1>1, <1>4, <2>1, <2>2, <2>3
<1>6. \E e \in [1 .. 2 -> T \ S] : \A i, j \in 1 .. 2 : i < j => e[i] < e[j]
    <2>1. 2 \in Nat OBVIOUS
    <2> HIDE DEF S
    <2>. QED BY <1>5, <2>1, Counted
<1>7. PICK x \in T \ S, y \in T \ S : x < y BY <1>6
<1> DEFINE at == [i \in 1 .. 5 |-> IF i < x THEN i ELSE IF i + 1 < y THEN i + 1 ELSE i + 2]
<1>8. x \in 1 .. 7 /\ y \in 1 .. 7 /\ x \notin S /\ y \notin S BY <1>7
<1>9. at \in FIVES_INDEXES
    <2>1. at \in [1 .. 5 -> 1 .. 7] BY <1>7, <1>8
    <2>2. \A i \in 1 .. 4 : at[i] < at[i + 1] BY <1>7, <1>8
    <2>. QED BY <2>1, <2>2 DEF FIVES_INDEXES
<1>10. ASSUME NEW k \in 1 .. 7, k # x, k # y PROVE \E i \in 1 .. 5 : at[i] = k
    <2>1. CASE k < x
        <3>1. k \in 1 .. 5 /\ at[k] = k BY <1>7, <1>8, <2>1
        <3>. QED BY <3>1
    <2>2. CASE x < k /\ k < y
        <3>1. k - 1 \in 1 .. 5 /\ at[k - 1] = k BY <1>7, <1>8, <2>2
        <3>. QED BY <3>1
    <2>3. CASE y < k
        <3>1. k - 2 \in 1 .. 5 /\ at[k - 2] = k BY <1>7, <1>8, <2>3
        <3>. QED BY <3>1
    <2>. QED BY <1>8, <1>10, <2>1, <2>2, <2>3
<1>11. \A z \in 1 .. 5 : f[z] \in 1 .. 7 /\ f[z] # x /\ f[z] # y BY <1>8
<1> HIDE DEF at, S, T
<1>. QED BY <1>9, <1>10, <1>11

\* The five cards at given places of a hand.
LEMMA OfAFive ==
    ASSUME NEW g \in SevenOf, Ordered(g, 7), NEW five \in Fives(g)
    PROVE  /\ five \in FiveOf
           /\ \E at \in [1 .. 5 -> 1 .. 7] :
                 /\ \A i, j \in 1 .. 5 : i < j => at[i] < at[j]
                 /\ \A i \in 1 .. 5 : five[i] = g[at[i]]
<1>1. PICK at \in FIVES_INDEXES : five = [i \in 1 .. 5 |-> g[at[i]]] BY DEF Fives
<1>2. at \in [1 .. 5 -> 1 .. 7] /\ \A i \in 1 .. 4 : at[i] < at[i + 1] BY DEF FIVES_INDEXES
<1>3. at[1] < at[2] /\ at[2] < at[3] /\ at[3] < at[4] /\ at[4] < at[5] BY <1>2
<1>4. \A i, j \in 1 .. 5 : i < j => at[i] < at[j] BY <1>2, <1>3
<1>. QED BY <1>1, <1>2, <1>4, FivesAre

LEMMA FiveWith ==
    ASSUME NEW g \in SevenOf, Ordered(g, 7), NEW f \in [1 .. 5 -> 1 .. 7]
    PROVE  \E five \in Fives(g) :
              five \in FiveOf /\ \A x \in 1 .. 5 : \E j \in 1 .. 5 : five[j] = g[f[x]]
<1>1. PICK at \in FIVES_INDEXES : \A x \in 1 .. 5 : \E i \in 1 .. 5 : at[i] = f[x] BY Covered
<1> DEFINE five == [i \in 1 .. 5 |-> g[at[i]]]
<1>2. five \in Fives(g) BY DEF Fives
<1>3. five \in FiveOf BY <1>2, OfAFive
<1>4. ASSUME NEW x \in 1 .. 5 PROVE \E j \in 1 .. 5 : five[j] = g[f[x]]
    <2>1. PICK i \in 1 .. 5 : at[i] = f[x] BY <1>1
    <2>2. five[i] = g[f[x]] BY <2>1
    <2>. QED BY <2>2
<1>. QED BY <1>2, <1>3, <1>4

LEMMA FallsInFive ==
    ASSUME NEW five \in FiveOf
    PROVE  /\ \A i \in 1 .. 5 : five[i].index \in 0 .. 12
           /\ \A i, j \in 1 .. 5 : i < j => five[i].index >= five[j].index
<1>1. \A i \in 1 .. 5 : five[i].index \in 0 .. 12
    <2>1. \A i \in 1 .. 5 : five[i] \in Drawn BY DEF FiveOf
    <2>. QED BY <2>1 DEF Drawn
<1>2. \A i \in 1 .. 4 : five[i].index >= five[i + 1].index BY DEF FiveOf
<1>3. /\ five[1].index >= five[2].index /\ five[2].index >= five[3].index
      /\ five[3].index >= five[4].index /\ five[4].index >= five[5].index
    BY <1>2
<1>4. ASSUME NEW i \in 1 .. 5, NEW j \in 1 .. 5, i < j PROVE five[i].index >= five[j].index
    <2>1. /\ five[1].index \in Int /\ five[2].index \in Int /\ five[3].index \in Int
          /\ five[4].index \in Int /\ five[5].index \in Int
        BY <1>1
    <2>. QED BY <1>3, <1>4, <2>1
<1>. QED BY <1>1, <1>4

\* Of the cards of one index in five, each follows the one before.
LEMMA PairInFive ==
    ASSUME NEW five \in FiveOf, NEW i, NEW x \in 1 .. 5, NEW y \in 1 .. 5, x # y,
           five[x].index = i, five[y].index = i
    PROVE  \E n \in 1 .. 4 : five[n].index = i /\ five[n + 1].index = i
<1>1. \A k \in 1 .. 5 : five[k].index \in Int BY FallsInFive
<1>2. ASSUME NEW a \in 1 .. 5, NEW b \in 1 .. 5, a < b, five[a].index = i, five[b].index = i
      PROVE  a \in 1 .. 4 /\ five[a].index = i /\ five[a + 1].index = i
    <2>1. a \in 1 .. 4 /\ a + 1 \in 1 .. 5 BY <1>2
    <2>2. five[a].index >= five[a + 1].index BY <2>1, FallsInFive
    <2>3. five[a + 1].index >= five[b].index
        <3>1. CASE a + 1 = b BY <1>1, <3>1
        <3>2. CASE a + 1 < b BY <2>1, <3>2, FallsInFive
        <3>. QED BY <1>2, <3>1, <3>2
    <2>. QED BY <1>1, <1>2, <2>1, <2>2, <2>3
<1>3. CASE x < y BY <1>2, <1>3
<1>4. CASE y < x BY <1>2, <1>4
<1>. QED BY <1>3, <1>4

LEMMA ThreeInFive ==
    ASSUME NEW five \in FiveOf, NEW i, NEW x \in 1 .. 5, NEW y \in 1 .. 5, NEW z \in 1 .. 5,
           x # y, x # z, y # z,
           five[x].index = i, five[y].index = i, five[z].index = i
    PROVE  \E n \in 1 .. 3 :
              five[n].index = i /\ five[n + 1].index = i /\ five[n + 2].index = i
<1>1. \A k \in 1 .. 5 : five[k].index \in Int BY FallsInFive
<1>2. PICK a \in {x, y, z}, b \in {x, y, z}, c \in {x, y, z} : a < b /\ b < c
    <2>1. x \in Int /\ y \in Int /\ z \in Int OBVIOUS
    <2>. QED BY <2>1
<1>3. five[a].index = i /\ five[c].index = i /\ a \in 1 .. 3 /\ c \in 3 .. 5 /\ a + 2 <= c
    BY <1>2
<1>4. ASSUME NEW k \in 1 .. 5, a <= k, k <= c PROVE five[k].index = i
    <2>1. five[a].index >= five[k].index
        <3>1. CASE a = k BY <1>1, <3>1
        <3>2. CASE a < k BY <1>3, <3>2, FallsInFive
        <3>. QED BY <1>3, <1>4, <3>1, <3>2
    <2>2. five[k].index >= five[c].index
        <3>1. CASE c = k BY <1>1, <3>1
        <3>2. CASE k < c BY <1>3, <3>2, FallsInFive
        <3>. QED BY <1>3, <1>4, <3>1, <3>2
    <2>3. five[a].index \in Int /\ five[k].index \in Int /\ five[c].index \in Int BY <1>1, <1>3
    <2>. QED BY <1>3, <2>1, <2>2, <2>3
<1>5. a + 1 \in 1 .. 5 /\ a + 2 \in 1 .. 5 /\ a \in 1 .. 5 BY <1>3
<1>. QED BY <1>3, <1>4, <1>5

-----------------------------------------------------------------------------
\* How many of seven cards are of an index, and of a kind.
CountIn(h, i) == Cardinality({k \in 1 .. 7 : h[k].index = i})
SuitedIn(h, s) == Cardinality({k \in 1 .. 7 : h[k].kind = s})

LEMMA TwoIn ==
    ASSUME NEW S \in SUBSET (1 .. 7)
    PROVE  Cardinality(S) >= 2 <=> \E a, b \in S : a < b
<1>1. 2 \in Nat OBVIOUS
<1>2. ASSUME Cardinality(S) >= 2 PROVE \E a, b \in S : a < b
    <2>1. PICK e \in [1 .. 2 -> S] : \A i, j \in 1 .. 2 : i < j => e[i] < e[j]
        BY <1>1, <1>2, Counted
    <2>2. e[1] \in S /\ e[2] \in S /\ e[1] < e[2] BY <2>1
    <2>. QED BY <2>2
<1>3. ASSUME NEW a \in S, NEW b \in S, a < b PROVE Cardinality(S) >= 2
    <2> DEFINE e == [i \in 1 .. 2 |-> IF i = 1 THEN a ELSE b]
    <2>1. e \in [1 .. 2 -> S] /\ \A i, j \in 1 .. 2 : i < j => e[i] < e[j] BY <1>3
    <2> HIDE DEF e
    <2>. QED BY <1>1, <2>1, Counted
<1>. QED BY <1>2, <1>3

LEMMA ThreeIn ==
    ASSUME NEW S \in SUBSET (1 .. 7)
    PROVE  Cardinality(S) >= 3 <=> \E a, b, c \in S : a < b /\ b < c
<1>1. 3 \in Nat OBVIOUS
<1>2. ASSUME Cardinality(S) >= 3 PROVE \E a, b, c \in S : a < b /\ b < c
    <2>1. PICK e \in [1 .. 3 -> S] : \A i, j \in 1 .. 3 : i < j => e[i] < e[j]
        BY <1>1, <1>2, Counted
    <2>2. e[1] \in S /\ e[2] \in S /\ e[3] \in S /\ e[1] < e[2] /\ e[2] < e[3] BY <2>1
    <2>. QED BY <2>2
<1>3. ASSUME NEW a \in S, NEW b \in S, NEW c \in S, a < b, b < c PROVE Cardinality(S) >= 3
    <2> DEFINE e == [i \in 1 .. 3 |-> IF i = 1 THEN a ELSE IF i = 2 THEN b ELSE c]
    <2>1. e \in [1 .. 3 -> S] OBVIOUS
    <2>2. a \in Int /\ b \in Int /\ c \in Int OBVIOUS
    <2>3. \A i, j \in 1 .. 3 : i < j => e[i] < e[j] BY <1>3, <2>2
    <2> HIDE DEF e
    <2>. QED BY <1>1, <2>1, <2>3, Counted
<1>. QED BY <1>2, <1>3

\* By the cards at two places, or at three.
LEMMA TwoOf ==
    ASSUME NEW h, NEW i
    PROVE  CountIn(h, i) >= 2 <=> \E a, b \in 1 .. 7 : a < b /\ h[a].index = i /\ h[b].index = i
<1> DEFINE S == {k \in 1 .. 7 : h[k].index = i}
<1>1. S \in SUBSET (1 .. 7) OBVIOUS
<1>2. Cardinality(S) >= 2 <=> \E a, b \in S : a < b
    <2> HIDE DEF S
    <2>. QED BY <1>1, TwoIn
<1>3. CountIn(h, i) = Cardinality(S) BY DEF CountIn
<1>4. (\E a, b \in S : a < b)
         <=> \E a, b \in 1 .. 7 : a < b /\ h[a].index = i /\ h[b].index = i
    OBVIOUS
<1> HIDE DEF S
<1>. QED BY <1>2, <1>3, <1>4

LEMMA ThreeOf ==
    ASSUME NEW h, NEW i
    PROVE  CountIn(h, i) >= 3 <=>
              \E a, b, c \in 1 .. 7 : /\ a < b /\ b < c
                                      /\ h[a].index = i /\ h[b].index = i /\ h[c].index = i
<1> DEFINE S == {k \in 1 .. 7 : h[k].index = i}
<1>1. S \in SUBSET (1 .. 7) OBVIOUS
<1>2. Cardinality(S) >= 3 <=> \E a, b, c \in S : a < b /\ b < c
    <2> HIDE DEF S
    <2>. QED BY <1>1, ThreeIn
<1>3. CountIn(h, i) = Cardinality(S) BY DEF CountIn
<1>4. (\E a, b, c \in S : a < b /\ b < c)
         <=> \E a, b, c \in 1 .. 7 : /\ a < b /\ b < c
                                     /\ h[a].index = i /\ h[b].index = i /\ h[c].index = i
    OBVIOUS
<1> HIDE DEF S
<1>. QED BY <1>2, <1>3, <1>4

LEMMA FiveOfKind ==
    ASSUME NEW h, NEW s
    PROVE  SuitedIn(h, s) >= 5 <=>
              \E at \in [1 .. 5 -> 1 .. 7] : /\ \A i, j \in 1 .. 5 : i < j => at[i] < at[j]
                                             /\ \A i \in 1 .. 5 : h[at[i]].kind = s
<1> DEFINE S == {k \in 1 .. 7 : h[k].kind = s}
<1>1. S \in SUBSET (1 .. 7) /\ 5 \in Nat OBVIOUS
<1>2. /\ Cardinality(S) >= 5 => \E f \in [1 .. 5 -> S] :
                                   \A i, j \in 1 .. 5 : i < j => f[i] < f[j]
      /\ \A f \in [1 .. 5 -> S] : (\A i, j \in 1 .. 5 : i < j => f[i] < f[j])
                                   => Cardinality(S) >= 5
    <2> HIDE DEF S
    <2>. QED BY <1>1, Counted
<1>3. SuitedIn(h, s) = Cardinality(S) BY DEF SuitedIn
<1>4. \A at : at \in [1 .. 5 -> S] <=>
              at \in [1 .. 5 -> 1 .. 7] /\ \A i \in 1 .. 5 : h[at[i]].kind = s
    OBVIOUS
<1> HIDE DEF S
<1>. QED BY <1>2, <1>3, <1>4

\* The order of the cards does not matter to how many there are.
LEMMA CountsKept ==
    ASSUME NEW h \in SevenOf, NEW g \in SevenOf, CardsOf(g) = CardsOf(h)
    PROVE  /\ \A i : CountIn(g, i) = CountIn(h, i)
           /\ \A s : SuitedIn(g, s) = SuitedIn(h, s)
<1>1. ASSUME NEW i PROVE CountIn(g, i) = CountIn(h, i)
    <2> DEFINE A == {c \in Drawn : c.index = i}
    <2>1. /\ {k \in 1 .. 7 : h[k].index = i} = {k \in 1 .. 7 : h[k] \in A}
          /\ {k \in 1 .. 7 : g[k].index = i} = {k \in 1 .. 7 : g[k] \in A}
        BY DEF SevenOf
    <2> HIDE DEF A
    <2>2. /\ Cardinality({k \in 1 .. 7 : h[k] \in A}) = Cardinality(A \cap CardsOf(h))
          /\ Cardinality({k \in 1 .. 7 : g[k] \in A}) = Cardinality(A \cap CardsOf(g))
        BY CountOf
    <2>. QED BY <2>1, <2>2 DEF CountIn
<1>2. ASSUME NEW s PROVE SuitedIn(g, s) = SuitedIn(h, s)
    <2> DEFINE A == {c \in Drawn : c.kind = s}
    <2>1. /\ {k \in 1 .. 7 : h[k].kind = s} = {k \in 1 .. 7 : h[k] \in A}
          /\ {k \in 1 .. 7 : g[k].kind = s} = {k \in 1 .. 7 : g[k] \in A}
        BY DEF SevenOf
    <2> HIDE DEF A
    <2>2. /\ Cardinality({k \in 1 .. 7 : h[k] \in A}) = Cardinality(A \cap CardsOf(h))
          /\ Cardinality({k \in 1 .. 7 : g[k] \in A}) = Cardinality(A \cap CardsOf(g))
        BY CountOf
    <2>. QED BY <2>1, <2>2 DEF SuitedIn
<1>. QED BY <1>1, <1>2

-----------------------------------------------------------------------------
(* What the seven have, some five have.                                    *)
LEMMA MakesPair ==
    ASSUME NEW g \in SevenOf, Ordered(g, 7), NEW i, CountIn(g, i) >= 2
    PROVE  \E five \in Fives(g), n \in 1 .. 4 :
              five \in FiveOf /\ five[n].index = i /\ five[n + 1].index = i
<1>1. PICK a \in 1 .. 7, b \in 1 .. 7 : a < b /\ g[a].index = i /\ g[b].index = i BY TwoOf
<1> DEFINE f == [x \in 1 .. 5 |-> IF x = 1 THEN a ELSE b]
<1>2. f \in [1 .. 5 -> 1 .. 7] /\ f[1] = a /\ f[2] = b OBVIOUS
<1> HIDE DEF f
<1>3. PICK five \in Fives(g) :
         five \in FiveOf /\ \A x \in 1 .. 5 : \E j \in 1 .. 5 : five[j] = g[f[x]]
    BY <1>2, FiveWith
<1>4. PICK x \in 1 .. 5, y \in 1 .. 5 : five[x] = g[a] /\ five[y] = g[b]
    <2>1. 1 \in 1 .. 5 /\ 2 \in 1 .. 5 OBVIOUS
    <2>. QED BY <1>2, <1>3, <2>1
<1>5. x # y BY <1>1, <1>4 DEF SevenOf
<1>6. five[x].index = i /\ five[y].index = i BY <1>1, <1>4
<1>7. PICK n \in 1 .. 4 : five[n].index = i /\ five[n + 1].index = i
    BY <1>3, <1>5, <1>6, PairInFive
<1>. QED BY <1>3, <1>7

LEMMA MakesThree ==
    ASSUME NEW g \in SevenOf, Ordered(g, 7), NEW i, CountIn(g, i) >= 3
    PROVE  \E five \in Fives(g), n \in 1 .. 3 :
              five \in FiveOf /\ five[n].index = i /\ five[n + 1].index = i
                              /\ five[n + 2].index = i
<1>1. PICK a \in 1 .. 7, b \in 1 .. 7, c \in 1 .. 7 :
         a < b /\ b < c /\ g[a].index = i /\ g[b].index = i /\ g[c].index = i
    BY ThreeOf
<1> DEFINE f == [x \in 1 .. 5 |-> IF x = 1 THEN a ELSE IF x = 2 THEN b ELSE c]
<1>2. f \in [1 .. 5 -> 1 .. 7] /\ f[1] = a /\ f[2] = b /\ f[3] = c OBVIOUS
<1> HIDE DEF f
<1>3. PICK five \in Fives(g) :
         five \in FiveOf /\ \A x \in 1 .. 5 : \E j \in 1 .. 5 : five[j] = g[f[x]]
    BY <1>2, FiveWith
<1>4. PICK x \in 1 .. 5, y \in 1 .. 5, z \in 1 .. 5 :
         five[x] = g[a] /\ five[y] = g[b] /\ five[z] = g[c]
    <2>1. 1 \in 1 .. 5 /\ 2 \in 1 .. 5 /\ 3 \in 1 .. 5 OBVIOUS
    <2>. QED BY <1>2, <1>3, <2>1
<1>5. x # y /\ x # z /\ y # z
    <2>1. a # b /\ b # c /\ a # c BY <1>1
    <2>. QED BY <1>4, <2>1 DEF SevenOf
<1>6. five[x].index = i /\ five[y].index = i /\ five[z].index = i BY <1>1, <1>4
<1>7. PICK n \in 1 .. 3 : five[n].index = i /\ five[n + 1].index = i /\ five[n + 2].index = i
    BY <1>3, <1>5, <1>6, ThreeInFive
<1>. QED BY <1>3, <1>7

LEMMA MakesTwoPairs ==
    ASSUME NEW g \in SevenOf, Ordered(g, 7), NEW i \in Int, NEW j \in Int, i > j,
           CountIn(g, i) >= 2, CountIn(g, j) >= 2
    PROVE  \E five \in Fives(g), n \in 1 .. 2, m \in 3 .. 4 :
              /\ five \in FiveOf /\ n + 1 < m
              /\ five[n].index = i /\ five[n + 1].index = i
              /\ five[m].index = j /\ five[m + 1].index = j
<1>1. PICK a \in 1 .. 7, b \in 1 .. 7 : a < b /\ g[a].index = i /\ g[b].index = i BY TwoOf
<1>2. PICK c \in 1 .. 7, d \in 1 .. 7 : c < d /\ g[c].index = j /\ g[d].index = j BY TwoOf
<1> DEFINE f == [x \in 1 .. 5 |-> IF x = 1 THEN a ELSE IF x = 2 THEN b ELSE
                                  IF x = 3 THEN c ELSE d]
<1>3. f \in [1 .. 5 -> 1 .. 7] /\ f[1] = a /\ f[2] = b /\ f[3] = c /\ f[4] = d OBVIOUS
<1> HIDE DEF f
<1>4. PICK five \in Fives(g) :
         five \in FiveOf /\ \A x \in 1 .. 5 : \E y \in 1 .. 5 : five[y] = g[f[x]]
    BY <1>3, FiveWith
<1>5. PICK x \in 1 .. 5, y \in 1 .. 5, z \in 1 .. 5, w \in 1 .. 5 :
         five[x] = g[a] /\ five[y] = g[b] /\ five[z] = g[c] /\ five[w] = g[d]
    <2>1. 1 \in 1 .. 5 /\ 2 \in 1 .. 5 /\ 3 \in 1 .. 5 /\ 4 \in 1 .. 5 OBVIOUS
    <2>. QED BY <1>3, <1>4, <2>1
<1>6. x # y /\ z # w BY <1>1, <1>2, <1>5 DEF SevenOf
<1>7. five[x].index = i /\ five[y].index = i /\ five[z].index = j /\ five[w].index = j
    BY <1>1, <1>2, <1>5
<1>8. PICK n \in 1 .. 4 : five[n].index = i /\ five[n + 1].index = i
    BY <1>4, <1>6, <1>7, PairInFive
<1>9. PICK m \in 1 .. 4 : five[m].index = j /\ five[m + 1].index = j
    BY <1>4, <1>6, <1>7, PairInFive
<1>10. n < m
    <2>1. n # m BY <1>8, <1>9
    <2>2. ~(m < n)
        <3>1. SUFFICES ASSUME m < n PROVE FALSE OBVIOUS
        <3>2. five[m].index >= five[n].index BY <1>4, <3>1, FallsInFive
        <3>. QED BY <1>8, <1>9, <3>2
    <2>. QED BY <2>1, <2>2
<1>11. n + 1 < m
    <2>1. n + 1 # m BY <1>8, <1>9
    <2>. QED BY <1>10, <2>1
<1>12. n \in 1 .. 2 /\ m \in 3 .. 4 BY <1>11
<1>. QED BY <1>4, <1>8, <1>9, <1>11, <1>12

LEMMA MakesFullHouse ==
    ASSUME NEW g \in SevenOf, Ordered(g, 7), NEW i \in Int, NEW j \in Int, i # j,
           CountIn(g, i) >= 3, CountIn(g, j) >= 2
    PROVE  \E five \in Fives(g) :
              /\ five \in FiveOf
              /\ \/ /\ five[1].index = i /\ five[2].index = i /\ five[3].index = i
                    /\ five[4].index = j /\ five[5].index = j
                 \/ /\ five[1].index = j /\ five[2].index = j
                    /\ five[3].index = i /\ five[4].index = i /\ five[5].index = i
<1>1. PICK a \in 1 .. 7, b \in 1 .. 7, c \in 1 .. 7 :
         a < b /\ b < c /\ g[a].index = i /\ g[b].index = i /\ g[c].index = i
    BY ThreeOf
<1>2. PICK d \in 1 .. 7, e \in 1 .. 7 : d < e /\ g[d].index = j /\ g[e].index = j BY TwoOf
<1> DEFINE f == [x \in 1 .. 5 |-> IF x = 1 THEN a ELSE IF x = 2 THEN b ELSE
                                  IF x = 3 THEN c ELSE IF x = 4 THEN d ELSE e]
<1>3. f \in [1 .. 5 -> 1 .. 7] /\ f[1] = a /\ f[2] = b /\ f[3] = c /\ f[4] = d /\ f[5] = e
    OBVIOUS
<1> HIDE DEF f
<1>4. PICK five \in Fives(g) :
         five \in FiveOf /\ \A x \in 1 .. 5 : \E y \in 1 .. 5 : five[y] = g[f[x]]
    BY <1>3, FiveWith
<1>5. PICK x \in 1 .. 5, y \in 1 .. 5, z \in 1 .. 5, w \in 1 .. 5, v \in 1 .. 5 :
         /\ five[x] = g[a] /\ five[y] = g[b] /\ five[z] = g[c]
         /\ five[w] = g[d] /\ five[v] = g[e]
    <2>1. 1 \in 1 .. 5 /\ 2 \in 1 .. 5 /\ 3 \in 1 .. 5 /\ 4 \in 1 .. 5 /\ 5 \in 1 .. 5 OBVIOUS
    <2>2. /\ \E y \in 1 .. 5 : five[y] = g[a]
          /\ \E y \in 1 .. 5 : five[y] = g[b]
          /\ \E y \in 1 .. 5 : five[y] = g[c]
        BY <1>3, <1>4, <2>1
    <2>3. /\ \E y \in 1 .. 5 : five[y] = g[d]
          /\ \E y \in 1 .. 5 : five[y] = g[e]
        BY <1>3, <1>4, <2>1
    <2>. QED BY <2>2, <2>3
<1>6. x # y /\ x # z /\ y # z /\ w # v
    <2>1. a # b /\ b # c /\ a # c /\ d # e BY <1>1, <1>2
    <2>. QED BY <1>5, <2>1 DEF SevenOf
<1>7. /\ five[x].index = i /\ five[y].index = i /\ five[z].index = i
      /\ five[w].index = j /\ five[v].index = j
    BY <1>1, <1>2, <1>5
<1>8. PICK n \in 1 .. 3 : five[n].index = i /\ five[n + 1].index = i /\ five[n + 2].index = i
    BY <1>4, <1>6, <1>7, ThreeInFive
<1>9. PICK m \in 1 .. 4 : five[m].index = j /\ five[m + 1].index = j
    BY <1>4, <1>6, <1>7, PairInFive
<1>10. m # n /\ m # n + 1 /\ m # n + 2 /\ m + 1 # n
    <2>1. m + 1 = n => five[m + 1].index = i BY <1>8
    <2>. QED BY <1>8, <1>9, <2>1
<1>11. (n = 1 /\ m = 4) \/ (n = 3 /\ m = 1) BY <1>10
<1>12. CASE n = 1 /\ m = 4 BY <1>4, <1>8, <1>9, <1>12
<1>13. CASE n = 3 /\ m = 1 BY <1>4, <1>8, <1>9, <1>13
<1>. QED BY <1>11, <1>12, <1>13

LEMMA MakesFlush ==
    ASSUME NEW g \in SevenOf, Ordered(g, 7), NEW s, SuitedIn(g, s) >= 5,
           NEW k \in 1 .. 7, g[k].kind = s
    PROVE  \E five \in Fives(g) :
              /\ five \in FiveOf /\ five[1].index >= g[k].index
              /\ \A i \in 1 .. 5 : five[i].kind = s
<1>1. PICK f \in [1 .. 5 -> 1 .. 7] : /\ \A i, j \in 1 .. 5 : i < j => f[i] < f[j]
                                      /\ \A i \in 1 .. 5 : g[f[i]].kind = s
    BY FiveOfKind
<1> DEFINE first == IF k < f[1] THEN k ELSE f[1]
           at == [i \in 1 .. 5 |-> IF i = 1 THEN first ELSE f[i]]
           five == [i \in 1 .. 5 |-> g[at[i]]]
<1>2. f[1] \in 1 .. 7 /\ first \in 1 .. 7 /\ first <= k /\ first <= f[1] OBVIOUS
<1>3. g[first].kind = s BY <1>1
<1>4. g[first].index >= g[k].index
    <2>1. g[k].index \in Int BY DEF SevenOf, Drawn
    <2>2. CASE first = k BY <2>1, <2>2
    <2>3. CASE first < k BY <1>2, <2>3 DEF Ordered
    <2>. QED BY <1>2, <2>2, <2>3
<1> HIDE DEF first
<1>5. at \in FIVES_INDEXES
    <2>1. at \in [1 .. 5 -> 1 .. 7] BY <1>2
    <2>2. ASSUME NEW i \in 1 .. 4 PROVE at[i] < at[i + 1]
        <3>1. f[i] \in 1 .. 7 /\ f[i + 1] \in 1 .. 7 /\ f[i] < f[i + 1] BY <1>1
        <3>2. at[i + 1] = f[i + 1] /\ (at[i] = f[i] \/ (i = 1 /\ at[i] = first)) OBVIOUS
        <3>. QED BY <1>2, <3>1, <3>2
    <2>. QED BY <2>1, <2>2 DEF FIVES_INDEXES
<1>6. five \in Fives(g) BY <1>5 DEF Fives
<1>7. five \in FiveOf BY <1>6, OfAFive
<1>8. \A i \in 1 .. 5 : five[i].kind = s BY <1>1, <1>3
<1>9. five[1] = g[first] OBVIOUS
<1>. QED BY <1>4, <1>6, <1>7, <1>8, <1>9

-----------------------------------------------------------------------------
(* The categories that seven cards make, straights apart.                  *)
Makes(h, c) ==
    \/ c = 7 /\ \E i, j \in 0 .. 12 : i # j /\ CountIn(h, i) >= 3 /\ CountIn(h, j) >= 2
    \/ c = 6 /\ \E s \in 0 .. 3 : SuitedIn(h, s) >= 5
    \/ c = 4 /\ \E i \in 0 .. 12 : CountIn(h, i) >= 3
    \/ c = 3 /\ \E i, j \in 0 .. 12 : i # j /\ CountIn(h, i) >= 2 /\ CountIn(h, j) >= 2
    \/ c = 2 /\ \E i \in 0 .. 12 : CountIn(h, i) >= 2

\* Of three kinds there are no four cards of one index.
LEMMA NoFourAlike ==
    ASSUME NEW five \in FiveOf,
           NEW x \in 1 .. 5, NEW y \in 1 .. 5, NEW z \in 1 .. 5, NEW w \in 1 .. 5,
           x < y, y < z, z < w,
           five[x].index = five[y].index, five[y].index = five[z].index
    PROVE  five[z].index # five[w].index
<1>1. SUFFICES ASSUME five[z].index = five[w].index PROVE FALSE OBVIOUS
<1>2. /\ five[x] \in Drawn /\ five[y] \in Drawn /\ five[z] \in Drawn /\ five[w] \in Drawn
      /\ \A i, j \in 1 .. 5 : five[i] = five[j] => i = j
    BY DEF FiveOf
<1>3. x # y /\ x # z /\ x # w /\ y # z /\ y # w /\ z # w OBVIOUS
<1>4. /\ five[x] # five[y] /\ five[x] # five[z] /\ five[x] # five[w]
      /\ five[y] # five[z] /\ five[y] # five[w] /\ five[z] # five[w]
    BY <1>2, <1>3
<1>5. \A c, d \in Drawn : c.index = d.index /\ c.kind = d.kind => c = d BY DEF Drawn
<1>6. /\ five[x].kind # five[y].kind /\ five[x].kind # five[z].kind
      /\ five[x].kind # five[w].kind /\ five[y].kind # five[z].kind
      /\ five[y].kind # five[w].kind /\ five[z].kind # five[w].kind
    BY <1>1, <1>2, <1>4, <1>5
<1>7. /\ five[x].kind \in 0 .. 2 /\ five[y].kind \in 0 .. 2
      /\ five[z].kind \in 0 .. 2 /\ five[w].kind \in 0 .. 2
    BY <1>2 DEF Drawn
<1>. QED BY <1>6, <1>7

\* As many as there are of an index among five, there are among the seven.
LEMMA CountedInFive ==
    ASSUME NEW g \in SevenOf, Ordered(g, 7), NEW five \in Fives(g)
    PROVE  /\ \A x, y \in 1 .. 5 : x < y /\ five[x].index = five[y].index
                                => CountIn(g, five[x].index) >= 2
           /\ \A x, y, z \in 1 .. 5 : /\ x < y /\ y < z /\ five[x].index = five[y].index
                                     /\ five[y].index = five[z].index
                                     => CountIn(g, five[x].index) >= 3
<1>1. PICK at \in [1 .. 5 -> 1 .. 7] :
         /\ \A i, j \in 1 .. 5 : i < j => at[i] < at[j]
         /\ \A i \in 1 .. 5 : five[i] = g[at[i]]
    BY OfAFive
<1>2. ASSUME NEW x \in 1 .. 5, NEW y \in 1 .. 5, x < y, five[x].index = five[y].index
      PROVE  CountIn(g, five[x].index) >= 2
    <2>1. /\ at[x] \in 1 .. 7 /\ at[y] \in 1 .. 7 /\ at[x] < at[y]
          /\ five[x] = g[at[x]] /\ five[y] = g[at[y]]
        BY <1>1, <1>2
    <2>. QED BY <1>2, <2>1, TwoOf
<1>3. ASSUME NEW x \in 1 .. 5, NEW y \in 1 .. 5, NEW z \in 1 .. 5, x < y, y < z,
             five[x].index = five[y].index, five[y].index = five[z].index
      PROVE  CountIn(g, five[x].index) >= 3
    <2>1. /\ at[x] \in 1 .. 7 /\ at[y] \in 1 .. 7 /\ at[z] \in 1 .. 7
          /\ at[x] < at[y] /\ at[y] < at[z]
          /\ five[x] = g[at[x]] /\ five[y] = g[at[y]] /\ five[z] = g[at[z]]
        BY <1>1, <1>3
    <2>. QED BY <1>3, <2>1, ThreeOf
<1>. QED BY <1>2, <1>3

\* What five of them have, the seven have.
LEMMA FiveMakes ==
    ASSUME NEW g \in SevenOf, Ordered(g, 7), NEW five \in Fives(g),
           NEW c \in {2, 3, 4, 6, 7}, Exists(five, c)
    PROVE  Makes(g, c)
<1>1. five \in FiveOf BY OfAFive
<1>2. PICK at \in [1 .. 5 -> 1 .. 7] :
         /\ \A i, j \in 1 .. 5 : i < j => at[i] < at[j]
         /\ \A i \in 1 .. 5 : five[i] = g[at[i]]
    BY OfAFive
<1>3. \A i \in 1 .. 5 : five[i].index \in 0 .. 12 BY <1>1, FallsInFive
<1>4. \A x, y \in 1 .. 5 : x < y /\ five[x].index = five[y].index
                          => CountIn(g, five[x].index) >= 2
    BY CountedInFive
<1>5. \A x, y, z \in 1 .. 5 : /\ x < y /\ y < z /\ five[x].index = five[y].index
                             /\ five[y].index = five[z].index
                             => CountIn(g, five[x].index) >= 3
    BY CountedInFive
<1>6. CASE c = 2
    <2>1. PICK n \in Fitting(five, 2) : TRUE BY <1>6 DEF Exists
    <2>2. n \in 1 .. 4 /\ five[n].index = five[n + 1].index BY <1>1, <2>1, FitsPair
    <2>3. n \in 1 .. 5 /\ n + 1 \in 1 .. 5 /\ n < n + 1 BY <2>2
    <2>4. five[n].index \in 0 .. 12 /\ CountIn(g, five[n].index) >= 2
        BY <1>3, <1>4, <2>2, <2>3
    <2>. QED BY <1>6, <2>4 DEF Makes
<1>7. CASE c = 3
    <2>1. PICK n \in Fitting(five, 3) : TRUE BY <1>7 DEF Exists
    <2>2. PICK i \in 1 .. 2, j \in 3 .. 4 :
             i + 1 < j /\ five[i].index = five[i + 1].index /\ five[j].index = five[j + 1].index
        BY <1>1, <2>1, FitsTwoPairs
    <2>3. /\ i \in 1 .. 5 /\ i + 1 \in 1 .. 5 /\ i < i + 1
          /\ j \in 1 .. 5 /\ j + 1 \in 1 .. 5 /\ j < j + 1
        BY <2>2
    <2>4. /\ five[i].index \in 0 .. 12 /\ CountIn(g, five[i].index) >= 2
          /\ five[j].index \in 0 .. 12 /\ CountIn(g, five[j].index) >= 2
        BY <1>3, <1>4, <2>2, <2>3
    <2>5. five[i].index # five[j].index
        <3>1. SUFFICES ASSUME five[i].index = five[j].index PROVE FALSE OBVIOUS
        <3>2. five[i + 1].index = five[j].index BY <2>2, <3>1
        <3>. QED BY <1>1, <2>2, <2>3, <3>2, NoFourAlike
    <2>. QED BY <1>7, <2>4, <2>5 DEF Makes
<1>8. CASE c = 4
    <2>1. PICK n \in Fitting(five, 4) : TRUE BY <1>8 DEF Exists
    <2>2. /\ n \in 1 .. 3 /\ five[n].index = five[n + 1].index
          /\ five[n + 1].index = five[n + 2].index
        BY <1>1, <2>1, FitsThree
    <2>3. /\ n \in 1 .. 5 /\ n + 1 \in 1 .. 5 /\ n + 2 \in 1 .. 5
          /\ n < n + 1 /\ n + 1 < n + 2
        BY <2>2
    <2>4. five[n].index \in 0 .. 12 /\ CountIn(g, five[n].index) >= 3
        BY <1>3, <1>5, <2>2, <2>3
    <2>. QED BY <1>8, <2>4 DEF Makes
<1>9. CASE c = 6
    <2>1. \A i \in 1 .. 4 : five[i].kind = five[i + 1].kind BY <1>9 DEF Exists, OneKind
    <2>2. /\ five[1].kind = five[2].kind /\ five[2].kind = five[3].kind
          /\ five[3].kind = five[4].kind /\ five[4].kind = five[5].kind
        BY <2>1
    <2>3. \A i \in 1 .. 5 : five[i].kind = five[1].kind BY <2>2
    <2>4. \A i \in 1 .. 5 : g[at[i]].kind = five[1].kind BY <1>2, <2>3
    <2>5. SuitedIn(g, five[1].kind) >= 5 BY <1>2, <2>4, FiveOfKind
    <2>6. five[1].kind \in 0 .. 3
        <3>1. five[1] \in Drawn BY <1>1 DEF FiveOf
        <3>. QED BY <3>1 DEF Drawn
    <2>. QED BY <1>9, <2>5, <2>6 DEF Makes
<1>10. CASE c = 7
    <2>1. PICK n \in Fitting(five, 7) : TRUE BY <1>10 DEF Exists
    <2>2. /\ n \in 1 .. 2 /\ five[1].index = five[2].index /\ five[4].index = five[5].index
          /\ n = 1 => five[2].index = five[3].index
          /\ n = 2 => five[3].index = five[4].index
        BY <1>1, <2>1, FitsFullHouse
    <2>3. five[2].index # five[4].index
        <3>1. SUFFICES ASSUME five[2].index = five[4].index PROVE FALSE OBVIOUS
        <3>2. 1 \in 1 .. 5 /\ 2 \in 1 .. 5 /\ 4 \in 1 .. 5 /\ 5 \in 1 .. 5
              /\ 1 < 2 /\ 2 < 4 /\ 4 < 5
            OBVIOUS
        <3>. QED BY <1>1, <2>2, <3>1, <3>2, NoFourAlike
    <2>4. /\ five[1].index \in 0 .. 12 /\ five[4].index \in 0 .. 12
          /\ CountIn(g, five[1].index) >= 2 /\ CountIn(g, five[4].index) >= 2
        BY <1>3, <1>4, <2>2
    <2>5. CASE n = 1
        <3>1. CountIn(g, five[1].index) >= 3 BY <1>5, <2>2, <2>5
        <3>. QED BY <1>10, <2>2, <2>3, <2>4, <3>1 DEF Makes
    <2>6. CASE n = 2
        <3>1. five[3].index \in 0 .. 12 /\ CountIn(g, five[3].index) >= 3 BY <1>3, <1>5, <2>2, <2>6
        <3>. QED BY <1>10, <2>2, <2>3, <2>4, <2>6, <3>1 DEF Makes
    <2>. QED BY <2>2, <2>5, <2>6
<1>. QED BY <1>6, <1>7, <1>8, <1>9, <1>10

\* And what the seven have, some five of them have.
LEMMA MakesFive ==
    ASSUME NEW g \in SevenOf, Ordered(g, 7), NEW c, Makes(g, c)
    PROVE  c \in {2, 3, 4, 6, 7} /\ \E five \in Fives(g) : five \in FiveOf /\ Exists(five, c)
<1>1. c \in {2, 3, 4, 6, 7} BY DEF Makes
<1>2. CASE c = 2
    <2>1. PICK i \in 0 .. 12 : CountIn(g, i) >= 2 BY <1>2 DEF Makes
    <2>2. PICK five \in Fives(g), n \in 1 .. 4 :
             five \in FiveOf /\ five[n].index = i /\ five[n + 1].index = i
        BY <2>1, MakesPair
    <2>3. n \in Fitting(five, 2) BY <2>2, FitsPair
    <2>4. Exists(five, c) BY <1>2, <2>3 DEF Exists
    <2>. QED BY <1>1, <2>2, <2>4
<1>3. CASE c = 3
    <2>1. PICK i \in 0 .. 12, j \in 0 .. 12 : i # j /\ CountIn(g, i) >= 2 /\ CountIn(g, j) >= 2
        BY <1>3 DEF Makes
    <2>2. \E a \in 0 .. 12, b \in 0 .. 12 : a > b /\ CountIn(g, a) >= 2 /\ CountIn(g, b) >= 2
        <3>1. i > j \/ j > i BY <2>1
        <3>. QED BY <2>1, <3>1
    <2>3. PICK a \in 0 .. 12, b \in 0 .. 12 : a > b /\ CountIn(g, a) >= 2 /\ CountIn(g, b) >= 2
        BY <2>2
    <2>4. a \in Int /\ b \in Int OBVIOUS
    <2>5. PICK five \in Fives(g), n \in 1 .. 2, m \in 3 .. 4 :
             /\ five \in FiveOf /\ n + 1 < m
             /\ five[n].index = a /\ five[n + 1].index = a
             /\ five[m].index = b /\ five[m + 1].index = b
        BY <2>3, <2>4, MakesTwoPairs
    <2>6. Fitting(five, 3) # {} BY <2>5, FitsTwoPairs
    <2>7. Exists(five, c) BY <1>3, <2>6 DEF Exists
    <2>. QED BY <1>1, <2>5, <2>7
<1>4. CASE c = 4
    <2>1. PICK i \in 0 .. 12 : CountIn(g, i) >= 3 BY <1>4 DEF Makes
    <2>2. PICK five \in Fives(g), n \in 1 .. 3 :
             five \in FiveOf /\ five[n].index = i /\ five[n + 1].index = i
                             /\ five[n + 2].index = i
        BY <2>1, MakesThree
    <2>3. n \in Fitting(five, 4) BY <2>2, FitsThree
    <2>4. Exists(five, c) BY <1>4, <2>3 DEF Exists
    <2>. QED BY <1>1, <2>2, <2>4
<1>5. CASE c = 6
    <2>1. PICK s \in 0 .. 3 : SuitedIn(g, s) >= 5 BY <1>5 DEF Makes
    <2>2. \E k \in 1 .. 7 : g[k].kind = s
        <3>1. PICK at \in [1 .. 5 -> 1 .. 7] : \A i \in 1 .. 5 : g[at[i]].kind = s
            BY <2>1, FiveOfKind
        <3>2. at[1] \in 1 .. 7 /\ g[at[1]].kind = s BY <3>1
        <3>. QED BY <3>2
    <2>3. PICK five \in Fives(g) : five \in FiveOf /\ \A i \in 1 .. 5 : five[i].kind = s
        BY <2>1, <2>2, MakesFlush
    <2>4. Exists(five, c) BY <1>5, <2>3 DEF Exists, OneKind
    <2>. QED BY <1>1, <2>3, <2>4
<1>6. CASE c = 7
    <2>1. PICK i \in 0 .. 12, j \in 0 .. 12 : i # j /\ CountIn(g, i) >= 3 /\ CountIn(g, j) >= 2
        BY <1>6 DEF Makes
    <2>2. i \in Int /\ j \in Int OBVIOUS
    <2>3. PICK five \in Fives(g) :
              /\ five \in FiveOf
              /\ \/ /\ five[1].index = i /\ five[2].index = i /\ five[3].index = i
                    /\ five[4].index = j /\ five[5].index = j
                 \/ /\ five[1].index = j /\ five[2].index = j
                    /\ five[3].index = i /\ five[4].index = i /\ five[5].index = i
        BY <2>1, <2>2, MakesFullHouse
    <2>4. Fitting(five, 7) # {} BY <2>3, FitsFullHouse
    <2>5. Exists(five, c) BY <1>6, <2>4 DEF Exists
    <2>. QED BY <1>1, <2>3, <2>5
<1>. QED BY <1>1, <1>2, <1>3, <1>4, <1>5, <1>6

-----------------------------------------------------------------------------
(* The numbers of a rank.                                                  *)
LEMMA ScoreDigits ==
    ASSUME NEW five \in FiveOf
    PROVE  /\ Score(five) \div 1000000 = Category(five)
           /\ (Score(five) % 1000000) \div 10000 = Lead(five) + 1
           /\ Score(five) \in Int /\ 0 < Score(five) /\ Score(five) <= 10000000
<1> DEFINE c == Category(five)
           l == Lead(five)
           s == Score(five)
<1>1. c \in 1 .. 7 /\ l \in 0 .. 12 BY CategoryIs, ScoreIs
<1>2. PICK r \in 0 .. 1313 : s = 1000000 * c + (10000 * (l + 1) + r) BY ScoreIs, SMT
<1> HIDE DEF c, l, s
<1>3. /\ c \in Int /\ l \in Int /\ r \in Int
      /\ 1 <= c /\ c <= 7 /\ 0 <= l /\ l <= 12 /\ 0 <= r /\ r <= 1313
    BY <1>1, SMT
<1> DEFINE x == 10000 * (l + 1) + r
<1>4. x \in Int /\ 0 <= x /\ x < 1000000 BY <1>3, SMT
<1>5. x \div 10000 = l + 1 BY <1>3, SMT
<1>6. s = 1000000 * c + x BY <1>2, SMT
<1> HIDE DEF x
<1>7. s \div 1000000 = c BY <1>3, <1>4, <1>6, SMT
<1>8. s % 1000000 = x BY <1>3, <1>4, <1>6, SMT
<1>9. s \in Int /\ 0 < s /\ s <= 10000000 BY <1>3, <1>4, <1>6, SMT
<1>10. (s % 1000000) \div 10000 = l + 1 BY <1>5, <1>8, SMT
<1>. QED BY <1>7, <1>9, <1>10, SMT DEF c, l, s

LEMMA ScoreOrder ==
    ASSUME NEW five \in FiveOf, NEW other \in FiveOf, Score(other) <= Score(five)
    PROVE  /\ Category(other) <= Category(five)
           /\ Category(other) = Category(five) => Lead(other) <= Lead(five)
<1> DEFINE c == Category(five)
           l == Lead(five)
           d == Category(other)
           m == Lead(other)
<1>1. c \in 1 .. 7 /\ d \in 1 .. 7 /\ l \in 0 .. 12 /\ m \in 0 .. 12 BY CategoryIs, ScoreIs
<1>2. PICK r \in 0 .. 1313 : Score(five) = 1000000 * c + (10000 * (l + 1) + r)
    BY ScoreIs, SMT
<1>3. PICK q \in 0 .. 1313 : Score(other) = 1000000 * d + (10000 * (m + 1) + q)
    BY ScoreIs, SMT
<1> HIDE DEF c, l, d, m
<1>4. /\ c \in Int /\ d \in Int /\ l \in Int /\ m \in Int /\ q \in Int /\ r \in Int
      /\ 0 <= l /\ l <= 12 /\ 0 <= m /\ m <= 12
      /\ 0 <= q /\ q <= 1313 /\ 0 <= r /\ r <= 1313
    BY <1>1, SMT
<1>5. 1000000 * d + (10000 * (m + 1) + q) <= 1000000 * c + (10000 * (l + 1) + r)
    BY <1>2, <1>3, SMT
<1>6. d <= c BY <1>4, <1>5, SMT
<1>7. d = c => m <= l BY <1>4, <1>5, SMT
<1>. QED BY <1>6, <1>7 DEF c, l, d, m

(* The best rank is that of one of the fives: none of them has a higher    *)
(* category, and none of its category a higher lead.                       *)
LEMMA BestFive ==
    ASSUME NEW h \in SevenOf
    PROVE  /\ Sorted(h) \in SevenOf /\ Ordered(Sorted(h), 7)
           /\ \E five \in Fives(Sorted(h)) :
                 /\ five \in FiveOf /\ BestRank(h) = Score(five)
                 /\ \A other \in Fives(Sorted(h)) :
                       /\ other \in FiveOf /\ Category(other) <= Category(five)
                       /\ Category(other) = Category(five) => Lead(other) <= Lead(five)
<1> DEFINE g == Sorted(h)
           S == {Score(five) : five \in Fives(g)}
           N == 10000000
<1>1. g \in SevenOf /\ Ordered(g, 7) BY SortedIs
<1> HIDE DEF g
<1>2. \A five \in Fives(g) : five \in FiveOf BY <1>1, OfAFive
<1>3. N \in Nat /\ \A five \in Fives(g) : Score(five) \in Int /\ 0 < Score(five) /\ Score(five) <= N
    BY <1>2, ScoreDigits, SMT
<1>4. S # {}
    <2> DEFINE f == [x \in 1 .. 5 |-> 1]
    <2>1. f \in [1 .. 5 -> 1 .. 7] OBVIOUS
    <2> HIDE DEF f
    <2>2. \E five \in Fives(g) : TRUE BY <1>1, <2>1, FiveWith
    <2>. QED BY <2>2
<1> HIDE DEF N
<1>5. S \in SUBSET (0 .. N)
    <2>1. \A five \in Fives(g) : Score(five) \in 0 .. N BY <1>3
    <2>. QED BY <2>1
<1> HIDE DEF S
<1>6. Max(S) \in S /\ \A y \in S : Max(S) >= y BY <1>3, <1>4, <1>5, HighestIs
<1>7. PICK five \in Fives(g) : Max(S) = Score(five) BY <1>6 DEF S
<1>8. BestRank(h) = Score(five) BY <1>7 DEF BestRank, S, g
<1>9. \A other \in Fives(g) : Score(other) <= Score(five)
    <2>1. SUFFICES ASSUME NEW other \in Fives(g) PROVE Score(other) <= Score(five) OBVIOUS
    <2>2. Score(other) \in S BY DEF S
    <2>3. Score(five) >= Score(other) BY <1>6, <1>7, <2>2
    <2>. QED BY <1>3, <2>3
<1>10. \A other \in Fives(g) :
          /\ other \in FiveOf /\ Category(other) <= Category(five)
          /\ Category(other) = Category(five) => Lead(other) <= Lead(five)
    BY <1>2, <1>9, ScoreOrder
<1>. QED BY <1>1, <1>2, <1>8, <1>10 DEF g

-----------------------------------------------------------------------------
\* The indexes of which there are n among seven cards.
Many(h, n) == {i \in 0 .. 12 : CountIn(h, i) >= n}

LEMMA OfIndexes ==
    ASSUME NEW T \in SUBSET (0 .. 12)
    PROVE  /\ IsFiniteSet(T) /\ Cardinality(T) \in Nat
           /\ Cardinality(T) >= 1 <=> T # {}
           /\ Cardinality(T) >= 2 <=> \E i, j \in T : i # j
<1> DEFINE U == 0 .. 12
<1>1. IsFiniteSet(U) BY 0 \in Int, 12 \in Int, FS_Interval
<1>2. T \in SUBSET U OBVIOUS
<1> HIDE DEF U
<1>3. IsFiniteSet(T) BY <1>1, <1>2, FS_Subset
<1>4. Cardinality(T) \in Nat BY <1>3, FS_CardinalityType
<1>5. Cardinality(T) = 0 <=> T = {} BY <1>3, FS_EmptySet
<1>6. Cardinality(T) = 1 <=> \E x : T = {x} BY <1>3, FS_Singleton
<1>7. (T = {} \/ \E x : T = {x}) <=> ~\E i, j \in T : i # j
    <2>1. ASSUME T # {}, ~\E i, j \in T : i # j PROVE \E x : T = {x}
        <3>1. PICK x \in T : TRUE BY <2>1
        <3>2. T = {x} BY <2>1
        <3>. QED BY <3>2
    <2>2. ASSUME NEW x, T = {x} PROVE ~\E i, j \in T : i # j BY <2>2
    <2>. QED BY <2>1, <2>2
<1> DEFINE n == Cardinality(T)
<1> HIDE DEF n
<1>8. n >= 1 <=> T # {}
    <2>1. n = 0 <=> T = {} BY <1>5 DEF n
    <2>2. n \in Nat BY <1>4 DEF n
    <2>3. n >= 1 <=> n # 0 BY <2>2
    <2>. QED BY <2>1, <2>3
<1>9. n >= 2 <=> ~(n = 0 \/ n = 1)
    <2>1. n \in Nat BY <1>4 DEF n
    <2>. QED BY <2>1
<1>. QED BY <1>3, <1>4, <1>5, <1>6, <1>7, <1>8, <1>9 DEF n

LEMMA MakesIs ==
    ASSUME NEW h, NEW c
    PROVE  Makes(h, c) <=>
             \/ c = 7 /\ Many(h, 3) # {} /\ Cardinality(Many(h, 2)) >= 2
             \/ c = 6 /\ \E s \in 0 .. 3 : SuitedIn(h, s) >= 5
             \/ c = 4 /\ Many(h, 3) # {}
             \/ c = 3 /\ Cardinality(Many(h, 2)) >= 2
             \/ c = 2 /\ Many(h, 2) # {}
<1>1. \A n : Many(h, n) \in SUBSET (0 .. 12) BY DEF Many
<1>2. Cardinality(Many(h, 2)) >= 2 <=> \E i, j \in Many(h, 2) : i # j BY <1>1, OfIndexes
<1>3. (\E i, j \in Many(h, 2) : i # j)
         <=> \E i, j \in 0 .. 12 : i # j /\ CountIn(h, i) >= 2 /\ CountIn(h, j) >= 2
    BY DEF Many
<1>4. \A i : CountIn(h, i) >= 3 => CountIn(h, i) >= 2
    <2>1. ASSUME NEW i PROVE CountIn(h, i) \in Nat
        <3> DEFINE S == {k \in 1 .. 7 : h[k].index = i}
        <3>1. S \in SUBSET (1 .. 7) OBVIOUS
        <3> HIDE DEF S
        <3>2. Cardinality(S) \in Nat BY <3>1, OfSeven
        <3>. QED BY <3>2 DEF CountIn, S
    <2>. QED BY <2>1
<1>5. Many(h, 3) # {} /\ (\E i, j \in Many(h, 2) : i # j)
         <=> \E i, j \in 0 .. 12 : i # j /\ CountIn(h, i) >= 3 /\ CountIn(h, j) >= 2
    <2>1. ASSUME NEW i \in Many(h, 3), NEW a \in Many(h, 2), NEW b \in Many(h, 2), a # b
          PROVE  \E x, y \in 0 .. 12 : x # y /\ CountIn(h, x) >= 3 /\ CountIn(h, y) >= 2
        <3>1. /\ i \in 0 .. 12 /\ CountIn(h, i) >= 3
              /\ a \in 0 .. 12 /\ CountIn(h, a) >= 2 /\ b \in 0 .. 12 /\ CountIn(h, b) >= 2
            BY DEF Many
        <3>2. i # a \/ i # b BY <2>1
        <3>. QED BY <3>1, <3>2
    <2>2. ASSUME NEW x \in 0 .. 12, NEW y \in 0 .. 12, x # y, CountIn(h, x) >= 3, CountIn(h, y) >= 2
          PROVE  Many(h, 3) # {} /\ \E i, j \in Many(h, 2) : i # j
        <3>1. x \in Many(h, 3) /\ x \in Many(h, 2) /\ y \in Many(h, 2) BY <1>4, <2>2 DEF Many
        <3>. QED BY <2>2, <3>1
    <2>. QED BY <2>1, <2>2
<1>6. \A n : Many(h, n) # {} <=> \E i \in 0 .. 12 : CountIn(h, i) >= n BY DEF Many
<1>7. Makes(h, c) <=>
             \/ c = 7 /\ Many(h, 3) # {} /\ \E i, j \in Many(h, 2) : i # j
             \/ c = 6 /\ \E s \in 0 .. 3 : SuitedIn(h, s) >= 5
             \/ c = 4 /\ Many(h, 3) # {}
             \/ c = 3 /\ \E i, j \in Many(h, 2) : i # j
             \/ c = 2 /\ Many(h, 2) # {}
    BY <1>3, <1>5, <1>6 DEF Makes
<1>. QED BY <1>2, <1>7

\* What the sorted cards make, the cards make.
LEMMA MakesKept ==
    ASSUME NEW h \in SevenOf, NEW g \in SevenOf, CardsOf(g) = CardsOf(h), NEW c
    PROVE  Makes(g, c) <=> Makes(h, c)
<1>1. /\ \A i : CountIn(g, i) = CountIn(h, i)
      /\ \A s : SuitedIn(g, s) = SuitedIn(h, s)
    BY CountsKept
<1>. QED BY <1>1 DEF Makes

(* The category of the best rank is the best one the seven make.           *)
LEMMA BestMakes ==
    ASSUME NEW h \in SevenOf, NEW five \in Fives(Sorted(h)), five \in FiveOf,
           \A other \in Fives(Sorted(h)) : Category(other) <= Category(five)
    PROVE  /\ Category(five) = 1 \/ Makes(h, Category(five))
           /\ \A d : Makes(h, d) => d <= Category(five)
<1> DEFINE g == Sorted(h)
<1>1. g \in SevenOf /\ Ordered(g, 7) /\ CardsOf(g) = CardsOf(h) BY SortedIs
<1>2. Category(five) \in {1, 2, 3, 4, 6, 7} /\ Exists(five, Category(five)) BY CategoryIs
<1>3. Category(five) # 1 => Makes(g, Category(five))
    <2>1. SUFFICES ASSUME Category(five) # 1 PROVE Makes(g, Category(five)) OBVIOUS
    <2>2. Category(five) \in {2, 3, 4, 6, 7} BY <1>2, <2>1
    <2> HIDE DEF g
    <2>3. five \in Fives(g) BY DEF g
    <2>. QED BY <1>1, <1>2, <2>2, <2>3, FiveMakes
<1>4. ASSUME NEW d, Makes(g, d) PROVE d <= Category(five)
    <2> HIDE DEF g
    <2>1. d \in {2, 3, 4, 6, 7} BY <1>1, <1>4, MakesFive
    <2>2. PICK other \in Fives(g) : other \in FiveOf /\ Exists(other, d)
        BY <1>1, <1>4, MakesFive
    <2>3. d \in 1 .. 9 BY <2>1
    <2>4. d <= Category(other) BY <2>2, <2>3, CategoryIs
    <2>5. Category(other) \in Int
        <3>1. Category(other) \in {1, 2, 3, 4, 6, 7} BY <2>2, CategoryIs
        <3>. QED BY <3>1
    <2>6. Category(other) <= Category(five) BY DEF g
    <2>7. Category(five) \in Int /\ d \in Int BY <1>2, <2>1
    <2>. QED BY <2>4, <2>5, <2>6, <2>7
<1>5. \A d : Makes(g, d) <=> Makes(h, d) BY <1>1, MakesKept
<1> HIDE DEF g
<1>. QED BY <1>3, <1>4, <1>5

LEMMA ManyAre ==
    ASSUME NEW h, NEW n
    PROVE  Many(h, n) \in SUBSET (0 .. 12) /\ Many(h, n) \in SUBSET Int
<1>. QED BY DEF Many

(* The property's words.                                                   *)
LEMMA CategoryRight ==
    ASSUME seven \in SevenOf
    PROVE  BestRank(seven) \div 1000000 = BestCategory
<1> DEFINE S == {1} \cup {c \in 2 .. 7 : Makes(seven, c)}
<1>1. PICK five \in Fives(Sorted(seven)) :
         /\ five \in FiveOf /\ BestRank(seven) = Score(five)
         /\ \A other \in Fives(Sorted(seven)) : Category(other) <= Category(five)
    BY BestFive
<1>2. Score(five) \div 1000000 = Category(five) BY <1>1, ScoreDigits, SMT
<1>3. BestCategory = Max(S)
    <2>1. \A c \in 2 .. 7 : Makes(seven, c) <=>
             \/ c = 7 /\ Many(seven, 3) # {} /\ Cardinality(Many(seven, 2)) >= 2
             \/ c = 6 /\ \E s \in 0 .. 3 : SuitedIn(seven, s) >= 5
             \/ c = 4 /\ Many(seven, 3) # {}
             \/ c = 3 /\ Cardinality(Many(seven, 2)) >= 2
             \/ c = 2 /\ Many(seven, 2) # {}
        BY MakesIs
    <2>2. S = {1} \cup {c \in 2 .. 7 :
             \/ c = 7 /\ Many(seven, 3) # {} /\ Cardinality(Many(seven, 2)) >= 2
             \/ c = 6 /\ \E s \in 0 .. 3 : SuitedIn(seven, s) >= 5
             \/ c = 4 /\ Many(seven, 3) # {}
             \/ c = 3 /\ Cardinality(Many(seven, 2)) >= 2
             \/ c = 2 /\ Many(seven, 2) # {}}
        BY <2>1
    <2> HIDE DEF S
    <2>. QED BY <2>2 DEF BestCategory, Many, Count, Suited, CountIn, SuitedIn
<1>4. Category(five) \in S
    <2>1. Category(five) \in {1, 2, 3, 4, 6, 7} BY <1>1, CategoryIs
    <2>2. Category(five) = 1 \/ Makes(seven, Category(five)) BY <1>1, BestMakes
    <2>. QED BY <2>1, <2>2
<1>5. \A y \in S : y <= Category(five)
    <2>1. Category(five) \in {1, 2, 3, 4, 6, 7} BY <1>1, CategoryIs
    <2>2. \A d : Makes(seven, d) => d <= Category(five) BY <1>1, BestMakes
    <2>. QED BY <2>1, <2>2
<1>6. S \in SUBSET Int OBVIOUS
<1> HIDE DEF S
<1>7. Max(S) = Category(five) BY <1>4, <1>5, <1>6, MaxOnly
<1>8. BestRank(seven) = Score(five) BY <1>1
<1>. QED BY <1>2, <1>3, <1>7, <1>8, SMT

-----------------------------------------------------------------------------
(* Which lead the best five have.                                          *)
Best(g, five) ==
    /\ five \in Fives(g) /\ five \in FiveOf
    /\ \A other \in Fives(g) :
          /\ other \in FiveOf /\ Category(other) <= Category(five)
          /\ Category(other) = Category(five) => Lead(other) <= Lead(five)

LEMMA AsGood ==
    ASSUME NEW g, NEW five, Best(g, five), NEW other \in Fives(g),
           Exists(other, Category(five))
    PROVE  other \in FiveOf /\ Category(other) = Category(five) /\ Lead(other) <= Lead(five)
<1>1. other \in FiveOf /\ five \in FiveOf /\ Category(other) <= Category(five) BY DEF Best
<1>2. Category(five) \in {1, 2, 3, 4, 6, 7} /\ Category(other) \in {1, 2, 3, 4, 6, 7}
    BY <1>1, CategoryIs
<1>3. Category(five) \in 1 .. 9 BY <1>2
<1>4. Category(five) <= Category(other) BY <1>1, <1>3, CategoryIs
<1>5. Category(other) = Category(five) BY <1>1, <1>2, <1>4
<1>. QED BY <1>1, <1>5 DEF Best

LEMMA LeadsThree ==
    ASSUME NEW g \in SevenOf, Ordered(g, 7), NEW five, Best(g, five), Category(five) = 4
    PROVE  Lead(five) = Max(Many(g, 3))
<1>1. five \in FiveOf /\ five \in Fives(g) BY DEF Best
<1>2. PICK n \in 1 .. 3 : /\ Lead(five) = five[n].index
                          /\ five[n].index = five[n + 1].index
                          /\ five[n + 1].index = five[n + 2].index
    BY <1>1, LeadIs
<1>3. Lead(five) \in Many(g, 3)
    <2>1. n \in 1 .. 5 /\ n + 1 \in 1 .. 5 /\ n + 2 \in 1 .. 5 /\ n < n + 1 /\ n + 1 < n + 2
        OBVIOUS
    <2>2. CountIn(g, five[n].index) >= 3 BY <1>1, <1>2, <2>1, CountedInFive
    <2>3. five[n].index \in 0 .. 12 BY <1>1, <2>1, FallsInFive
    <2>. QED BY <1>2, <2>2, <2>3 DEF Many
<1>4. ASSUME NEW m \in Many(g, 3) PROVE m <= Lead(five)
    <2>1. CountIn(g, m) >= 3 BY DEF Many
    <2>2. PICK other \in Fives(g), k \in 1 .. 3 :
              other \in FiveOf /\ other[k].index = m /\ other[k + 1].index = m
                               /\ other[k + 2].index = m
        BY <2>1, MakesThree
    <2>3. k \in Fitting(other, 4) BY <2>2, FitsThree
    <2>4. Exists(other, Category(five)) BY <2>3 DEF Exists
    <2>5. Category(other) = 4 /\ Lead(other) <= Lead(five) BY <2>4, AsGood
    <2>6. PICK l \in 1 .. 3 : /\ Lead(other) = other[l].index
                              /\ other[l].index = other[l + 1].index
                              /\ other[l + 1].index = other[l + 2].index
        BY <2>2, <2>5, LeadIs
    <2>7. other[3].index = m
        <3>1. k = 1 \/ k = 2 \/ k = 3 OBVIOUS
        <3>. QED BY <2>2, <3>1
    <2>8. other[3].index = Lead(other)
        <3>1. l = 1 \/ l = 2 \/ l = 3 OBVIOUS
        <3>. QED BY <2>6, <3>1
    <2>. QED BY <2>5, <2>7, <2>8
<1>. QED BY <1>3, <1>4, ManyAre, MaxOnly

LEMMA LeadsFullHouse ==
    ASSUME NEW g \in SevenOf, Ordered(g, 7), NEW five, Best(g, five), Category(five) = 7
    PROVE  Lead(five) = Max(Many(g, 3))
<1>1. five \in FiveOf /\ five \in Fives(g) BY DEF Best
<1>2. /\ five[1].index = five[2].index /\ five[4].index = five[5].index
      /\ \/ Lead(five) = five[1].index /\ five[2].index = five[3].index
         \/ Lead(five) = five[3].index /\ five[3].index = five[4].index
    BY <1>1, LeadIs
<1>3. \A i \in 1 .. 5 : five[i].index \in 0 .. 12 BY <1>1, FallsInFive
<1>4. Lead(five) \in Many(g, 3)
    <2>1. CASE Lead(five) = five[1].index /\ five[2].index = five[3].index
        <3>1. CountIn(g, five[1].index) >= 3 BY <1>1, <1>2, <2>1, CountedInFive
        <3>. QED BY <1>3, <2>1, <3>1 DEF Many
    <2>2. CASE Lead(five) = five[3].index /\ five[3].index = five[4].index
        <3>1. CountIn(g, five[3].index) >= 3 BY <1>1, <1>2, <2>2, CountedInFive
        <3>. QED BY <1>3, <2>2, <3>1 DEF Many
    <2>. QED BY <1>2, <2>1, <2>2
<1>5. CountIn(g, five[1].index) >= 2 /\ CountIn(g, five[4].index) >= 2
    BY <1>1, <1>2, CountedInFive
<1>6. five[1].index # five[4].index
    <2>1. SUFFICES ASSUME five[1].index = five[4].index PROVE FALSE OBVIOUS
    <2>2. five[2].index = five[4].index BY <1>2, <2>1
    <2>3. 1 \in 1 .. 5 /\ 2 \in 1 .. 5 /\ 4 \in 1 .. 5 /\ 5 \in 1 .. 5
          /\ 1 < 2 /\ 2 < 4 /\ 4 < 5
        OBVIOUS
    <2>. QED BY <1>1, <1>2, <2>2, <2>3, NoFourAlike
<1>7. ASSUME NEW m \in Many(g, 3) PROVE m <= Lead(five)
    <2>1. m \in Int /\ CountIn(g, m) >= 3 BY DEF Many
    <2>2. PICK j \in Int : j # m /\ CountIn(g, j) >= 2
        <3>1. five[1].index \in Int /\ five[4].index \in Int BY <1>3
        <3>. QED BY <1>5, <1>6, <3>1
    <2>3. PICK other \in Fives(g) :
              /\ other \in FiveOf
              /\ \/ /\ other[1].index = m /\ other[2].index = m /\ other[3].index = m
                    /\ other[4].index = j /\ other[5].index = j
                 \/ /\ other[1].index = j /\ other[2].index = j
                    /\ other[3].index = m /\ other[4].index = m /\ other[5].index = m
        BY <2>1, <2>2, MakesFullHouse
    <2>4. Fitting(other, 7) # {} BY <2>3, FitsFullHouse
    <2>5. Exists(other, Category(five)) BY <2>4 DEF Exists
    <2>6. Category(other) = 7 /\ Lead(other) <= Lead(five) BY <2>5, AsGood
    <2>7. \/ Lead(other) = other[1].index /\ other[2].index = other[3].index
          \/ Lead(other) = other[3].index /\ other[3].index = other[4].index
        BY <2>3, <2>6, LeadIs
    <2>8. Lead(other) = m BY <2>2, <2>3, <2>7
    <2>. QED BY <2>6, <2>8
<1>. QED BY <1>4, <1>7, ManyAre, MaxOnly

LEMMA LeadsPair ==
    ASSUME NEW g \in SevenOf, Ordered(g, 7), NEW five, Best(g, five), Category(five) = 2
    PROVE  Lead(five) = Max(Many(g, 2))
<1>1. five \in FiveOf /\ five \in Fives(g) BY DEF Best
<1>2. PICK n \in 1 .. 4 : Lead(five) = five[n].index /\ five[n].index = five[n + 1].index
    BY <1>1, LeadIs
<1>3. Lead(five) \in Many(g, 2)
    <2>1. n \in 1 .. 5 /\ n + 1 \in 1 .. 5 /\ n < n + 1 OBVIOUS
    <2>2. CountIn(g, five[n].index) >= 2 BY <1>1, <1>2, <2>1, CountedInFive
    <2>3. five[n].index \in 0 .. 12 BY <1>1, <2>1, FallsInFive
    <2>. QED BY <1>2, <2>2, <2>3 DEF Many
<1>4. ASSUME NEW m \in Many(g, 2) PROVE m <= Lead(five)
    <2>1. CountIn(g, m) >= 2 BY DEF Many
    <2>2. PICK other \in Fives(g), k \in 1 .. 4 :
              other \in FiveOf /\ other[k].index = m /\ other[k + 1].index = m
        BY <2>1, MakesPair
    <2>3. k \in Fitting(other, 2) BY <2>2, FitsPair
    <2>4. Exists(other, Category(five)) BY <2>3 DEF Exists
    <2>5. Category(other) = 2 /\ Lead(other) <= Lead(five) BY <2>4, AsGood
    <2>6. PICK l \in 1 .. 4 : Lead(other) = other[l].index /\ other[l].index = other[l + 1].index
        BY <2>2, <2>5, LeadIs
    <2>7. Lead(other) = m
        <3>1. SUFFICES ASSUME Lead(other) # m PROVE FALSE OBVIOUS
        <3>2. Fitting(other, 3) = {}
            <4>1. ~Exists(other, 3)
                <5>1. 3 \in 1 .. 9 /\ ~(3 <= 2) OBVIOUS
                <5>. QED BY <2>2, <2>5, <5>1, CategoryIs
            <4>. QED BY <4>1 DEF Exists
        <3>3. k # l /\ k # l + 1 /\ k + 1 # l BY <2>2, <2>6, <3>1
        <3>4. k + 1 < l \/ l + 1 < k BY <3>3
        <3>5. CASE k + 1 < l
            <4>1. k \in 1 .. 2 /\ l \in 3 .. 4 BY <3>5
            <4>. QED BY <2>2, <2>6, <3>2, <3>5, <4>1, FitsTwoPairs
        <3>6. CASE l + 1 < k
            <4>1. l \in 1 .. 2 /\ k \in 3 .. 4 BY <3>6
            <4>. QED BY <2>2, <2>6, <3>2, <3>6, <4>1, FitsTwoPairs
        <3>. QED BY <3>4, <3>5, <3>6
    <2>. QED BY <2>5, <2>7
<1>. QED BY <1>3, <1>4, ManyAre, MaxOnly

LEMMA LeadsTwoPairs ==
    ASSUME NEW g \in SevenOf, Ordered(g, 7), NEW five, Best(g, five), Category(five) = 3
    PROVE  Lead(five) = NthHighest(Many(g, 2), 2)
<1> DEFINE M == Many(g, 2)
           S == {i \in M : Cardinality({j \in M : j > i}) >= 1}
<1>1. five \in FiveOf /\ five \in Fives(g) BY DEF Best
<1>2. PICK i \in 1 .. 2, j \in 3 .. 4 :
         /\ i + 1 < j /\ Lead(five) = five[j].index
         /\ five[i].index = five[i + 1].index /\ five[j].index = five[j + 1].index
    BY <1>1, LeadIs
<1>3. /\ i \in 1 .. 5 /\ i + 1 \in 1 .. 5 /\ i < i + 1 /\ i < j
      /\ j \in 1 .. 5 /\ j + 1 \in 1 .. 5 /\ j < j + 1
    BY <1>2
<1>4. five[i].index \in M /\ five[j].index \in M
    <2>1. CountIn(g, five[i].index) >= 2 /\ CountIn(g, five[j].index) >= 2
        BY <1>1, <1>2, <1>3, CountedInFive
    <2>2. five[i].index \in 0 .. 12 /\ five[j].index \in 0 .. 12 BY <1>1, <1>3, FallsInFive
    <2>. QED BY <2>1, <2>2 DEF Many
<1>5. M \in SUBSET Int /\ M \in SUBSET (0 .. 12) BY ManyAre
<1>6. five[i].index > five[j].index
    <2>1. five[i].index >= five[j].index BY <1>1, <1>3, FallsInFive
    <2>2. five[i].index # five[j].index
        <3>1. SUFFICES ASSUME five[i].index = five[j].index PROVE FALSE OBVIOUS
        <3>2. five[i + 1].index = five[j].index BY <1>2, <3>1
        <3>. QED BY <1>1, <1>2, <1>3, <3>2, NoFourAlike
    <2>3. five[i].index \in Int /\ five[j].index \in Int BY <1>4, <1>5
    <2>. QED BY <2>1, <2>2, <2>3
<1> HIDE DEF M
<1>7. \A x \in M : x \in S <=> \E y \in M : y > x
    <2>1. SUFFICES ASSUME NEW x \in M PROVE x \in S <=> \E y \in M : y > x OBVIOUS
    <2> DEFINE T == {j_1 \in M : j_1 > x}
    <2>2. T \in SUBSET (0 .. 12) BY <1>5
    <2>3. x \in S <=> Cardinality(T) >= 1 OBVIOUS
    <2>4. T # {} <=> \E y \in M : y > x OBVIOUS
    <2> HIDE DEF T, S
    <2>5. Cardinality(T) >= 1 <=> T # {} BY <2>2, OfIndexes
    <2>. QED BY <2>3, <2>4, <2>5
<1>8. NthHighest(M, 2) = Max(S)
    <2>1. 2 - 1 = 1 OBVIOUS
    <2>. QED BY <2>1 DEF NthHighest
<1>9. S \in SUBSET M OBVIOUS
<1> HIDE DEF S
<1>10. Lead(five) \in S BY <1>2, <1>4, <1>6, <1>7
<1>11. ASSUME NEW m \in S PROVE m <= Lead(five)
    <2>1. PICK p \in M : p > m BY <1>7, <1>9
    <2>2. p \in Int /\ m \in Int /\ CountIn(g, p) >= 2 /\ CountIn(g, m) >= 2
        BY <1>5, <1>9 DEF M, Many
    <2>3. PICK other \in Fives(g), n \in 1 .. 2, k \in 3 .. 4 :
              /\ other \in FiveOf /\ n + 1 < k
              /\ other[n].index = p /\ other[n + 1].index = p
              /\ other[k].index = m /\ other[k + 1].index = m
        BY <2>1, <2>2, MakesTwoPairs
    <2>4. Fitting(other, 3) # {} BY <2>3, FitsTwoPairs
    <2>5. Exists(other, Category(five)) BY <2>4 DEF Exists
    <2>6. Category(other) = 3 /\ Lead(other) <= Lead(five) BY <2>5, AsGood
    <2>7. PICK l \in 3 .. 4 : Lead(other) = other[l].index /\ other[l].index = other[l + 1].index
        BY <2>3, <2>6, LeadIs
    <2>8. other[4].index = m
        <3>1. k = 3 \/ k = 4 OBVIOUS
        <3>. QED BY <2>3, <3>1
    <2>9. other[4].index = Lead(other)
        <3>1. l = 3 \/ l = 4 OBVIOUS
        <3>. QED BY <2>7, <3>1
    <2>. QED BY <2>6, <2>8, <2>9
<1>12. S \in SUBSET Int BY <1>5, <1>9
<1>13. Max(S) = Lead(five) BY <1>10, <1>11, <1>12, MaxOnly
<1>. QED BY <1>8, <1>13 DEF M

\* Seven cards hold no two flushes.
LEMMA OneSuit ==
    ASSUME NEW h, NEW s, NEW t, SuitedIn(h, s) >= 5, SuitedIn(h, t) >= 5
    PROVE  s = t
<1> DEFINE S == {k \in 1 .. 7 : h[k].kind = s}
           T == {k \in 1 .. 7 : h[k].kind = t}
           U == 1 .. 7
<1>1. SUFFICES ASSUME s # t PROVE FALSE OBVIOUS
<1>2. S \cap T = {} BY <1>1
<1>3. S \in SUBSET U /\ T \in SUBSET U OBVIOUS
<1>4. IsFiniteSet(S) /\ IsFiniteSet(T) /\ Cardinality(S) \in Nat /\ Cardinality(T) \in Nat
    <2> HIDE DEF S, T
    <2>. QED BY <1>3, OfSeven
<1>5. IsFiniteSet(U) /\ Cardinality(U) = 7
    <2>1. IsFiniteSet(1 .. 7) /\ Cardinality(1 .. 7) = IF 1 > 7 THEN 0 ELSE 7 - 1 + 1
        BY 1 \in Int, 7 \in Int, FS_Interval
    <2>. QED BY <2>1
<1>6. Cardinality(S) >= 5 /\ Cardinality(T) >= 5 BY DEF SuitedIn
<1> HIDE DEF S, T, U
<1>7. Cardinality(S \cup T) = Cardinality(S) + Cardinality(T) - Cardinality(S \cap T)
    BY <1>4, FS_Union
<1>8. Cardinality({}) = 0 BY FS_EmptySet
<1>9. S \cup T \in SUBSET U BY <1>3
<1>10. Cardinality(S \cup T) <= 7 BY <1>5, <1>9, FS_Subset
<1> DEFINE m == Cardinality(S)
           n == Cardinality(T)
<1>11. Cardinality(S \cup T) = m + n - 0 BY <1>2, <1>7, <1>8
<1>12. m \in Nat /\ n \in Nat /\ m >= 5 /\ n >= 5 BY <1>4, <1>6
<1> HIDE DEF m, n
<1>13. m + n - 0 <= 7 BY <1>10, <1>11
<1>. QED BY <1>12, <1>13

LEMMA LeadsFlush ==
    ASSUME NEW g \in SevenOf, Ordered(g, 7), NEW five, Best(g, five), Category(five) = 6
    PROVE  \E s \in 0 .. 3 : /\ SuitedIn(g, s) >= 5
                             /\ Lead(five) = Max({g[k].index : k \in {k \in 1 .. 7 : g[k].kind = s}})
<1> DEFINE s == five[1].kind
           S == {g[k].index : k \in {k \in 1 .. 7 : g[k].kind = s}}
<1>1. five \in FiveOf /\ five \in Fives(g) BY DEF Best
<1>2. PICK at \in [1 .. 5 -> 1 .. 7] :
         /\ \A i, j \in 1 .. 5 : i < j => at[i] < at[j]
         /\ \A i \in 1 .. 5 : five[i] = g[at[i]]
    BY <1>1, OfAFive
<1>3. Exists(five, 6) BY <1>1, CategoryIs
<1>4. \A i \in 1 .. 5 : g[at[i]].kind = s
    <2>1. \A i \in 1 .. 4 : five[i].kind = five[i + 1].kind BY <1>3 DEF Exists, OneKind
    <2>2. /\ five[1].kind = five[2].kind /\ five[2].kind = five[3].kind
          /\ five[3].kind = five[4].kind /\ five[4].kind = five[5].kind
        BY <2>1
    <2>3. \A i \in 1 .. 5 : five[i].kind = s BY <2>2
    <2>. QED BY <1>2, <2>3
<1>5. s \in 0 .. 3
    <2>1. five[1] \in Drawn BY <1>1 DEF FiveOf
    <2>. QED BY <2>1 DEF Drawn
<1>6. Lead(five) = five[1].index BY <1>1, LeadIs
<1> HIDE DEF s
<1>7. SuitedIn(g, s) >= 5 BY <1>2, <1>4, FiveOfKind
<1>8. Lead(five) \in S
    <2>1. at[1] \in 1 .. 7 /\ five[1] = g[at[1]] /\ g[at[1]].kind = s BY <1>2, <1>4
    <2>. QED BY <1>6, <2>1
<1>9. ASSUME NEW k \in 1 .. 7, g[k].kind = s PROVE g[k].index \in Int /\ g[k].index <= Lead(five)
    <2>1. PICK other \in Fives(g) :
              /\ other \in FiveOf /\ other[1].index >= g[k].index
              /\ \A i \in 1 .. 5 : other[i].kind = s
        BY <1>7, <1>9, MakesFlush
    <2>2. Exists(other, Category(five)) BY <2>1 DEF Exists, OneKind
    <2>3. Category(other) = 6 /\ Lead(other) <= Lead(five) BY <2>2, AsGood
    <2>4. Lead(other) = other[1].index BY <2>1, <2>3, LeadIs
    <2>5. g[k].index \in Int BY DEF SevenOf, Drawn
    <2>6. other[1].index \in Int /\ five[1].index \in Int
        <3>1. other[1].index \in 0 .. 12 /\ five[1].index \in 0 .. 12 BY <1>1, <2>1, FallsInFive
        <3>. QED BY <3>1
    <2>. QED BY <1>6, <2>1, <2>3, <2>4, <2>5, <2>6
<1>10. S \in SUBSET Int /\ \A y \in S : y <= Lead(five) BY <1>9
<1> HIDE DEF S
<1>11. Max(S) = Lead(five) BY <1>8, <1>10, MaxOnly
<1>. QED BY <1>5, <1>7, <1>11 DEF S

-----------------------------------------------------------------------------
LEMMA OneOf ==
    ASSUME NEW h, NEW i
    PROVE  CountIn(h, i) >= 1 <=> \E k \in 1 .. 7 : h[k].index = i
<1> DEFINE S == {k \in 1 .. 7 : h[k].index = i}
           n == Cardinality(S)
<1>1. S \in SUBSET (1 .. 7) OBVIOUS
<1>2. (S # {}) <=> \E k \in 1 .. 7 : h[k].index = i OBVIOUS
<1>3. CountIn(h, i) = n BY DEF CountIn
<1> HIDE DEF S
<1>4. IsFiniteSet(S) /\ n \in Nat BY <1>1, OfSeven
<1>5. n = 0 <=> S = {} BY <1>4, FS_EmptySet
<1> HIDE DEF n
<1>6. n >= 1 <=> n # 0 BY <1>4
<1>. QED BY <1>2, <1>3, <1>5, <1>6

\* When no two of the seven are of one index, each falls below those before.
LEMMA Apart ==
    ASSUME NEW g \in SevenOf, Ordered(g, 7), ~Makes(g, 2),
           NEW k \in 1 .. 7, NEW l \in 1 .. 7, k < l
    PROVE  g[k].index > g[l].index
<1>1. g[k].index \in 0 .. 12 /\ g[l].index \in 0 .. 12 BY DEF SevenOf, Drawn
<1>2. g[k].index >= g[l].index BY DEF Ordered
<1>3. g[k].index # g[l].index
    <2>1. SUFFICES ASSUME g[k].index = g[l].index PROVE FALSE OBVIOUS
    <2>2. CountIn(g, g[k].index) >= 2 BY <2>1, TwoOf
    <2>. QED BY <1>1, <2>2 DEF Makes
<1>. QED BY <1>1, <1>2, <1>3

LEMMA FifthHighest ==
    ASSUME NEW g \in SevenOf, Ordered(g, 7), ~Makes(g, 2)
    PROVE  NthHighest(Many(g, 1), 5) = g[5].index
<1> DEFINE M == Many(g, 1)
           S == {i \in M : Cardinality({j \in M : j > i}) >= 4}
<1>1. \A k \in 1 .. 7 : g[k].index \in 0 .. 12 BY DEF SevenOf, Drawn
<1>2. \A k \in 1 .. 7 : g[k].index \in M BY <1>1, OneOf DEF Many
<1>3. \A i \in M : \E k \in 1 .. 7 : g[k].index = i BY OneOf DEF Many
<1>4. M \in SUBSET Int BY ManyAre
<1> HIDE DEF M
<1>5. ASSUME NEW k \in 1 .. 7
      PROVE  Cardinality({j \in M : j > g[k].index}) = k - 1
    <2> DEFINE T == {j \in M : j > g[k].index}
               N == 1 .. k - 1
               f == [l \in N |-> g[l].index]
    <2>1. N \in SUBSET (1 .. 7) /\ \A l \in N : l < k OBVIOUS
    <2>2. \A l \in N : f[l] \in T
        <3>1. \A l \in N : g[l].index > g[k].index BY <2>1, Apart
        <3>2. \A l \in N : g[l].index \in M BY <1>2, <2>1
        <3>. QED BY <3>1, <3>2
    <2>3. \A l, m \in N : f[l] = f[m] => l = m
        <3>1. SUFFICES ASSUME NEW l \in N, NEW m \in N, f[l] = f[m] PROVE l = m OBVIOUS
        <3>2. l \in 1 .. 7 /\ m \in 1 .. 7 /\ g[l].index = g[m].index BY <2>1, <3>1
        <3>3. g[l].index \in Int BY <1>1, <3>2
        <3>4. ~(l < m) /\ ~(m < l) BY <3>2, <3>3, Apart
        <3>. QED BY <3>2, <3>4
    <2>4. \A j \in T : \E l \in N : f[l] = j
        <3>1. SUFFICES ASSUME NEW j \in T PROVE \E l \in N : f[l] = j OBVIOUS
        <3>2. j \in M /\ j > g[k].index OBVIOUS
        <3>3. PICK l \in 1 .. 7 : g[l].index = j BY <1>3, <3>2
        <3>4. g[l].index \in Int /\ g[k].index \in Int BY <1>1
        <3>5. l # k BY <3>2, <3>3, <3>4
        <3>6. ~(k < l)
            <4>1. SUFFICES ASSUME k < l PROVE FALSE OBVIOUS
            <4>2. g[k].index > g[l].index BY <4>1, Apart
            <4>. QED BY <3>2, <3>3, <3>4, <4>2
        <3>7. l \in N BY <3>5, <3>6
        <3>. QED BY <3>3, <3>7
    <2>5. f \in [N -> T] BY <2>2
    <2>6. IsFiniteSet(N) /\ Cardinality(N) = k - 1
        <3>1. 1 \in Int /\ k - 1 \in Int OBVIOUS
        <3>2. IsFiniteSet(N) /\ Cardinality(N) = IF 1 > k - 1 THEN 0 ELSE k - 1 - 1 + 1
            BY <3>1, FS_Interval
        <3>. QED BY <3>2
    <2> HIDE DEF f, N, T
    <2>7. f \in Injection(N, T) /\ f \in Surjection(N, T)
        BY <2>3, <2>4, <2>5 DEF Injection, IsInjective, Surjection
    <2>8. ExistsBijection(N, T) BY <2>7 DEF ExistsBijection, Bijection
    <2>9. Cardinality(T) = Cardinality(N) BY <2>6, <2>8, FS_Bijection
    <2>. QED BY <2>6, <2>9 DEF T
<1>6. NthHighest(M, 5) = Max(S)
    <2>1. 5 - 1 = 4 OBVIOUS
    <2>. QED BY <2>1 DEF NthHighest
<1>7. g[5].index \in S
    <2>1. Cardinality({j \in M : j > g[5].index}) = 5 - 1 /\ g[5].index \in M BY <1>2, <1>5
    <2>2. 5 - 1 >= 4 OBVIOUS
    <2>. QED BY <2>1, <2>2
<1>8. ASSUME NEW y \in S PROVE y <= g[5].index
    <2>1. y \in M OBVIOUS
    <2>2. PICK k \in 1 .. 7 : g[k].index = y BY <1>3, <2>1
    <2>3. Cardinality({j \in M : j > g[k].index}) >= 4 BY <2>2
    <2>4. k - 1 >= 4 BY <1>5, <2>3
    <2>5. g[k].index \in Int /\ g[5].index \in Int BY <1>1
    <2>6. CASE k = 5 BY <2>2, <2>5, <2>6
    <2>7. CASE k > 5
        <3>1. g[5].index > g[k].index BY <2>7, Apart
        <3>. QED BY <2>2, <2>5, <3>1
    <2>. QED BY <2>4, <2>6, <2>7
<1>9. S \in SUBSET Int BY <1>4
<1> HIDE DEF S
<1>10. Max(S) = g[5].index BY <1>7, <1>8, <1>9, MaxOnly
<1>. QED BY <1>6, <1>10 DEF M

LEMMA LeadsHighCard ==
    ASSUME NEW g \in SevenOf, Ordered(g, 7), NEW five, Best(g, five), Category(five) = 1
    PROVE  Lead(five) = NthHighest(Many(g, 1), 5)
<1>1. five \in FiveOf /\ five \in Fives(g) BY DEF Best
<1>2. ~Makes(g, 2)
    <2>1. SUFFICES ASSUME Makes(g, 2) PROVE FALSE OBVIOUS
    <2>2. PICK other \in Fives(g) : other \in FiveOf /\ Exists(other, 2) BY <2>1, MakesFive
    <2>3. 2 \in 1 .. 9 OBVIOUS
    <2>4. 2 <= Category(other) BY <2>2, <2>3, CategoryIs
    <2>5. Category(other) <= 1 BY DEF Best
    <2>6. Category(other) \in {1, 2, 3, 4, 6, 7} BY <2>2, CategoryIs
    <2>. QED BY <2>4, <2>5, <2>6
<1>3. \A k \in 1 .. 7 : g[k].index \in Int BY DEF SevenOf, Drawn
<1>4. Lead(five) <= g[5].index /\ Lead(five) \in Int
    <2>1. PICK at \in [1 .. 5 -> 1 .. 7] :
             /\ \A i, j \in 1 .. 5 : i < j => at[i] < at[j]
             /\ \A i \in 1 .. 5 : five[i] = g[at[i]]
        BY <1>1, OfAFive
    <2>2. /\ at[1] < at[2] /\ at[2] < at[3] /\ at[3] < at[4] /\ at[4] < at[5]
          /\ at[1] \in 1 .. 7 /\ at[2] \in 1 .. 7 /\ at[3] \in 1 .. 7 /\ at[4] \in 1 .. 7
          /\ at[5] \in 1 .. 7
        BY <2>1
    <2>3. at[5] = 5 \/ 5 < at[5] BY <2>2
    <2>4. Lead(five) = g[at[5]].index BY <1>1, <2>1, LeadIs
    <2>5. CASE at[5] = 5 BY <1>3, <2>4, <2>5
    <2>6. CASE 5 < at[5]
        <3>1. g[5].index >= g[at[5]].index BY <2>2, <2>6 DEF Ordered
        <3>. QED BY <1>3, <2>2, <2>4, <3>1
    <2>. QED BY <2>3, <2>5, <2>6
<1>5. g[5].index <= Lead(five)
    <2> DEFINE at == [i \in 1 .. 5 |-> i]
               other == [i \in 1 .. 5 |-> g[at[i]]]
    <2>1. at \in FIVES_INDEXES BY DEF FIVES_INDEXES
    <2>2. other[5] = g[5] OBVIOUS
    <2>3. other \in Fives(g) BY <2>1 DEF Fives
    <2> HIDE DEF other
    <2>4. other \in FiveOf /\ Category(other) <= 1
          /\ (Category(other) = 1 => Lead(other) <= Lead(five))
        BY <2>3 DEF Best
    <2>5. Category(other) \in {1, 2, 3, 4, 6, 7} BY <2>4, CategoryIs
    <2>6. Category(other) = 1 BY <2>4, <2>5
    <2>7. Lead(other) = other[5].index BY <2>4, <2>6, LeadIs
    <2>. QED BY <2>2, <2>4, <2>6, <2>7
<1>6. Lead(five) = g[5].index
    <2>1. g[5].index \in Int BY <1>3
    <2>. QED BY <1>4, <1>5, <2>1
<1>. QED BY <1>2, <1>6, FifthHighest

LEMMA LeadRight ==
    ASSUME seven \in SevenOf
    PROVE  LET many(n) == {i \in 0 .. 12 : Count(i) >= n}
               suit == CHOOSE s \in 0 .. 3 : Suited(s) >= 5
               lead == CASE BestCategory \in {7, 4} -> Max(many(3))
                         [] BestCategory = 6 -> Max({seven[k].index : k \in {k \in 1 .. 7 : seven[k].kind = suit}})
                         [] BestCategory = 3 -> NthHighest(many(2), 2)
                         [] BestCategory = 2 -> Max(many(2))
                         [] OTHER -> NthHighest(many(1), 5)
           IN  (BestRank(seven) % 1000000) \div 10000 = lead + 1
<1> DEFINE many(n) == {i \in 0 .. 12 : Count(i) >= n}
           suit == CHOOSE s \in 0 .. 3 : Suited(s) >= 5
           suited == Max({seven[k].index : k \in {k \in 1 .. 7 : seven[k].kind = suit}})
           lead == CASE BestCategory \in {7, 4} -> Max(many(3))
                     [] BestCategory = 6 -> suited
                     [] BestCategory = 3 -> NthHighest(many(2), 2)
                     [] BestCategory = 2 -> Max(many(2))
                     [] OTHER -> NthHighest(many(1), 5)
           g == Sorted(seven)
<1>1. g \in SevenOf /\ Ordered(g, 7) /\ CardsOf(g) = CardsOf(seven) BY SortedIs
<1>2. PICK five \in Fives(g) : BestRank(seven) = Score(five) /\ Best(g, five)
    BY BestFive DEF Best
<1>3. five \in FiveOf BY <1>2 DEF Best
<1>4. Category(five) \in {1, 2, 3, 4, 6, 7} BY <1>3, CategoryIs
<1>5. BestCategory = Category(five)
    <2>1. Score(five) \div 1000000 = Category(five) BY <1>3, ScoreDigits, SMT
    <2>2. BestRank(seven) \div 1000000 = BestCategory BY CategoryRight, SMT
    <2>. QED BY <1>2, <2>1, <2>2, SMT
<1>6. (BestRank(seven) % 1000000) \div 10000 = Lead(five) + 1
    <2>1. (Score(five) % 1000000) \div 10000 = Lead(five) + 1 BY <1>3, ScoreDigits, SMT
    <2>. QED BY <1>2, <2>1, SMT
<1> HIDE DEF g
<1>7. /\ \A i : CountIn(g, i) = CountIn(seven, i)
      /\ \A s : SuitedIn(g, s) = SuitedIn(seven, s)
    BY <1>1, CountsKept
<1>8. /\ many(1) = Many(g, 1) /\ many(2) = Many(g, 2) /\ many(3) = Many(g, 3)
    <2>1. \A i : Count(i) = CountIn(g, i) BY <1>7 DEF Count, CountIn
    <2>. QED BY <2>1 DEF Many
<1>9. Category(five) = 6 => Lead(five) = suited
    <2>1. SUFFICES ASSUME Category(five) = 6 PROVE Lead(five) = suited OBVIOUS
    <2>2. PICK s \in 0 .. 3 :
             /\ SuitedIn(g, s) >= 5
             /\ Lead(five) = Max({g[k].index : k \in {k \in 1 .. 7 : g[k].kind = s}})
        BY <1>1, <1>2, <2>1, LeadsFlush
    <2>3. \A t : Suited(t) = SuitedIn(g, t) BY <1>7 DEF Suited, SuitedIn
    <2>4. suit \in 0 .. 3 /\ Suited(suit) >= 5 BY <2>2, <2>3
    <2>5. suit = s
        <3> HIDE DEF suit
        <3>. QED BY <2>2, <2>3, <2>4, OneSuit
    <2> HIDE DEF suit
    <2>6. \A h : {h[k].index : k \in {k \in 1 .. 7 : h[k].kind = s}}
                    = {c.index : c \in {c \in CardsOf(h) : c.kind = s}}
        BY DEF CardsOf
    <2>7. {g[k].index : k \in {k \in 1 .. 7 : g[k].kind = s}}
            = {seven[k].index : k \in {k \in 1 .. 7 : seven[k].kind = s}}
        BY <1>1, <2>6
    <2>. QED BY <2>2, <2>5, <2>7
<1> HIDE DEF many, suited
<1>10. Lead(five) = lead
    <2>1. CASE Category(five) = 7
        <3>1. Lead(five) = Max(many(3)) BY <1>1, <1>2, <1>8, <2>1, LeadsFullHouse
        <3>. QED BY <1>5, <2>1, <3>1
    <2>2. CASE Category(five) = 6
        <3>1. Lead(five) = suited BY <1>9, <2>2
        <3>. QED BY <1>5, <2>2, <3>1
    <2>3. CASE Category(five) = 4
        <3>1. Lead(five) = Max(many(3)) BY <1>1, <1>2, <1>8, <2>3, LeadsThree
        <3>. QED BY <1>5, <2>3, <3>1
    <2>4. CASE Category(five) = 3
        <3>1. Lead(five) = NthHighest(many(2), 2) BY <1>1, <1>2, <1>8, <2>4, LeadsTwoPairs
        <3>. QED BY <1>5, <2>4, <3>1
    <2>5. CASE Category(five) = 2
        <3>1. Lead(five) = Max(many(2)) BY <1>1, <1>2, <1>8, <2>5, LeadsPair
        <3>. QED BY <1>5, <2>5, <3>1
    <2>6. CASE Category(five) = 1
        <3>1. Lead(five) = NthHighest(many(1), 5) BY <1>1, <1>2, <1>8, <2>6, LeadsHighCard
        <3>. QED BY <1>5, <2>6, <3>1
    <2>. QED BY <1>4, <2>1, <2>2, <2>3, <2>4, <2>5, <2>6
<1> HIDE DEF lead
<1>11. (BestRank(seven) % 1000000) \div 10000 = lead + 1 BY <1>6, <1>10, SMT
<1>. QED BY <1>11, SMT DEF lead, many, suited

-----------------------------------------------------------------------------
(* A hand's rank is the best of its fives', once it is known.              *)
HandInv ==
    /\ seven = << >> \/ seven \in SevenOf
    /\ rank = 0 \/ (seven \in SevenOf /\ rank = BestRank(seven))

LEMMA HandStarts == CasesInit => HandInv
<1>1. CASE Payouts BY <1>1 DEF Payouts, HandInv
<1>2. CASE Hands BY <1>2, HandsAreSeven DEF Hands, HandInv
<1>. QED BY <1>1, <1>2 DEF CasesInit

LEMMA HandKept == HandInv /\ [CasesNext]_<<payout, hand>> => HandInv'
<1>1. SUFFICES ASSUME HandInv, [CasesNext]_<<payout, hand>> PROVE HandInv' OBVIOUS
<1>2. CASE ShowDown
    <2>1. UNCHANGED <<seven, rank>> BY <1>2 DEF ShowDown, hand
    <2>. QED BY <1>1, <2>1 DEF HandInv
<1>3. CASE Rank
    <2>1. seven \in SevenOf /\ seven' = seven /\ rank' = BestRank(seven) BY <1>1, <1>3 DEF Rank, HandInv
    <2>. QED BY <2>1 DEF HandInv
<1>4. CASE UNCHANGED <<payout, hand>>
    <2>1. UNCHANGED <<seven, rank>> BY <1>4 DEF hand
    <2>. QED BY <1>1, <2>1 DEF HandInv
<1>. QED BY <1>1, <1>2, <1>3, <1>4 DEF CasesNext

(* The category of a hand's rank is the best one that any five of the      *)
(* seven cards make, as how many there are of each index and each kind has *)
(* it: pkrsrv_card_get_best_fives_score (card.c) overlooks no five.        *)
THEOREM RanksByCategory == Spec => []CategoryIsRight
<1>1. HandInv => CategoryIsRight
    <2>1. SUFFICES ASSUME HandInv, rank # 0 PROVE rank \div 1000000 = BestCategory
        BY SMT DEF CategoryIsRight
    <2>2. seven \in SevenOf /\ rank = BestRank(seven) BY <2>1 DEF HandInv
    <2>. QED BY <2>2, CategoryRight, SMT
<1>. QED BY <1>1, HandStarts, HandKept, PTL DEF Spec

(* The card that leads a hand's rank is the best one its category can have *)
(* among the seven cards, in whatever order they came.                     *)
THEOREM LeadsRightly == Spec => []LeadsWithItsGroup
<1>1. HandInv => LeadsWithItsGroup
    <2>1. SUFFICES ASSUME HandInv, rank # 0 PROVE LeadsWithItsGroup
        BY SMT DEF LeadsWithItsGroup
    <2>2. seven \in SevenOf /\ rank = BestRank(seven) BY <2>1 DEF HandInv
    <2>. QED BY <2>2, LeadRight, SMT DEF LeadsWithItsGroup
<1>. QED BY <1>1, HandStarts, HandKept, PTL DEF Spec
===============================================================================
