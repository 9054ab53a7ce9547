-------------------------------- MODULE Cards --------------------------------
(***************************************************************************)
(* The rank of the best five of a player's seven cards (card.c).  A card   *)
(* has an index, 0 for a two up to 12 for an ace, and a kind.  What is     *)
(* drawn is never of the fourth kind: the range of the random number       *)
(* leaves out its upper end (random.c:29), and so no hand has four cards   *)
(* of one index although the code looks for them.                          *)
(***************************************************************************)
EXTENDS Integers, SequencesExt

Drawn == [index : 0 .. 12, kind : 0 .. 2]

\* pkrsrv_card_get_random draws again until it finds a card not drawn before.
Drawable(history) == Drawn \ Range(history)

-----------------------------------------------------------------------------
\* Every pair of places in turn, compared and exchanged: highest index first.
Exchanged(cards, i, j) ==
  IF cards[i].index > cards[j].index
    THEN [cards EXCEPT ![i] = cards[j], ![j] = cards[i]]
    ELSE cards
Places7 == [n \in 1 .. 49 |-> <<1 + ((n - 1) \div 7), 1 + ((n - 1) % 7)>>]
(* A mutant of Sorted: each pair of places once.                           *)
SortedOnce(cards) ==
  FoldLeft(LAMBDA s, p : IF p[1] < p[2] THEN Exchanged(s, p[1], p[2]) ELSE s, cards, Places7)
Sorted(cards) == FoldLeft(LAMBDA s, p : Exchanged(s, p[1], p[2]), cards, Places7)

FIVES_INDEXES == {at \in [1 .. 5 -> 1 .. 7] : \A i \in 1 .. 4 : at[i] < at[i + 1]}
Fives(seven) == {[i \in 1 .. 5 |-> seven[at[i]]] : at \in FIVES_INDEXES}

-----------------------------------------------------------------------------
\* The arrangements of five cards that the check of each category tries, in its
\* order: the places of the cards, those of the groups first.
Arrangements ==
  [c \in 1 .. 9 |->
     CASE c = 2 -> <<<<1, 2, 3, 4, 5>>, <<2, 3, 1, 4, 5>>, <<3, 4, 1, 2, 5>>, <<4, 5, 1, 2, 3>>>>
       [] c = 3 -> <<<<1, 2, 3, 4, 5>>, <<1, 2, 4, 5, 3>>, <<2, 3, 4, 5, 1>>>>
       [] c = 4 -> <<<<1, 2, 3, 4, 5>>, <<2, 3, 4, 1, 5>>, <<3, 4, 5, 1, 2>>>>
       [] c = 7 -> <<<<1, 2, 3, 4, 5>>, <<3, 4, 5, 1, 2>>>>
       [] c = 8 -> <<<<1, 2, 3, 4, 5>>, <<2, 3, 4, 5, 1>>>>
       [] OTHER -> <<<<1, 2, 3, 4, 5>>>>]

Placed(five, places) == [i \in 1 .. 5 |-> five[places[i]]]

\* Cards of one index from the i-th to the j-th: the groups of each category.
Alike(five, i, j) == \A k \in i .. j - 1 : five[k].index = five[k + 1].index
Grouped(five, c) ==
  CASE c = 2 -> Alike(five, 1, 2)
    [] c = 3 -> Alike(five, 1, 2) /\ Alike(five, 3, 4)
    [] c = 4 -> Alike(five, 1, 3)
    [] c = 7 -> Alike(five, 1, 3) /\ Alike(five, 4, 5)
    [] c = 8 -> Alike(five, 1, 4)
    [] OTHER -> TRUE
Fitting(five, c) ==
  {n \in DOMAIN Arrangements[c] : Grouped(Placed(five, Arrangements[c][n]), c)}

\* The checks for a straight want the indexes to go up by one.
Ascending(five) == \A i \in 1 .. 4 : five[i].index = five[i + 1].index - 1
OneKind(five) == \A i \in 1 .. 4 : five[i].kind = five[i + 1].kind

(* A mutant of Exists: a flush is not looked for.                          *)
ExistsUnsuited(five, c) ==
  CASE c = 9 -> Ascending(five) /\ OneKind(five)
    [] c = 5 -> Ascending(five)
    [] c = 6 -> FALSE
    [] OTHER -> Fitting(five, c) # {}

\* The royal flush, category 10, never exists: no path of its check says so.
Exists(five, c) ==
  CASE c = 9 -> Ascending(five) /\ OneKind(five)
    [] c = 6 -> OneKind(five)
    [] c = 5 -> Ascending(five)
    [] OTHER -> Fitting(five, c) # {}

\* pkrsrv_card_get_get_fives_score asks for the greatest category first.
Category(five) == Max({c \in 1 .. 9 : Exists(five, c)})

Arranged(five, c) == Placed(five, Arrangements[c][Min(Fitting(five, c))])

Score(five) ==
  LET c == Category(five)
      n == [i \in 1 .. 5 |-> Arranged(five, c)[i].index + 1]
  IN 1000000 * c + CASE c \in {2, 4, 7} -> 10000 * n[1] + n[5]
                     [] c = 8 -> 10000 * n[1] + 100 * n[5]
                     [] c = 6 -> 10000 * n[1]
                     [] c = 3 -> 10000 * n[3] + 100 * n[1] + n[5]
                     [] OTHER -> 10000 * n[5]

\* pkrsrv_card_get_best_fives_score
BestRank(seven) == Max({Score(five) : five \in Fives(Sorted(seven))})
=============================================================================
