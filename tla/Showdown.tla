------------------------------- MODULE Showdown -------------------------------
(***************************************************************************)
(* The payout of pkrsrv_poker_do_action after its label DONE               *)
(* (src/poker.c): the contenders are ordered by the rank of their cards    *)
(* and paid one after the other out of the bets of the contenders ranked   *)
(* below them.                                                             *)
(*                                                                         *)
(* Cards are abstracted to the order they induce.  `ranks` is an array on  *)
(* the stack with one entry per listed player, filled for contenders only  *)
(* (line 909 indexes it by the player's place in the list).  The exchange  *)
(* sort runs over every entry, so the garbage of an unfilled one lands     *)
(* anywhere: `ranking` is any order of all the listed players, and an      *)
(* entry that is not a contender's is a hole whose content is undefined.   *)
(***************************************************************************)
EXTENDS Integers, Sequences, FiniteSets

(* Mutants of PayEntry: the residuals are left as they were; an entry that *)
(* does not cover the payee's bet counts too; the first takes the pot.     *)
PayEntryKeepsBets(s, i, ranking, contenders, bet) ==
    LET others == {ranking[j] : j \in (i + 1) .. Cardinality(contenders)}
    IN  [s EXCEPT !.pay[ranking[i]] = s.residual[ranking[i]] * (1 + Cardinality(others)),
                  !.pot_diff = @ - bet[ranking[i]]]

PayEntryUncovered(s, i, ranking, contenders, bet) ==
    LET others == {ranking[j] : j \in (i + 1) .. Cardinality(contenders)}
    IN  [s EXCEPT !.pay[ranking[i]] = s.residual[ranking[i]] * (1 + Cardinality(others)),
                  !.residual = [q \in DOMAIN bet |-> IF q \in others THEN 0 ELSE @[q]],
                  !.pot_diff = @ - bet[ranking[i]]]

PayEntryWholePot(s, i, ranking, contenders, bet) ==
    [s EXCEPT !.pay[ranking[i]] = s.pot_diff, !.pot_diff = 0]

(* Pays the i-th entry.  Each lower entry whose residual bet still covers  *)
(* the payee's bet gives the payee's residual; any other is zeroed first   *)
(* and then gives its residual, which is nothing.  Reaching a hole is      *)
(* undefined behaviour, recorded in is_defined.                            *)
PayEntry(s, i, ranking, contenders, bet) ==
    LET payee    == ranking[i]
        others   == {ranking[j] : j \in (i + 1) .. Cardinality(contenders)}
        covering == {o \in others : s.residual[o] >= bet[payee]}
    IN  IF ~({payee} \cup others \subseteq contenders)
        THEN [s EXCEPT !.is_defined = FALSE]
        ELSE [s EXCEPT
                !.pay[payee] = s.residual[payee] * (1 + Cardinality(covering)),
                !.residual   = [q \in DOMAIN bet |->
                                  CASE q \in covering -> @[q] - @[payee]
                                    [] q \in others \ covering -> 0
                                    [] OTHER -> @[q]],
                !.pot_diff   = @ - bet[payee]]

(* The whole loop: it stops early once the bets of the paid entries add up *)
(* to the pot.                                                             *)
Settle(ranking, contenders, bet, pot) ==
    LET start == [pay        |-> [q \in DOMAIN bet |-> 0],
                  residual   |-> bet,
                  pot_diff   |-> pot,
                  is_defined |-> TRUE]
        after[i \in 0 .. Len(ranking)] ==
            IF i = 0 THEN start
            ELSE IF (i > 1 /\ after[i - 1].pot_diff = 0) \/ ~after[i - 1].is_defined
                 THEN after[i - 1]
                 ELSE PayEntry(after[i - 1], i, ranking, contenders, bet)
    IN  after[Len(ranking)]
===============================================================================
