------------------------------ MODULE MCSession ------------------------------
(***************************************************************************)
(* Small instances of Session for TLC: who may join with what, and which   *)
(* actions the clients may send.                                           *)
(***************************************************************************)
EXTENDS Session, TLC

CONSTANTS alice, bob, carol, p1, p2, p3

Request(a, pos, amount) == [account |-> a, position |-> pos, amount |-> amount]
Action(kind, amount)    == [kind |-> kind, amount |-> amount]

(* Two accounts, one seat each, with an even and an odd stack.             *)
HeadsUpJoins == {Request(alice, 0, 4), Request(bob, 1, 5)}

(* Every kind of action; raises to the bet, below and above the blind.     *)
AllActions ==
    {Action("CHECK", 0), Action("FOLD", 0), Action("OTHER", 0)}
        \cup {Action("RAISE", n) : n \in {0, 2, 4, 5}}

(* Player objects are interchangeable.                                     *)
Objects == Permutations({p1, p2, p3})

(* Three accounts that come and go.                                        *)
ThreeJoins == {Request(alice, 0, 4), Request(bob, 1, 4), Request(carol, 2, 5)}

FewActions ==
    {Action("CHECK", 0), Action("FOLD", 0), Action("RAISE", 4)}

(* The big blind's stack is the big blind.                                 *)
ShortBigBlind   == {Request(alice, 0, 4), Request(bob, 1, 2), Request(carol, 2, 4)}

OnlyChecks == {Action("CHECK", 0)}
===============================================================================
