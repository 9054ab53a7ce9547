----------------------------- MODULE SessionList -----------------------------
(***************************************************************************)
(* The lobby's list of sessions, pointer by pointer: the macros of sugar.h *)
(* and reorder_updated_session (lobby.c:1718), which keeps the sessions    *)
(* with most players in front by moving one that a player joined or left.  *)
(* Every list of the program is built of the same macros.                  *)
(***************************************************************************)
EXTENDS Naturals, SequencesExt

CONSTANTS Sessions,     \* session objects
          None,         \* NULL
          MaxPlayers    \* bound: players of a session

ASSUME SessionsAssumption ==
    IsFiniteSet(Sessions) /\ None \notin Sessions /\ MaxPlayers \in Nat \ {0}

VARIABLES list,      \* the list: next, terminal, length; and its nodes' next, prev
          players,   \* players of each session
          \* Observed only:
          listed,    \* the sessions in the list
          silent     \* a hand's end has changed a number without moving its session

listVars == <<list, players, listed, silent>>

ListInit ==
  /\ list = [head |-> None, terminal |-> None, length |-> 0,
             next |-> [s \in Sessions |-> None], prev |-> [s \in Sessions |-> None]]
  /\ players = [s \in Sessions |-> 0]
  /\ listed = {} /\ silent = FALSE

-----------------------------------------------------------------------------
LIST_APPEND(l, node) ==
  [l EXCEPT !.head = IF @ = None THEN node ELSE @,
            !.prev[node] = l.terminal,
            !.next = IF l.terminal = None THEN @ ELSE [@ EXCEPT ![l.terminal] = node],
            !.terminal = node,
            !.length = @ + 1]

(* A mutant of LIST_REMOVE: the list's own pointer to the last is forgotten. *)
LIST_REMOVE_KeepsTerminal(l, node) ==
  [l EXCEPT !.head = IF @ = node THEN l.next[node] ELSE @,
            !.prev = IF l.next[node] = None THEN @ ELSE [@ EXCEPT ![l.next[node]] = l.prev[node]],
            !.next = IF l.prev[node] = None THEN @ ELSE [@ EXCEPT ![l.prev[node]] = l.next[node]],
            !.length = @ - 1]
\* The node's own pointers stay.
LIST_REMOVE(l, node) ==
  [l EXCEPT !.terminal = IF @ # node THEN @
                         ELSE IF l.next[node] # None THEN l.next[node] ELSE l.prev[node],
            !.head = IF @ = node THEN l.next[node] ELSE @,
            !.prev = IF l.next[node] = None THEN @ ELSE [@ EXCEPT ![l.next[node]] = l.prev[node]],
            !.next = IF l.prev[node] = None THEN @ ELSE [@ EXCEPT ![l.prev[node]] = l.next[node]],
            !.length = @ - 1]

\* LIST_FOREACH from a first node; a chain longer than its nodes is a cycle.
Chain(first, link) ==
  LET walk[n \in 0 .. Cardinality(Sessions) + 1] ==
        IF n = 0 THEN << >>
        ELSE LET node == IF n = 1 THEN first
                         ELSE IF Len(walk[n - 1]) = n - 1 THEN link[Last(walk[n - 1])] ELSE None
             IN IF node = None THEN walk[n - 1] ELSE Append(walk[n - 1], node)
  IN walk[Cardinality(Sessions) + 1]

-----------------------------------------------------------------------------
\* The end of reorder_updated_session: in front of to_place, or last.
PlacedBefore(l, updated, to_place) ==
  [l EXCEPT !.next = [s \in Sessions |->
                        CASE s = updated -> to_place
                          [] s # updated /\ s = l.prev[to_place] -> updated
                          [] OTHER -> @[s]],
            !.prev = [@ EXCEPT ![updated] = l.prev[to_place], ![to_place] = updated],
            !.head = IF @ = to_place THEN updated ELSE @,
            !.length = @ + 1]
PlacedLast(l, updated) ==
  [l EXCEPT !.prev[updated] = l.terminal,
            !.next = [s \in Sessions |-> CASE s = updated -> None
                                           [] s # updated /\ s = l.terminal -> updated
                                           [] OTHER -> @[s]],
            !.terminal = updated,
            !.head = IF @ = None THEN updated ELSE @,
            !.length = @ + 1]

(* A mutant of Reordered: the number before the change is compared.       *)
ReorderedFewer(l, updated, count, old_length) ==
  LET fewer == count[updated] < old_length
      removed == LIST_REMOVE(l, updated)
      from == Chain(IF fewer THEN l.next[updated] ELSE removed.head, removed.next)
      lower == {i \in DOMAIN from : count[from[i]] < old_length}
  IN CASE \/ count[updated] = old_length
          \/ fewer /\ updated = l.terminal
          \/ ~fewer /\ updated = l.head -> l
       [] OTHER -> IF lower = {} THEN PlacedLast(removed, updated)
                   ELSE PlacedBefore(removed, updated, from[Min(lower)])

\* A session that lost players is placed from where it was, one that gained
\* players from the front, before the first that has no more players than it.
Reordered(l, updated, count, old_length) ==
  LET fewer == count[updated] < old_length
      removed == LIST_REMOVE(l, updated)
      from == Chain(IF fewer THEN l.next[updated] ELSE removed.head, removed.next)
      lower == {i \in DOMAIN from : count[from[i]] <= count[updated]}
  IN CASE \/ count[updated] = old_length
          \/ fewer /\ updated = l.terminal
          \/ ~fewer /\ updated = l.head -> l
       [] OTHER -> IF lower = {} THEN PlacedLast(removed, updated)
                   ELSE PlacedBefore(removed, updated, from[Min(lower)])

-----------------------------------------------------------------------------
\* The first client enters a table: a new session, whose pointers are NULL.
AddSession(s) ==
  /\ s \notin listed
  /\ list' = LIST_APPEND([list EXCEPT !.next[s] = None, !.prev[s] = None], s)
  /\ players' = [players EXCEPT ![s] = 0]
  /\ listed' = listed \cup {s}
  /\ UNCHANGED silent

\* The last client leaves it; players who left in a hand may still be there.
RemoveSession(s) ==
  /\ s \in listed
  /\ list' = LIST_REMOVE(list, s)
  /\ listed' = listed \ {s}
  /\ UNCHANGED <<players, silent>>

\* A client joins, or unjoins between hands.
ChangePlayers(s, n) ==
  /\ s \in listed /\ n \in {players[s] - 1, players[s] + 1}
  /\ players' = [players EXCEPT ![s] = n]
  /\ list' = Reordered(list, s, players', players[s])
  /\ UNCHANGED <<listed, silent>>

\* The proceed task of a finished hand removes those who left, and compares the
\* number of players with itself.
FinishHand(s, n) ==
  /\ s \in listed /\ n < players[s]
  /\ players' = [players EXCEPT ![s] = n]
  /\ list' = Reordered(list, s, players', n)
  /\ silent' = TRUE
  /\ UNCHANGED listed

ListNext ==
  \E s \in Sessions : \/ AddSession(s) \/ RemoveSession(s)
                      \/ \E n \in 0 .. MaxPlayers : ChangePlayers(s, n) \/ FinishHand(s, n)

ListSpec == ListInit /\ [][ListNext]_listVars

-----------------------------------------------------------------------------
\* Forwards and backwards the list is the sessions it should hold, each once,
\* and its length is their number, wherever in the list sessions were removed,
\* moved and added again (the macros change up to six pointers, lobby.c:1752
\* changes them by hand).
WellLinked ==
  LET forward == Chain(list.head, list.next)
  IN /\ ToSet(forward) = listed
     /\ Len(forward) = Cardinality(listed)
     /\ list.length = Cardinality(listed)
     /\ Chain(list.terminal, list.prev) = Reverse(forward)

\* The sessions are in the order of their players after any joins and unjoins,
\* as long as no hand ended with players who had left: lobby.c:233 passes the
\* new length as the old one and moves nothing.
MostPlayersFirst ==
  ~silent => LET s == Chain(list.head, list.next)
             IN \A i \in 1 .. Len(s) - 1 : players[s[i]] >= players[s[i + 1]]
=============================================================================
