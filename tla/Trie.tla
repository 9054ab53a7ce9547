--------------------------------- MODULE Trie ---------------------------------
(***************************************************************************)
(* The trie from tokens to the lobby's clients (trie.c:160, the ascii one).*)
(* A node is named by the characters that lead to it, << >> for the root;  *)
(* the nodes that are allocated are the domain of trie.                    *)
(***************************************************************************)
EXTENDS SequencesExt

CONSTANTS Characters,
          Keys,       \* tokens: sequences of characters
          Values,     \* clients
          NoValue     \* NULL

ASSUME KeysAssumption == Keys \subseteq Seq(Characters) \ {<< >>}
ASSUME ValuesAssumption == NoValue \notin Values

VARIABLES trie,   \* for each allocated node, its value and how many children
          map     \* Observed only: the client last set for each key

trieVars == <<trie, map>>

NewNode == [value |-> NoValue, len |-> 0]

TrieInit == /\ trie = [node \in {<< >>} |-> NewNode]
            /\ map = [k \in Keys |-> NoValue]

Has(t, node) == node \in DOMAIN t

\* pkrsrv_trie_node_key__ascii: the node, whether it has a value or not.
Get(t, key) == IF Has(t, key) THEN t[key].value ELSE NoValue

\* pkrsrv_trie_unset__ascii: a node in no use is freed, its parent counts it out.
Idle(t, node) == t[node].len = 0 /\ t[node].value = NoValue

(* A mutant of Freed: the parent forgets to count the node out.            *)
FreedUncounted(t, node) == [m \in DOMAIN t \ {node} |-> t[m]]

Freed(t, node) == [m \in DOMAIN t \ {node} |->
                     IF m = Front(node) THEN [t[m] EXCEPT !.len = @ - 1] ELSE t[m]]

\* Nodes are freed from the key's upwards, up to one in use or the root.
Pruned(t, key) ==
  LET step(s, n) == IF s.done \/ ~Idle(s.t, SubSeq(key, 1, n))
                      THEN [s EXCEPT !.done = TRUE]
                      ELSE [s EXCEPT !.t = Freed(@, SubSeq(key, 1, n))]
      down == [i \in 1 .. Len(key) |-> Len(key) + 1 - i]
  IN FoldLeft(step, [t |-> t, done |-> FALSE], down).t

UnsetIn(t, key) ==
  IF Has(t, key) THEN Pruned([t EXCEPT ![key].value = NoValue], key) ELSE t

\* pkrsrv_trie_set__ascii: the nodes on the way that are missing are made.
Made(t, node) == [m \in DOMAIN t \cup {node} |->
                    IF m = node THEN NewNode
                    ELSE IF m = Front(node) THEN [t[m] EXCEPT !.len = @ + 1] ELSE t[m]]

SetIn(t, key, value) ==
  LET step(s, n) == IF Has(s, SubSeq(key, 1, n)) THEN s ELSE Made(s, SubSeq(key, 1, n))
      made == FoldLeft(step, UnsetIn(t, key), [i \in 1 .. Len(key) |-> i])
  IN [made EXCEPT ![key].value = value]

Set(key, value) == /\ trie' = SetIn(trie, key, value)
                   /\ map' = [map EXCEPT ![key] = value]

Unset(key) == /\ trie' = UnsetIn(trie, key)
              /\ map' = [map EXCEPT ![key] = NoValue]

TrieNext == \E k \in Keys : Unset(k) \/ \E v \in Values : Set(k, v)

TrieSpec == TrieInit /\ [][TrieNext]_trieVars

-----------------------------------------------------------------------------
\* A token finds the client it was last set to, whatever tokens that share a
\* beginning with it were set and unset in between; and every node is on the
\* way to a token that is set and counts its children, so that nothing is
\* freed too early and nothing is left behind (trie.c:192).
TrieIsMap ==
  LET used == {k \in Keys : map[k] # NoValue}
  IN /\ \A k \in Keys : Get(trie, k) = map[k]
     /\ DOMAIN trie = {<< >>} \cup UNION {{SubSeq(k, 1, n) : n \in 1 .. Len(k)} : k \in used}
     /\ \A node \in DOMAIN trie :
          trie[node].len = Cardinality({m \in DOMAIN trie : m # << >> /\ Front(m) = node})
=============================================================================
