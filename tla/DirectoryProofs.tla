---------------------------- MODULE DirectoryProofs ----------------------------
(***************************************************************************)
(* The theorems of SessionList and Trie, by which the lobby finds sessions *)
(* and clients.  For any sessions the pointers are those of a list of the  *)
(* sessions it should hold, in the order of their players; for any tokens  *)
(* the trie finds what they were set to.                                   *)
(***************************************************************************)
EXTENDS SessionList, Trie, CommonProofs

(* The i-th of a list's n sessions, NULL beyond its ends.                  *)
At(s, n, i) == IF i \in 1 .. n THEN s[i] ELSE None

Pointers == Sessions \cup {None}
ListRecords == [head : Pointers, terminal : Pointers, length : Nat,
           next : [Sessions -> Pointers], prev : [Sessions -> Pointers]]

Distinct(s, n) == /\ n \in Nat
                  /\ s \in [1 .. n -> Sessions]
                  /\ \A i, j \in 1 .. n : s[i] = s[j] => i = j

(* l links the sessions of s in their order, both ways.                    *)
Links(l, s, n) ==
    /\ l \in ListRecords
    /\ Distinct(s, n)
    /\ l.head = At(s, n, 1) /\ l.terminal = At(s, n, n)
    /\ \A i \in 1 .. n : l.next[s[i]] = At(s, n, i + 1) /\ l.prev[s[i]] = At(s, n, i - 1)
    /\ l.length = n

Holds(s, n) == {s[i] : i \in 1 .. n}
Lesser(s, n, k) == [i \in 1 .. (n - 1) |-> IF i < k THEN s[i] ELSE s[i + 1]]
Greater(s, n, k, x) == [i \in 1 .. (n + 1) |-> IF i < k THEN s[i]
                                               ELSE IF i = k THEN x ELSE s[i - 1]]

-----------------------------------------------------------------------------
(* What is taken out or put in.                                            *)
LEMMA LesserIs ==
    ASSUME NEW s, NEW n, Distinct(s, n), NEW k \in 1 .. n
    PROVE  /\ Distinct(Lesser(s, n, k), n - 1)
           /\ Holds(Lesser(s, n, k), n - 1) = Holds(s, n) \ {s[k]}
           /\ \A i \in 1 .. (n - 1) : Lesser(s, n, k)[i] = IF i < k THEN s[i] ELSE s[i + 1]
<1> DEFINE t == Lesser(s, n, k)
<1>1. /\ n \in Nat /\ n - 1 \in Nat /\ s \in [1 .. n -> Sessions]
      /\ \A i, j \in 1 .. n : s[i] = s[j] => i = j
    BY DEF Distinct
<1>2. \A i \in 1 .. (n - 1) : t[i] = IF i < k THEN s[i] ELSE s[i + 1]
    BY DEF Lesser
<1>3. \A i \in 1 .. (n - 1) : i \in 1 .. n /\ i + 1 \in 1 .. n
    BY <1>1
<1>4. t \in [1 .. (n - 1) -> Sessions]
    BY <1>1, <1>3 DEF Lesser
<1>5. \A i, j \in 1 .. (n - 1) : t[i] = t[j] => i = j
    <2> HIDE DEF t
    <2>1. QED
        BY <1>1, <1>2, <1>3
<1>6. Holds(t, n - 1) = Holds(s, n) \ {s[k]}
    <2> HIDE DEF t
    <2>1. ASSUME NEW i \in 1 .. (n - 1) PROVE t[i] \in Holds(s, n) \ {s[k]}
        BY <1>1, <1>2, <1>3 DEF Holds
    <2>2. ASSUME NEW i \in 1 .. n, i # k PROVE s[i] \in Holds(t, n - 1)
        <3>1. CASE i < k
            <4>1. i \in 1 .. (n - 1) /\ t[i] = s[i]
                BY <1>1, <1>2, <3>1
            <4>2. QED
                BY <4>1 DEF Holds
        <3>2. CASE ~(i < k)
            <4>1. i - 1 \in 1 .. (n - 1) /\ ~(i - 1 < k) /\ i - 1 + 1 = i
                BY <1>1, <2>2, <3>2
            <4>2. t[i - 1] = s[i]
                BY <1>2, <4>1
            <4>3. QED
                BY <4>1, <4>2 DEF Holds
        <3>3. QED
            BY <3>1, <3>2
    <2>3. QED
        BY <2>1, <2>2 DEF Holds
<1>7. QED
    BY <1>1, <1>2, <1>4, <1>5, <1>6 DEF Distinct

LEMMA GreaterIs ==
    ASSUME NEW s, NEW n, Distinct(s, n), NEW k \in 1 .. (n + 1), NEW x \in Sessions,
           x \notin Holds(s, n)
    PROVE  /\ Distinct(Greater(s, n, k, x), n + 1)
           /\ Holds(Greater(s, n, k, x), n + 1) = Holds(s, n) \cup {x}
           /\ \A i \in 1 .. (n + 1) :
                 Greater(s, n, k, x)[i] = IF i < k THEN s[i] ELSE IF i = k THEN x ELSE s[i - 1]
<1> DEFINE t == Greater(s, n, k, x)
<1>1. /\ n \in Nat /\ n + 1 \in Nat /\ s \in [1 .. n -> Sessions]
      /\ \A i, j \in 1 .. n : s[i] = s[j] => i = j
      /\ \A i \in 1 .. n : s[i] # x
    BY DEF Distinct, Holds
<1>2. \A i \in 1 .. (n + 1) : t[i] = IF i < k THEN s[i] ELSE IF i = k THEN x ELSE s[i - 1]
    BY DEF Greater
<1>3. \A i \in 1 .. (n + 1) : (i < k => i \in 1 .. n) /\ (i > k => i - 1 \in 1 .. n)
    BY <1>1
<1>4. t \in [1 .. (n + 1) -> Sessions]
    BY <1>1, <1>3 DEF Greater
<1>5. \A i, j \in 1 .. (n + 1) : t[i] = t[j] => i = j
    <2> HIDE DEF t
    <2>1. QED
        BY <1>1, <1>2, <1>3
<1>6. Holds(t, n + 1) = Holds(s, n) \cup {x}
    <2> HIDE DEF t
    <2>1. ASSUME NEW i \in 1 .. (n + 1) PROVE t[i] \in Holds(s, n) \cup {x}
        BY <1>1, <1>2, <1>3 DEF Holds
    <2>2. ASSUME NEW i \in 1 .. n PROVE s[i] \in Holds(t, n + 1)
        <3>1. CASE i < k
            <4>1. i \in 1 .. (n + 1) /\ t[i] = s[i]
                BY <1>1, <1>2, <3>1
            <4>2. QED
                BY <4>1 DEF Holds
        <3>2. CASE ~(i < k)
            <4>1. i + 1 \in 1 .. (n + 1) /\ ~(i + 1 < k) /\ i + 1 # k /\ i + 1 - 1 = i
                BY <1>1, <3>2
            <4>2. t[i + 1] = s[i]
                BY <1>2, <4>1
            <4>3. QED
                BY <4>1, <4>2 DEF Holds
        <3>3. QED
            BY <3>1, <3>2
    <2>3. x \in Holds(t, n + 1)
        BY <1>2 DEF Holds
    <2>4. QED
        BY <2>1, <2>2, <2>3 DEF Holds
<1>7. QED
    BY <1>1, <1>2, <1>4, <1>5, <1>6 DEF Distinct

-----------------------------------------------------------------------------
(* The macros and the end of reorder_updated_session do that.              *)
LEMMA RemoveLinks ==
    ASSUME NEW l, NEW s, NEW n, Links(l, s, n), NEW k \in 1 .. n
    PROVE  Links(LIST_REMOVE(l, s[k]), Lesser(s, n, k), n - 1)
<1> DEFINE node == s[k]
           before == l.prev[node]
           after == l.next[node]
           terminal == IF l.terminal # node THEN l.terminal
                       ELSE IF after # None THEN after ELSE before
           head == IF l.head = node THEN after ELSE l.head
           prev == IF after = None THEN l.prev ELSE [l.prev EXCEPT ![after] = before]
           next == IF before = None THEN l.next ELSE [l.next EXCEPT ![before] = after]
           t == Lesser(s, n, k)
           r == LIST_REMOVE(l, node)
<1>1. /\ n \in Nat \ {0} /\ s \in [1 .. n -> Sessions]
      /\ \A i, j \in 1 .. n : s[i] = s[j] => i = j
      /\ l \in ListRecords /\ l.head = At(s, n, 1) /\ l.terminal = At(s, n, n) /\ l.length = n
      /\ \A i \in 1 .. n : l.next[s[i]] = At(s, n, i + 1) /\ l.prev[s[i]] = At(s, n, i - 1)
      /\ \A i \in 1 .. n : s[i] # None
      /\ Distinct(s, n)
    <2>1. Distinct(s, n)
        BY DEF Links
    <2>2. /\ n \in Nat \ {0} /\ s \in [1 .. n -> Sessions]
          /\ \A i, j \in 1 .. n : s[i] = s[j] => i = j
        BY <2>1 DEF Distinct
    <2>3. \A i \in 1 .. n : s[i] # None
        BY <2>2, SessionsAssumption
    <2>4. QED
        BY <2>1, <2>2, <2>3 DEF Links
<1>2. r = [l EXCEPT !.terminal = terminal, !.head = head, !.prev = prev, !.next = next,
                    !.length = l.length - 1]
    BY <1>1 DEF LIST_REMOVE, ListRecords
<1>3. /\ before = At(s, n, k - 1) /\ after = At(s, n, k + 1)
      /\ before \in Pointers /\ after \in Pointers
    BY <1>1 DEF At, Pointers
<1>4. prev \in [Sessions -> Pointers] /\ next \in [Sessions -> Pointers]
    BY <1>1, <1>3 DEF ListRecords, Pointers
<1>5. head \in Pointers /\ terminal \in Pointers
    BY <1>1, <1>3 DEF ListRecords
<1>6. /\ Distinct(t, n - 1)
      /\ \A i \in 1 .. (n - 1) : t[i] = IF i < k THEN s[i] ELSE s[i + 1]
    <2>1. Distinct(s, n) /\ k \in 1 .. n
        BY <1>1
    <2>2. QED
        BY <2>1, LesserIs
<1> HIDE DEF t, r, before, after
<1>7. head = At(t, n - 1, 1)
    BY <1>1, <1>3, <1>6 DEF At
<1>8. terminal = At(t, n - 1, n - 1)
    BY <1>1, <1>3, <1>6 DEF At
<1>9. ASSUME NEW i \in 1 .. (n - 1) PROVE next[t[i]] = At(t, n - 1, i + 1)
    <2>1. CASE i < k - 1
        BY <1>1, <1>3, <1>6, <2>1 DEF At, ListRecords
    <2>2. CASE i = k - 1
        BY <1>1, <1>3, <1>6, <2>2 DEF At, ListRecords
    <2>3. CASE i > k - 1
        BY <1>1, <1>3, <1>6, <2>3 DEF At, ListRecords
    <2>4. QED
        BY <2>1, <2>2, <2>3
<1>10. ASSUME NEW i \in 1 .. (n - 1) PROVE prev[t[i]] = At(t, n - 1, i - 1)
    <2>1. CASE i < k
        BY <1>1, <1>3, <1>6, <2>1 DEF At, ListRecords
    <2>2. CASE i = k
        BY <1>1, <1>3, <1>6, <2>2 DEF At, ListRecords
    <2>3. CASE i > k
        BY <1>1, <1>3, <1>6, <2>3 DEF At, ListRecords
    <2>4. QED
        BY <2>1, <2>2, <2>3
<1> HIDE DEF head, terminal, prev, next
<1>11. /\ r.head = head /\ r.terminal = terminal /\ r.prev = prev /\ r.next = next
       /\ r.length = n - 1 /\ r \in ListRecords
    <2>1. r = [head |-> head, terminal |-> terminal, length |-> n - 1,
               next |-> next, prev |-> prev]
        BY <1>1, <1>2 DEF ListRecords
    <2>2. n - 1 \in Nat
        BY <1>1
    <2>3. QED
        BY <1>4, <1>5, <2>1, <2>2 DEF ListRecords
<1>12. QED
    BY <1>6, <1>7, <1>8, <1>9, <1>10, <1>11 DEF Links, r, t

LEMMA PlaceLinks ==
    ASSUME NEW l, NEW s, NEW n, Links(l, s, n), NEW k \in 1 .. n,
           NEW x \in Sessions, x \notin Holds(s, n)
    PROVE  Links(PlacedBefore(l, x, s[k]), Greater(s, n, k, x), n + 1)
<1> DEFINE place == s[k]
           before == l.prev[place]
           head == IF l.head = place THEN x ELSE l.head
           prev == [l.prev EXCEPT ![x] = before, ![place] = x]
           next == [q \in Sessions |-> CASE q = x -> place
                                       [] q # x /\ q = before -> x
                                       [] OTHER -> l.next[q]]
           t == Greater(s, n, k, x)
           r == PlacedBefore(l, x, place)
<1>1. /\ n \in Nat /\ s \in [1 .. n -> Sessions]
      /\ \A i, j \in 1 .. n : s[i] = s[j] => i = j
      /\ l \in ListRecords /\ l.head = At(s, n, 1) /\ l.terminal = At(s, n, n) /\ l.length = n
      /\ \A i \in 1 .. n : l.next[s[i]] = At(s, n, i + 1) /\ l.prev[s[i]] = At(s, n, i - 1)
      /\ \A i \in 1 .. n : s[i] # None /\ s[i] # x
      /\ Distinct(s, n) /\ x # None
    <2>1. Distinct(s, n)
        BY DEF Links
    <2>2. /\ n \in Nat /\ s \in [1 .. n -> Sessions]
          /\ \A i, j \in 1 .. n : s[i] = s[j] => i = j
        BY <2>1 DEF Distinct
    <2>3. /\ x # None
          /\ \A i \in 1 .. n : s[i] # None /\ s[i] # x
        BY <2>2, SessionsAssumption DEF Holds
    <2>4. QED
        BY <2>1, <2>2, <2>3 DEF Links
<1>2. r = [head |-> head, terminal |-> l.terminal, length |-> n + 1, next |-> next, prev |-> prev]
    <2>1. r = [l EXCEPT !.next = next, !.prev = prev, !.head = head, !.length = l.length + 1]
        BY DEF PlacedBefore
    <2> HIDE DEF next, prev, head, r
    <2>2. QED
        BY <1>1, <2>1 DEF ListRecords
<1>3. before = At(s, n, k - 1) /\ before \in Pointers /\ before # x /\ place \in Sessions
    BY <1>1 DEF At, Pointers
<1>4. /\ prev \in [Sessions -> Pointers] /\ next \in [Sessions -> Pointers]
      /\ head \in Pointers /\ l.terminal \in Pointers
    BY <1>1, <1>3 DEF ListRecords, Pointers
<1>5. /\ Distinct(t, n + 1)
      /\ \A i \in 1 .. (n + 1) : t[i] = IF i < k THEN s[i] ELSE IF i = k THEN x ELSE s[i - 1]
    <2>1. Distinct(s, n) /\ k \in 1 .. (n + 1)
        BY <1>1
    <2>2. QED
        BY <2>1, GreaterIs
<1> HIDE DEF t, r, before
<1>6. head = At(t, n + 1, 1)
    BY <1>1, <1>3, <1>5 DEF At
<1>7. l.terminal = At(t, n + 1, n + 1)
    BY <1>1, <1>3, <1>5 DEF At
<1>8. ASSUME NEW i \in 1 .. (n + 1) PROVE next[t[i]] = At(t, n + 1, i + 1)
    <2>1. CASE i < k - 1
        BY <1>1, <1>3, <1>5, <2>1 DEF At
    <2>2. CASE i = k - 1
        <3>1. /\ i \in 1 .. n /\ i < k /\ i + 1 = k /\ i + 1 \in 1 .. (n + 1)
              /\ t[i] = s[i] /\ before = s[i] /\ t[i + 1] = x
            BY <1>1, <1>3, <1>5, <2>2 DEF At
        <3>2. before \in Sessions
            BY <1>1, <3>1
        <3>3. next[before] = x
            BY <1>3, <3>2
        <3>4. QED
            BY <3>1, <3>3 DEF At
    <2>3. CASE i = k
        BY <1>1, <1>3, <1>5, <2>3 DEF At
    <2>4. CASE i > k
        <3>1. i - 1 \in 1 .. n /\ ~(i < k) /\ i # k /\ t[i] = s[i - 1] /\ i - 1 + 1 = i
            BY <1>1, <1>5, <2>4
        <3>2. s[i - 1] # before /\ s[i - 1] # x /\ s[i - 1] \in Sessions
            BY <1>1, <1>3, <2>4, <3>1 DEF At
        <3>3. next[t[i]] = At(s, n, i)
            BY <1>1, <3>1, <3>2
        <3>4. At(t, n + 1, i + 1) = At(s, n, i)
            BY <1>1, <1>5, <2>4 DEF At
        <3>5. QED
            BY <3>3, <3>4
    <2>5. QED
        BY <2>1, <2>2, <2>3, <2>4
<1>9. ASSUME NEW i \in 1 .. (n + 1) PROVE prev[t[i]] = At(t, n + 1, i - 1)
    <2>1. CASE i < k
        BY <1>1, <1>3, <1>5, <2>1 DEF At, ListRecords
    <2>2. CASE i = k
        BY <1>1, <1>3, <1>5, <2>2 DEF At, ListRecords
    <2>3. CASE i = k + 1
        BY <1>1, <1>3, <1>5, <2>3 DEF At, ListRecords
    <2>4. CASE i > k + 1
        BY <1>1, <1>3, <1>5, <2>4 DEF At, ListRecords
    <2>5. QED
        BY <2>1, <2>2, <2>3, <2>4
<1> HIDE DEF head, prev, next
<1>10. r \in ListRecords
    BY <1>1, <1>2, <1>4 DEF ListRecords
<1>11. QED
    BY <1>2, <1>5, <1>6, <1>7, <1>8, <1>9, <1>10 DEF Links, r, t

(* Both of what puts a session last.                                       *)
LEMMA LastLinks ==
    ASSUME NEW l, NEW s, NEW n, Links(l, s, n), NEW x \in Sessions, x \notin Holds(s, n), NEW r,
           NEW next \in [Sessions -> Pointers], NEW prev \in [Sessions -> Pointers],
           r = [head |-> IF l.head = None THEN x ELSE l.head, terminal |-> x,
                length |-> l.length + 1, next |-> next, prev |-> prev],
           next[x] = None, prev[x] = l.terminal,
           \A q \in Sessions \ {x} :
               next[q] = (IF q = l.terminal THEN x ELSE l.next[q]) /\ prev[q] = l.prev[q]
    PROVE  Links(r, Greater(s, n, n + 1, x), n + 1)
<1> DEFINE t == Greater(s, n, n + 1, x)
           head == IF l.head = None THEN x ELSE l.head
<1>1. /\ n \in Nat /\ s \in [1 .. n -> Sessions]
      /\ \A i, j \in 1 .. n : s[i] = s[j] => i = j
      /\ l \in ListRecords /\ l.head = At(s, n, 1) /\ l.terminal = At(s, n, n) /\ l.length = n
      /\ \A i \in 1 .. n : l.next[s[i]] = At(s, n, i + 1) /\ l.prev[s[i]] = At(s, n, i - 1)
      /\ \A i \in 1 .. n : s[i] # None /\ s[i] # x
      /\ Distinct(s, n) /\ x # None
    <2>1. Distinct(s, n)
        BY DEF Links
    <2>2. /\ n \in Nat /\ s \in [1 .. n -> Sessions]
          /\ \A i, j \in 1 .. n : s[i] = s[j] => i = j
        BY <2>1 DEF Distinct
    <2>3. /\ x # None
          /\ \A i \in 1 .. n : s[i] # None /\ s[i] # x
        BY <2>2, SessionsAssumption DEF Holds
    <2>4. QED
        BY <2>1, <2>2, <2>3 DEF Links
<1>2. /\ Distinct(t, n + 1)
      /\ \A i \in 1 .. (n + 1) :
            t[i] = IF i < n + 1 THEN s[i] ELSE IF i = n + 1 THEN x ELSE s[i - 1]
    <2>1. Distinct(s, n) /\ n + 1 \in 1 .. (n + 1)
        BY <1>1
    <2>2. QED
        BY <2>1, GreaterIs
<1> HIDE DEF t
<1>3. head = At(t, n + 1, 1) /\ head \in Pointers
    BY <1>1, <1>2 DEF At, Pointers
<1>4. x = At(t, n + 1, n + 1) /\ x \in Pointers
    BY <1>1, <1>2 DEF At, Pointers
<1>5. ASSUME NEW i \in 1 .. (n + 1) PROVE next[t[i]] = At(t, n + 1, i + 1)
    <2>1. CASE i < n
        BY <1>1, <1>2, <2>1 DEF At
    <2>2. CASE i = n
        BY <1>1, <1>2, <2>2 DEF At
    <2>3. CASE i = n + 1
        BY <1>1, <1>2, <2>3 DEF At
    <2>4. QED
        BY <1>1, <2>1, <2>2, <2>3
<1>6. ASSUME NEW i \in 1 .. (n + 1) PROVE prev[t[i]] = At(t, n + 1, i - 1)
    <2>1. CASE i < n + 1
        BY <1>1, <1>2, <2>1 DEF At
    <2>2. CASE i = n + 1
        BY <1>1, <1>2, <2>2 DEF At
    <2>3. QED
        BY <1>1, <2>1, <2>2
<1> HIDE DEF head
<1>7. r \in ListRecords
    BY <1>1, <1>3, <1>4 DEF ListRecords, head
<1>8. QED
    BY <1>1, <1>2, <1>3, <1>4, <1>5, <1>6, <1>7 DEF Links, head, t

LEMMA PlaceLastLinks ==
    ASSUME NEW l, NEW s, NEW n, Links(l, s, n), NEW x \in Sessions, x \notin Holds(s, n)
    PROVE  Links(PlacedLast(l, x), Greater(s, n, n + 1, x), n + 1)
<1> DEFINE next == [q \in Sessions |-> CASE q = x -> None
                                       [] q # x /\ q = l.terminal -> x
                                       [] OTHER -> l.next[q]]
           prev == [l.prev EXCEPT ![x] = l.terminal]
           r == PlacedLast(l, x)
<1>1. l \in ListRecords
    BY DEF Links
<1>2. next \in [Sessions -> Pointers] /\ prev \in [Sessions -> Pointers]
    BY <1>1 DEF ListRecords, Pointers
<1>3. /\ next[x] = None /\ prev[x] = l.terminal
      /\ \A q \in Sessions \ {x} :
            next[q] = (IF q = l.terminal THEN x ELSE l.next[q]) /\ prev[q] = l.prev[q]
    BY <1>1 DEF ListRecords
<1>4. r = [head |-> IF l.head = None THEN x ELSE l.head, terminal |-> x,
           length |-> l.length + 1, next |-> next, prev |-> prev]
    <2> DEFINE head == IF l.head = None THEN x ELSE l.head
    <2>1. r = [l EXCEPT !.prev = prev, !.next = next, !.terminal = x, !.head = head,
                        !.length = l.length + 1]
        BY <1>1 DEF PlacedLast, ListRecords
    <2> HIDE DEF next, prev, head, r
    <2>2. r = [head |-> head, terminal |-> x, length |-> l.length + 1, next |-> next, prev |-> prev]
        BY <1>1, <2>1 DEF ListRecords
    <2>3. QED
        BY <2>2 DEF head
<1> HIDE DEF next, prev, r
<1>5. QED
    BY <1>2, <1>3, <1>4, LastLinks DEF r

LEMMA AppendLinks ==
    ASSUME NEW l, NEW s, NEW n, Links(l, s, n), NEW x \in Sessions, x \notin Holds(s, n)
    PROVE  Links(LIST_APPEND([l EXCEPT !.next[x] = None, !.prev[x] = None], x),
                 Greater(s, n, n + 1, x), n + 1)
<1> DEFINE fresh == [l.next EXCEPT ![x] = None]
           next == IF l.terminal = None THEN fresh ELSE [fresh EXCEPT ![l.terminal] = x]
           prev == [[l.prev EXCEPT ![x] = None] EXCEPT ![x] = l.terminal]
           m == [l EXCEPT !.next[x] = None, !.prev[x] = None]
           r == LIST_APPEND(m, x)
<1>1. l \in ListRecords /\ l.terminal = At(s, n, n) /\ Distinct(s, n)
    BY DEF Links
<1>2. l.terminal # x
    BY <1>1, SessionsAssumption DEF At, Holds
<1>3. next \in [Sessions -> Pointers] /\ prev \in [Sessions -> Pointers]
    BY <1>1 DEF ListRecords, Pointers
<1>4. /\ next[x] = None /\ prev[x] = l.terminal
      /\ \A q \in Sessions \ {x} :
            next[q] = (IF q = l.terminal THEN x ELSE l.next[q]) /\ prev[q] = l.prev[q]
    BY <1>1, <1>2, SessionsAssumption DEF ListRecords
<1>5. m = [head |-> l.head, terminal |-> l.terminal, length |-> l.length,
           next |-> fresh, prev |-> [l.prev EXCEPT ![x] = None]]
    <2> DEFINE gone == [l.prev EXCEPT ![x] = None]
    <2>1. m = [l EXCEPT !.next = fresh, !.prev = gone]
        BY <1>1 DEF ListRecords
    <2> HIDE DEF fresh, gone, m
    <2>2. m = [head |-> l.head, terminal |-> l.terminal, length |-> l.length,
               next |-> fresh, prev |-> gone]
        BY <1>1, <2>1 DEF ListRecords
    <2>3. QED
        BY <2>2 DEF gone
<1>6. r = [head |-> IF l.head = None THEN x ELSE l.head, terminal |-> x,
           length |-> l.length + 1, next |-> next, prev |-> prev]
    <2> DEFINE head == IF l.head = None THEN x ELSE l.head
               gone == [l.prev EXCEPT ![x] = None]
    <2>1. /\ m = [head |-> l.head, terminal |-> l.terminal, length |-> l.length,
                  next |-> fresh, prev |-> gone]
          /\ prev = [gone EXCEPT ![x] = l.terminal]
        BY <1>5
    <2> HIDE DEF m, fresh, gone
    <2>2. r = [m EXCEPT !.head = head, !.prev = prev, !.next = next, !.terminal = x,
                        !.length = l.length + 1]
        BY <2>1 DEF LIST_APPEND
    <2> HIDE DEF next, prev, head, r
    <2>3. r = [head |-> head, terminal |-> x, length |-> l.length + 1, next |-> next, prev |-> prev]
        BY <2>1, <2>2
    <2>4. QED
        BY <2>3 DEF head
<1> HIDE DEF m
<1> HIDE DEF next, prev, r
<1>7. QED
    BY <1>3, <1>4, <1>6, LastLinks DEF r, m

-----------------------------------------------------------------------------
(* LIST_FOREACH along links that pass the sessions of t, each once.        *)
Along(t, m, first, link) ==
    /\ Distinct(t, m)
    /\ first = At(t, m, 1)
    /\ \A i \in 1 .. m : link[t[i]] = At(t, m, i + 1)

Begun(t, m, j) == [i \in 1 .. (IF j <= m THEN j ELSE m) |-> t[i]]

Walked(p, j, first, link) ==
    LET node == IF j = 1 THEN first ELSE IF Len(p) = j - 1 THEN link[Last(p)] ELSE None
    IN  IF node = None THEN p ELSE Append(p, node)

LEMMA OneFurther ==
    ASSUME NEW t, NEW m, NEW first, NEW link, Along(t, m, first, link), NEW j \in Nat \ {0}
    PROVE  Walked(Begun(t, m, j - 1), j, first, link) = Begun(t, m, j)
<1> DEFINE p == Begun(t, m, j - 1)
           k == IF j - 1 <= m THEN j - 1 ELSE m
<1>1. /\ m \in Nat /\ t \in [1 .. m -> Sessions]
      /\ first = At(t, m, 1)
      /\ \A i \in 1 .. m : link[t[i]] = At(t, m, i + 1)
    BY DEF Along, Distinct
<1>2. \A i \in 1 .. m : t[i] \in Sessions /\ t[i] # None
    BY <1>1, SessionsAssumption
<1>3. k \in Nat /\ k <= m
    BY <1>1
<1>4. p \in [1 .. k -> Sessions] /\ \A i \in 1 .. k : p[i] = t[i]
    BY <1>1, <1>3 DEF Begun
<1>5. p \in Seq(Sessions) /\ Len(p) = k
    <2> HIDE DEF p, k
    <2>1. p \in Seq(Sessions)
        BY <1>3, <1>4, SeqDef
    <2>2. Len(p) \in Nat /\ DOMAIN p = 1 .. Len(p) /\ DOMAIN p = 1 .. k
        BY <1>4, <2>1, LenProperties
    <2>3. PICK d \in Nat : d = Len(p) /\ 1 .. d = 1 .. k
        BY <2>2, Zenon
    <2>4. d = k
        <3>1. 1 .. d = 1 .. k
            BY <2>3
        <3>2. QED
            BY <1>3, <3>1
    <2>5. QED
        BY <2>1, <2>3, <2>4
<1> HIDE DEF p
<1>6. CASE j <= m
    <2>1. k = j - 1 /\ j \in 1 .. m
        BY <1>1, <1>6
    <2>2. Walked(p, j, first, link) = Append(p, t[j])
        <3>1. CASE j = 1
            BY <1>1, <1>2, <2>1, <3>1 DEF Walked, At
        <3>2. CASE j # 1
            <4>1. j - 1 \in 1 .. m /\ j - 1 \in 1 .. k /\ j - 1 + 1 = j
                BY <1>1, <1>6, <2>1, <3>2
            <4>2. Last(p) = t[j - 1]
                BY <1>4, <1>5, <2>1, <4>1 DEF Last
            <4>3. link[t[j - 1]] = t[j]
                BY <1>1, <2>1, <4>1 DEF At
            <4>4. QED
                BY <1>2, <1>5, <2>1, <3>2, <4>2, <4>3 DEF Walked
        <3>3. QED
            BY <3>1, <3>2
    <2>3. Append(p, t[j]) = Begun(t, m, j)
        <3>1. Append(p, t[j]) = [i \in 1 .. (k + 1) |-> IF i \in 1 .. k THEN p[i] ELSE t[j]]
            <4>1. Append(p, t[j]) = [i \in 1 .. (Len(p) + 1) |->
                                       IF i \in 1 .. Len(p) THEN p[i] ELSE t[j]]
                BY <1>2, <1>5, <2>1 DEF Append
            <4>2. QED
                BY <1>5, <4>1
        <3>2. k + 1 = j /\ \A i \in 1 .. j : i \in 1 .. k \/ i = j
            <4> HIDE DEF k
            <4>1. k + 1 = j /\ k \in Nat
                BY <1>3, <2>1
            <4>2. QED
                BY <4>1
        <3>3. \A i \in 1 .. j : (IF i \in 1 .. k THEN p[i] ELSE t[j]) = t[i]
            BY <1>4, <3>2
        <3>4. Append(p, t[j]) = [i \in 1 .. j |-> t[i]]
            BY <3>1, <3>2, <3>3
        <3>5. QED
            BY <1>6, <3>4 DEF Begun
    <2>4. QED
        BY <2>2, <2>3 DEF p
<1>7. CASE ~(j <= m)
    <2>1. k = m
        BY <1>1, <1>7
    <2>2. Begun(t, m, j) = p
        BY <1>1, <1>7, <2>1 DEF Begun, p
    <2>3. CASE j = 1
        <3>1. first = None
            BY <1>1, <1>7, <2>3 DEF At
        <3>2. QED
            BY <2>2, <2>3, <3>1 DEF Walked, p
    <2>4. CASE j # 1 /\ j - 1 = m
        <3>1. m \in 1 .. m /\ m \in 1 .. k
            BY <1>1, <2>1, <2>4
        <3>2. Last(p) = t[m]
            BY <1>4, <1>5, <2>1, <3>1 DEF Last
        <3>3. link[t[m]] = None
            BY <1>1, <3>1 DEF At
        <3>4. Walked(p, j, first, link) = p
            BY <1>5, <2>1, <2>4, <3>2, <3>3 DEF Walked
        <3>5. QED
            BY <2>2, <3>4 DEF p
    <2>5. CASE j # 1 /\ j - 1 # m
        <3>1. Walked(p, j, first, link) = p
            BY <1>5, <2>1, <2>5 DEF Walked
        <3>2. QED
            BY <2>2, <3>1 DEF p
    <2>6. QED
        BY <2>3, <2>4, <2>5
<1>8. QED
    BY <1>6, <1>7

(* It goes through them in that order.                                     *)
LEMMA ChainIs ==
    ASSUME NEW t, NEW m, NEW first, NEW link, Along(t, m, first, link)
    PROVE  Chain(first, link) = t
<1> DEFINE c == Cardinality(Sessions)
           Step(f, j) == IF j = 0 THEN << >>
                         ELSE LET node == IF j = 1 THEN first
                                          ELSE IF Len(f[j - 1]) = j - 1 THEN link[Last(f[j - 1])] ELSE None
                              IN IF node = None THEN f[j - 1] ELSE Append(f[j - 1], node)
           whole == [j \in 0 .. (c + 1) |-> Begun(t, m, j)]
           walk == CHOOSE f : f = [j \in 0 .. (c + 1) |-> Step(f, j)]
<1>1. m \in Nat /\ t \in [1 .. m -> Sessions] /\ c \in Nat
    BY SessionsAssumption, FS_CardinalityType DEF Along, Distinct
<1>2. Chain(first, link) = walk[c + 1]
    BY DEF Chain
<1>3. ASSUME NEW f, NEW j \in Nat \ {0}, f[j - 1] = Begun(t, m, j - 1)
      PROVE  Step(f, j) = Begun(t, m, j)
    BY <1>3, OneFurther DEF Walked
<1>4. Begun(t, m, 0) = << >>
    BY <1>1 DEF Begun
<1>5. ASSUME NEW j \in 0 .. (c + 1) PROVE whole[j] = Step(whole, j)
    <2>1. CASE j = 0
        BY <1>4, <2>1
    <2>2. CASE j # 0
        <3>1. j \in Nat \ {0} /\ j - 1 \in 0 .. (c + 1)
            BY <1>1, <2>2
        <3>2. whole[j - 1] = Begun(t, m, j - 1) /\ whole[j] = Begun(t, m, j)
            BY <3>1
        <3> HIDE DEF whole, Step
        <3>3. QED
            BY <1>3, <3>1, <3>2
    <2>3. QED
        BY <2>1, <2>2
<1>6. walk = [j \in 0 .. (c + 1) |-> Step(walk, j)]
    <2>1. whole = [j \in 0 .. (c + 1) |-> Step(whole, j)]
        <3> HIDE DEF Step
        <3>1. QED
            BY <1>5
    <2> HIDE DEF Step, whole
    <2>2. QED
        BY <2>1
<1>7. \A j \in 0 .. (c + 1) : walk[j] = Step(walk, j)
    <2> HIDE DEF Step, walk
    <2>1. QED
        BY <1>6
<1> DEFINE Good == {j \in 0 .. (c + 1) : walk[j] = Begun(t, m, j)}
<1>8. 0 \in Good
    <2>1. 0 \in 0 .. (c + 1)
        BY <1>1
    <2>2. Step(walk, 0) = << >>
        OBVIOUS
    <2> HIDE DEF Step, walk
    <2>3. QED
        BY <1>4, <1>7, <2>1, <2>2
<1>9. ASSUME NEW j \in 1 .. (c + 1), j - 1 \in Good PROVE j \in Good
    <2>1. j \in Nat \ {0} /\ j \in 0 .. (c + 1)
        BY <1>1
    <2> HIDE DEF Step, walk
    <2>2. QED
        BY <1>3, <1>7, <1>9, <2>1
<1>10. c + 1 \in Good
    <2>1. Good \in SUBSET (0 .. (c + 1)) /\ c + 1 \in Nat /\ c + 1 \in 0 .. (c + 1)
        BY <1>1
    <2> HIDE DEF Good, c
    <2>2. QED
        BY <1>8, <1>9, <2>1, UpTo
<1>11. m <= c
    <2>1. t \in Injection(1 .. m, Sessions)
        BY DEF Along, Distinct, Injection, IsInjective
    <2>2. Cardinality(1 .. m) = m
        BY <1>1, FS_Interval
    <2>3. QED
        BY <2>1, <2>2, SessionsAssumption, FS_Injection
<1>12. Begun(t, m, c + 1) = t
    BY <1>1, <1>11 DEF Begun
<1> HIDE DEF walk
<1>13. QED
    BY <1>2, <1>10, <1>12

-----------------------------------------------------------------------------
(* A session earlier in the list has no fewer players than a later one.    *)
Sorted(s, n, count) == \A i, j \in 1 .. n : i < j => count[s[i]] >= count[s[j]]

(* That was so when the k-th session had old_length players.               *)
SortedBefore(s, n, k, count, old_length) ==
    /\ \A i, j \in 1 .. n : i < j /\ i # k /\ j # k => count[s[i]] >= count[s[j]]
    /\ \A i \in 1 .. n : /\ i < k => count[s[i]] >= old_length
                         /\ i > k => old_length >= count[s[i]]

LEMMA LesserSorted ==
    ASSUME NEW s, NEW n, Distinct(s, n), NEW k \in 1 .. n, NEW count, NEW old_length,
           SortedBefore(s, n, k, count, old_length)
    PROVE  Sorted(Lesser(s, n, k), n - 1, count)
<1> DEFINE t == Lesser(s, n, k)
<1>1. n \in Nat /\ \A i \in 1 .. (n - 1) : t[i] = IF i < k THEN s[i] ELSE s[i + 1]
    BY LesserIs DEF Distinct
<1>2. SUFFICES ASSUME NEW i \in 1 .. (n - 1), NEW j \in 1 .. (n - 1), i < j
               PROVE  count[t[i]] >= count[t[j]]
    BY DEF Sorted
<1> DEFINE a == IF i < k THEN i ELSE i + 1
           b == IF j < k THEN j ELSE j + 1
<1>3. a \in 1 .. n /\ b \in 1 .. n /\ a < b /\ a # k /\ b # k
    BY <1>1, <1>2
<1>4. t[i] = s[a] /\ t[j] = s[b]
    BY <1>1
<1> HIDE DEF t, a, b
<1>5. QED
    BY <1>3, <1>4 DEF SortedBefore

LEMMA GreaterSorted ==
    ASSUME NEW s, NEW n, Distinct(s, n), NEW k \in 1 .. (n + 1), NEW x \in Sessions,
           x \notin Holds(s, n), NEW count, count \in [Sessions -> Nat], Sorted(s, n, count),
           \A i \in 1 .. n : /\ i < k => count[s[i]] >= count[x]
                             /\ i >= k => count[x] >= count[s[i]]
    PROVE  Sorted(Greater(s, n, k, x), n + 1, count)
<1> DEFINE t == Greater(s, n, k, x)
<1>1. /\ n \in Nat
      /\ \A i \in 1 .. (n + 1) : t[i] = IF i < k THEN s[i] ELSE IF i = k THEN x ELSE s[i - 1]
    BY GreaterIs DEF Distinct
<1>2. SUFFICES ASSUME NEW i \in 1 .. (n + 1), NEW j \in 1 .. (n + 1), i < j
               PROVE  count[t[i]] >= count[t[j]]
    BY DEF Sorted
<1> HIDE DEF t
<1>3. CASE i = k
    <2>1. j - 1 \in 1 .. n /\ j - 1 >= k /\ ~(j < k) /\ j # k /\ ~(i < k)
        BY <1>1, <1>2, <1>3
    <2>2. QED
        BY <1>1, <1>3, <2>1
<1>4. CASE j = k
    <2>1. i \in 1 .. n /\ i < k /\ ~(j < k)
        BY <1>1, <1>2, <1>4
    <2>2. QED
        BY <1>1, <1>4, <2>1
<1>5. CASE i # k /\ j # k
    <2> DEFINE a == IF i < k THEN i ELSE i - 1
               b == IF j < k THEN j ELSE j - 1
    <2>1. a \in 1 .. n /\ b \in 1 .. n /\ a < b
        BY <1>1, <1>2, <1>5
    <2>2. t[i] = s[a] /\ t[j] = s[b]
        BY <1>1, <1>5
    <2> HIDE DEF a, b
    <2>3. QED
        BY <2>1, <2>2 DEF Sorted
<1>6. QED
    BY <1>3, <1>4, <1>5

(* Where reorder_updated_session looks for a place.                        *)
From(r, n, b) == [i \in 1 .. (n - b) |-> r[i + b - 1]]

LEMMA FromIs ==
    ASSUME NEW l, NEW r, NEW n, n \in Nat \ {0}, Links(l, r, n - 1), NEW b \in 1 .. n
    PROVE  /\ Chain(At(r, n - 1, b), l.next) = From(r, n, b)
           /\ DOMAIN From(r, n, b) = 1 .. (n - b)
           /\ \A i \in 1 .. (n - b) : From(r, n, b)[i] = r[i + b - 1] /\ i + b - 1 \in 1 .. (n - 1)
<1> DEFINE t == From(r, n, b)
<1>1. /\ r \in [1 .. (n - 1) -> Sessions]
      /\ \A i, j \in 1 .. (n - 1) : r[i] = r[j] => i = j
      /\ \A i \in 1 .. (n - 1) : l.next[r[i]] = At(r, n - 1, i + 1)
    BY DEF Links, Distinct
<1>2. DOMAIN t = 1 .. (n - b) /\ \A i \in 1 .. (n - b) : t[i] = r[i + b - 1]
    BY DEF From
<1>3. n - b \in Nat /\ \A i \in 1 .. (n - b) : i + b - 1 \in 1 .. (n - 1)
    OBVIOUS
<1>4. t \in [1 .. (n - b) -> Sessions]
    BY <1>1, <1>3 DEF From
<1> HIDE DEF t
<1>5. \A i, j \in 1 .. (n - b) : t[i] = t[j] => i = j
    <2>1. ASSUME NEW i \in 1 .. (n - b), NEW j \in 1 .. (n - b), t[i] = t[j] PROVE i = j
        <3>1. i + b - 1 = j + b - 1
            BY <1>1, <1>2, <1>3, <2>1
        <3>2. QED
            BY <1>3, <3>1
    <2>2. QED
        BY <2>1
<1>6. At(r, n - 1, b) = At(t, n - b, 1)
    BY <1>2, <1>3 DEF At
<1>7. ASSUME NEW i \in 1 .. (n - b) PROVE l.next[t[i]] = At(t, n - b, i + 1)
    <2>1. l.next[t[i]] = At(r, n - 1, i + b - 1 + 1)
        BY <1>1, <1>2, <1>3
    <2>2. CASE i = n - b
        BY <1>3, <2>1, <2>2 DEF At
    <2>3. CASE i # n - b
        <3>1. i + 1 \in 1 .. (n - b) /\ i + 1 + b - 1 = i + b - 1 + 1
            BY <1>3, <2>3
        <3>2. i + b - 1 + 1 \in 1 .. (n - 1)
            BY <1>3, <3>1
        <3>3. QED
            BY <1>2, <2>1, <3>1, <3>2 DEF At
    <2>4. QED
        BY <2>2, <2>3
<1>8. Along(t, n - b, At(r, n - 1, b), l.next)
    BY <1>3, <1>4, <1>5, <1>6, <1>7 DEF Along, Distinct
<1>9. QED
    BY <1>2, <1>3, <1>8, ChainIs DEF t

(* The least of some numbers.                                              *)
LEMMA MinIs ==
    ASSUME NEW S \in SUBSET Nat, S # {}
    PROVE  Min(S) \in S /\ \A x \in S : Min(S) <= x
<1>1. \E x \in S : \A y \in S : x <= y
    BY LeastNat
<1>2. QED
    BY <1>1 DEF Min

(* Reordering keeps the list a list of the same sessions, and in order.    *)
LEMMA ReorderedLinks ==
    ASSUME NEW l, NEW s, NEW n, Links(l, s, n), NEW k \in 1 .. n,
           NEW count \in [Sessions -> Nat], NEW old_length \in Nat
    PROVE  \E t : /\ Links(Reordered(l, s[k], count, old_length), t, n)
                  /\ Holds(t, n) = Holds(s, n)
                  /\ SortedBefore(s, n, k, count, old_length) => Sorted(t, n, count)
<1> DEFINE u == s[k]
           fewer == count[u] < old_length
           removed == LIST_REMOVE(l, u)
           r == Lesser(s, n, k)
           b == IF fewer THEN k ELSE 1
           from == From(r, n, b)
           lower == {i \in DOMAIN from : count[from[i]] <= count[u]}
           stays == \/ count[u] = old_length
                    \/ fewer /\ u = l.terminal
                    \/ ~fewer /\ u = l.head
           new == Reordered(l, u, count, old_length)
<1>1. /\ Distinct(s, n) /\ n \in Nat \ {0} /\ s \in [1 .. n -> Sessions]
      /\ \A i, j \in 1 .. n : s[i] = s[j] => i = j
      /\ u \in Sessions /\ l.head = At(s, n, 1) /\ l.terminal = At(s, n, n)
      /\ l.next[u] = At(s, n, k + 1)
    BY DEF Links, Distinct
<1>2. \A q \in Sessions : count[q] \in Nat
    OBVIOUS
<1>3. CASE stays
    <2>1. new = l
        BY <1>3 DEF Reordered
    <2>2. ASSUME SortedBefore(s, n, k, count, old_length), NEW i \in 1 .. n, NEW j \in 1 .. n, i < j
          PROVE  count[s[i]] >= count[s[j]]
        <3>1. (fewer /\ u = l.terminal) => k = n
            BY <1>1 DEF At
        <3>2. (~fewer /\ u = l.head) => k = 1
            BY <1>1 DEF At
        <3>3. CASE i # k /\ j # k
            BY <2>2, <3>3 DEF SortedBefore
        <3>4. CASE i = k
            <4>1. j \in 1 .. n /\ j > k /\ k # n
                BY <1>1, <2>2, <3>4
            <4>2. old_length >= count[s[j]] /\ count[u] >= old_length
                BY <1>1, <1>2, <1>3, <2>2, <3>1, <4>1 DEF SortedBefore
            <4>3. s[j] \in Sessions
                BY <1>1
            <4>4. QED
                BY <1>1, <1>2, <3>4, <4>2, <4>3
        <3>5. CASE j = k
            <4>1. i < k /\ k # 1
                BY <1>1, <2>2, <3>5
            <4>2. count[s[i]] >= old_length /\ old_length >= count[u]
                BY <1>1, <1>2, <1>3, <2>2, <3>2, <4>1 DEF SortedBefore
            <4>3. s[i] \in Sessions
                BY <1>1
            <4>4. QED
                BY <1>1, <1>2, <3>5, <4>2, <4>3
        <3>6. QED
            BY <3>3, <3>4, <3>5
    <2>3. QED
        BY <2>1, <2>2 DEF Sorted
<1>4. CASE ~stays
    <2>1. Links(removed, r, n - 1)
        BY RemoveLinks
    <2>2. /\ Distinct(r, n - 1) /\ Holds(r, n - 1) = Holds(s, n) \ {u}
          /\ \A i \in 1 .. (n - 1) : r[i] = IF i < k THEN s[i] ELSE s[i + 1]
        <3>1. Distinct(s, n) /\ k \in 1 .. n
            BY <1>1
        <3>2. QED
            BY <3>1, LesserIs
    <2>3. u \notin Holds(r, n - 1) /\ Holds(r, n - 1) \cup {u} = Holds(s, n)
        BY <2>2 DEF Holds
    <2>4. \A i \in 1 .. (n - 1) : r[i] \in Sessions
        BY <2>2 DEF Distinct
    <2> HIDE DEF r
    <2>5. b \in 1 .. n
        BY <1>1
    <2>6. /\ Chain(At(r, n - 1, b), removed.next) = from
          /\ DOMAIN from = 1 .. (n - b)
          /\ \A i \in 1 .. (n - b) : from[i] = r[i + b - 1] /\ i + b - 1 \in 1 .. (n - 1)
        <3>1. n \in Nat \ {0} /\ Links(removed, r, n - 1) /\ b \in 1 .. n
            BY <1>1, <2>1, <2>5
        <3> HIDE DEF removed, b
        <3>2. QED
            BY <3>1, FromIs
    <2>7. (IF fewer THEN l.next[u] ELSE removed.head) = At(r, n - 1, b)
        <3>1. removed.head = At(r, n - 1, 1)
            BY <2>1 DEF Links
        <3>2. l.next[u] = At(r, n - 1, k)
            BY <1>1, <2>2 DEF At
        <3>3. QED
            BY <3>1, <3>2
    <2>8. new = IF lower = {} THEN PlacedLast(removed, u)
                ELSE PlacedBefore(removed, u, from[Min(lower)])
        <3>1. Chain(IF fewer THEN l.next[u] ELSE removed.head, removed.next) = from
            BY <2>6, <2>7
        <3> HIDE DEF from
        <3>2. QED
            BY <1>4, <3>1 DEF Reordered
    <2> HIDE DEF from, removed
    <2>9. ASSUME SortedBefore(s, n, k, count, old_length)
          PROVE  /\ Sorted(r, n - 1, count)
                 /\ \A i \in 1 .. (n - 1) : i < b => count[r[i]] >= count[u]
        <3>1. Sorted(r, n - 1, count)
            BY <1>1, <2>9, LesserSorted DEF r
        <3>2. ASSUME NEW i \in 1 .. (n - 1), i < b PROVE count[r[i]] >= count[u]
            <4>1. fewer /\ i < k /\ i \in 1 .. n
                BY <1>1, <3>2
            <4>2. r[i] = s[i] /\ count[s[i]] >= old_length
                BY <2>2, <2>9, <4>1 DEF SortedBefore
            <4>3. count[r[i]] \in Nat /\ count[u] \in Nat
                BY <1>1, <1>2, <2>4
            <4>4. QED
                BY <4>1, <4>2, <4>3
        <3>3. QED
            BY <3>1, <3>2
    <2>10. \A i \in 1 .. (n - 1) : i >= b =>
              i - b + 1 \in DOMAIN from /\ r[i] = from[i - b + 1]
        <3>1. ASSUME NEW i \in 1 .. (n - 1), i >= b
              PROVE  i - b + 1 \in 1 .. (n - b) /\ i - b + 1 + b - 1 = i
            BY <1>1, <2>5, <3>1
        <3>2. QED
            BY <2>6, <3>1
    <2>11. CASE lower = {}
        <3> DEFINE t == Greater(r, n - 1, n, u)
        <3>1. n - 1 + 1 = n /\ n \in 1 .. (n - 1 + 1)
            BY <1>1
        <3>2. Links(new, t, n)
            BY <1>1, <2>1, <2>3, <2>8, <2>11, <3>1, PlaceLastLinks
        <3>3. Holds(t, n) = Holds(s, n)
            <4>1. Holds(Greater(r, n - 1, n, u), n - 1 + 1) = Holds(r, n - 1) \cup {u}
                <5>1. /\ Distinct(r, n - 1) /\ u \in Sessions /\ u \notin Holds(r, n - 1)
                      /\ n \in 1 .. (n - 1 + 1)
                    BY <1>1, <2>2, <2>3, <3>1
                <5> HIDE DEF r, t
                <5>2. QED
                    BY ONLY <5>1, GreaterIs
            <4>2. QED
                BY <2>3, <3>1, <4>1
        <3>4. ASSUME SortedBefore(s, n, k, count, old_length) PROVE Sorted(t, n, count)
            <4>1. ASSUME NEW i \in 1 .. (n - 1)
                  PROVE  (i < n => count[r[i]] >= count[u]) /\ (i >= n => count[u] >= count[r[i]])
                <5>1. ~(i >= n) /\ count[r[i]] \in Nat /\ count[u] \in Nat
                    BY <1>1, <1>2, <2>4
                <5>2. i >= b => ~(count[r[i]] <= count[u])
                    BY <2>10, <2>11
                <5>3. QED
                    BY <2>5, <2>9, <3>4, <5>1, <5>2
            <4>2. Sorted(Greater(r, n - 1, n, u), n - 1 + 1, count)
                BY <1>1, <2>2, <2>3, <2>9, <3>1, <3>4, <4>1, GreaterSorted
            <4>3. QED
                BY <3>1, <4>2
        <3>5. QED
            BY <3>2, <3>3, <3>4
    <2>12. CASE lower # {}
        <3> DEFINE g == Min(lower)
                   q == g + b - 1
                   t == Greater(r, n - 1, q, u)
        <3>1. g \in lower /\ \A i \in lower : g <= i
            <4>1. lower \in SUBSET Nat
                BY <2>6
            <4> HIDE DEF lower
            <4>2. QED
                BY <2>12, <4>1, MinIs
        <3> HIDE DEF g
        <3>2. g \in 1 .. (n - b) /\ from[g] = r[q] /\ q \in 1 .. (n - 1) /\ count[from[g]] <= count[u]
            BY <2>6, <3>1
        <3>3. n - 1 + 1 = n /\ q \in 1 .. (n - 1 + 1)
            BY <1>1, <3>2
        <3>4. new = PlacedBefore(removed, u, r[q])
            BY <2>8, <2>12, <3>2 DEF g
        <3> HIDE DEF q
        <3>5. Links(new, t, n)
            <4>1. Links(PlacedBefore(removed, u, r[q]), t, n - 1 + 1)
                BY <1>1, <2>1, <2>3, <3>2, PlaceLinks
            <4>2. QED
                BY <3>3, <3>4, <4>1
        <3>6. Holds(t, n) = Holds(s, n)
            <4>1. Holds(Greater(r, n - 1, q, u), n - 1 + 1) = Holds(r, n - 1) \cup {u}
                BY <1>1, <2>2, <2>3, <3>3, GreaterIs
            <4>2. QED
                BY <2>3, <3>3, <4>1
        <3>7. ASSUME SortedBefore(s, n, k, count, old_length) PROVE Sorted(t, n, count)
            <4>1. ASSUME NEW i \in 1 .. (n - 1)
                  PROVE  (i < q => count[r[i]] >= count[u]) /\ (i >= q => count[u] >= count[r[i]])
                <5>1. /\ count[r[i]] \in Nat /\ count[u] \in Nat /\ count[r[q]] \in Nat
                      /\ count[r[q]] <= count[u]
                    BY <1>1, <1>2, <2>4, <3>2
                <5>2. ASSUME i < q PROVE count[r[i]] >= count[u]
                    <6>1. CASE i < b
                        BY <2>9, <3>7, <6>1
                    <6>2. CASE i >= b
                        <7>1. i - b + 1 \in DOMAIN from /\ r[i] = from[i - b + 1]
                            BY <2>10, <6>2
                        <7>2. ~(g <= i - b + 1)
                            BY <2>5, <3>2, <5>2 DEF q
                        <7>3. ~(count[r[i]] <= count[u])
                            BY <3>1, <7>1, <7>2
                        <7>4. QED
                            BY <5>1, <7>3
                    <6>3. QED
                        BY <2>5, <6>1, <6>2
                <5>3. ASSUME i >= q PROVE count[u] >= count[r[i]]
                    <6>1. i = q \/ q < i
                        BY <3>3, <5>3
                    <6>2. i # q => count[r[q]] >= count[r[i]]
                        BY <2>9, <3>2, <3>7, <6>1 DEF Sorted
                    <6>3. QED
                        BY <3>3, <5>1, <5>3, <6>2
                <5>4. QED
                    BY <5>2, <5>3
            <4>2. Sorted(Greater(r, n - 1, q, u), n - 1 + 1, count)
                BY <1>1, <2>2, <2>3, <2>9, <3>3, <3>7, <4>1, GreaterSorted
            <4>3. QED
                BY <3>3, <4>2
        <3>8. QED
            BY <3>5, <3>6, <3>7
    <2>13. QED
        BY <2>11, <2>12
<1>5. QED
    BY <1>3, <1>4

-----------------------------------------------------------------------------
(* The inductive invariant: the pointers are those of a list of the listed *)
(* sessions, which is in order as long as no hand's end has spoiled it.    *)
ListInv ==
    /\ players \in [Sessions -> Nat]
    /\ \E s, n : /\ Links(list, s, n)
                 /\ Holds(s, n) = listed
                 /\ ~silent => Sorted(s, n, players)

LEMMA InitLinked == ListInit => ListInv
<1>1. SUFFICES ASSUME ListInit PROVE ListInv
    OBVIOUS
<1> DEFINE s == [i \in 1 .. 0 |-> None]
<1>2. Distinct(s, 0) /\ Holds(s, 0) = {} /\ Sorted(s, 0, players)
    BY DEF Distinct, Holds, Sorted
<1>3. list \in ListRecords
    BY <1>1 DEF ListInit, ListRecords, Pointers
<1>4. list.head = At(s, 0, 1) /\ list.terminal = At(s, 0, 0) /\ list.length = 0
    BY <1>1 DEF ListInit, At
<1> HIDE DEF s
<1>5. Links(list, s, 0)
    BY <1>2, <1>3, <1>4 DEF Links
<1>6. QED
    BY <1>1, <1>2, <1>5 DEF ListInv, ListInit

LEMMA AddKeepsLinked ==
    ASSUME ListInv, NEW x \in Sessions, AddSession(x)
    PROVE  ListInv'
<1>1. /\ players \in [Sessions -> Nat] /\ x \notin listed
      /\ list' = LIST_APPEND([list EXCEPT !.next[x] = None, !.prev[x] = None], x)
      /\ players' = [players EXCEPT ![x] = 0]
      /\ listed' = listed \cup {x} /\ silent' = silent
    BY DEF ListInv, AddSession
<1>2. PICK s, n : /\ Links(list, s, n) /\ Holds(s, n) = listed
                  /\ ~silent => Sorted(s, n, players)
    BY DEF ListInv
<1>3. /\ Distinct(s, n) /\ n \in Nat /\ n + 1 \in 1 .. (n + 1)
      /\ \A i \in 1 .. n : s[i] \in Sessions /\ s[i] # x
    <2>1. Distinct(s, n)
        BY <1>2 DEF Links
    <2>2. n \in Nat /\ \A i \in 1 .. n : s[i] \in Sessions
        BY <2>1 DEF Distinct
    <2>3. QED
        BY <1>1, <1>2, <2>1, <2>2 DEF Holds
<1> DEFINE t == Greater(s, n, n + 1, x)
<1>4. Links(list', t, n + 1)
    BY <1>1, <1>2, AppendLinks
<1>5. Holds(t, n + 1) = listed'
    BY <1>1, <1>2, <1>3, GreaterIs
<1>6. players' \in [Sessions -> Nat] /\ players'[x] = 0
      /\ \A i \in 1 .. n : players'[s[i]] = players[s[i]] /\ players[s[i]] \in Nat
    BY <1>1, <1>3
<1>7. ASSUME ~silent PROVE Sorted(t, n + 1, players')
    <2>1. Sorted(s, n, players')
        BY <1>2, <1>6, <1>7 DEF Sorted
    <2>2. ASSUME NEW i \in 1 .. n
          PROVE  /\ i < n + 1 => players'[s[i]] >= players'[x]
                 /\ i >= n + 1 => players'[x] >= players'[s[i]]
        BY <1>3, <1>6
    <2>3. QED
        BY <1>1, <1>2, <1>3, <1>6, <2>1, <2>2, GreaterSorted
<1> HIDE DEF t
<1>8. QED
    BY <1>1, <1>4, <1>5, <1>6, <1>7 DEF ListInv

LEMMA RemoveKeepsLinked ==
    ASSUME ListInv, NEW x \in Sessions, RemoveSession(x)
    PROVE  ListInv'
<1>1. /\ players \in [Sessions -> Nat] /\ x \in listed
      /\ list' = LIST_REMOVE(list, x) /\ players' = players
      /\ listed' = listed \ {x} /\ silent' = silent
    BY DEF ListInv, RemoveSession
<1>2. PICK s, n : /\ Links(list, s, n) /\ Holds(s, n) = listed
                  /\ ~silent => Sorted(s, n, players)
    BY DEF ListInv
<1>3. PICK k \in 1 .. n : s[k] = x
    BY <1>1, <1>2 DEF Holds
<1>4. Distinct(s, n) /\ n \in Nat
    BY <1>2 DEF Links, Distinct
<1> DEFINE t == Lesser(s, n, k)
<1>5. Links(list', t, n - 1)
    BY <1>1, <1>2, <1>3, RemoveLinks
<1>6. /\ Holds(t, n - 1) = listed'
      /\ \A i \in 1 .. (n - 1) : t[i] = IF i < k THEN s[i] ELSE s[i + 1]
    BY <1>1, <1>2, <1>3, <1>4, LesserIs
<1> HIDE DEF t
<1>7. ASSUME ~silent PROVE Sorted(t, n - 1, players')
    <2>1. ASSUME NEW i \in 1 .. (n - 1), NEW j \in 1 .. (n - 1), i < j
          PROVE  players[t[i]] >= players[t[j]]
        <3> DEFINE a == IF i < k THEN i ELSE i + 1
                   b == IF j < k THEN j ELSE j + 1
        <3>1. a \in 1 .. n /\ b \in 1 .. n /\ a < b
            BY <1>4, <2>1
        <3>2. t[i] = s[a] /\ t[j] = s[b]
            BY <1>6
        <3> HIDE DEF a, b
        <3>3. QED
            BY <1>2, <1>7, <3>1, <3>2 DEF Sorted
    <2>2. QED
        BY <1>1, <2>1 DEF Sorted
<1>8. QED
    BY <1>1, <1>5, <1>6, <1>7 DEF ListInv

LEMMA ChangeKeepsLinked ==
    ASSUME ListInv, NEW x \in Sessions, NEW m \in 0 .. MaxPlayers, ChangePlayers(x, m)
    PROVE  ListInv'
<1>1. /\ players \in [Sessions -> Nat] /\ x \in listed
      /\ players' = [players EXCEPT ![x] = m]
      /\ list' = Reordered(list, x, players', players[x])
      /\ listed' = listed /\ silent' = silent
    BY DEF ListInv, ChangePlayers
<1>2. PICK s, n : /\ Links(list, s, n) /\ Holds(s, n) = listed
                  /\ ~silent => Sorted(s, n, players)
    BY DEF ListInv
<1>3. PICK k \in 1 .. n : s[k] = x
    BY <1>1, <1>2 DEF Holds
<1>4. /\ n \in Nat /\ \A i \in 1 .. n : s[i] \in Sessions
      /\ \A i, j \in 1 .. n : s[i] = s[j] => i = j
    BY <1>2 DEF Links, Distinct
<1> DEFINE count == players'
<1>5. /\ count \in [Sessions -> Nat] /\ players[x] \in Nat
      /\ \A i \in 1 .. n : i # k => count[s[i]] = players[s[i]]
    <2>1. m \in Nat
        BY SessionsAssumption
    <2>2. QED
        BY <1>1, <1>3, <1>4, <2>1
<1>6. ASSUME ~silent PROVE SortedBefore(s, n, k, count, players[x])
    BY <1>2, <1>3, <1>4, <1>5, <1>6 DEF Sorted, SortedBefore
<1>7. PICK t : /\ Links(list', t, n) /\ Holds(t, n) = Holds(s, n)
               /\ SortedBefore(s, n, k, count, players[x]) => Sorted(t, n, count)
    <2> HIDE DEF count
    <2>1. \E t : /\ Links(Reordered(list, s[k], count, players[x]), t, n)
                 /\ Holds(t, n) = Holds(s, n)
                 /\ SortedBefore(s, n, k, count, players[x]) => Sorted(t, n, count)
        BY <1>2, <1>5, ReorderedLinks
    <2>2. list' = Reordered(list, s[k], count, players[x])
        BY <1>1, <1>3 DEF count
    <2>3. QED
        BY <2>1, <2>2
<1>8. QED
    BY <1>1, <1>2, <1>5, <1>6, <1>7 DEF ListInv

LEMMA FinishKeepsLinked ==
    ASSUME ListInv, NEW x \in Sessions, NEW m \in 0 .. MaxPlayers, FinishHand(x, m)
    PROVE  ListInv'
<1>1. /\ players \in [Sessions -> Nat] /\ players' = [players EXCEPT ![x] = m]
      /\ list' = Reordered(list, x, players', m)
      /\ listed' = listed /\ silent' = TRUE
    BY DEF ListInv, FinishHand
<1>2. players' \in [Sessions -> Nat] /\ players'[x] = m
    <2>1. m \in Nat
        BY SessionsAssumption
    <2>2. QED
        BY <1>1, <2>1
<1>3. list' = list
    BY <1>1, <1>2 DEF Reordered
<1>4. PICK s, n : Links(list, s, n) /\ Holds(s, n) = listed
    BY DEF ListInv
<1>5. QED
    BY <1>1, <1>2, <1>3, <1>4 DEF ListInv

LEMMA StepKeepsLinked == ListInv /\ [ListNext]_listVars => ListInv'
<1>1. SUFFICES ASSUME ListInv, [ListNext]_listVars PROVE ListInv'
    OBVIOUS
<1>2. ASSUME NEW x \in Sessions, AddSession(x) PROVE ListInv'
    BY <1>1, <1>2, AddKeepsLinked
<1>3. ASSUME NEW x \in Sessions, RemoveSession(x) PROVE ListInv'
    BY <1>1, <1>3, RemoveKeepsLinked
<1>4. ASSUME NEW x \in Sessions, NEW m \in 0 .. MaxPlayers, ChangePlayers(x, m) PROVE ListInv'
    BY <1>1, <1>4, ChangeKeepsLinked
<1>5. ASSUME NEW x \in Sessions, NEW m \in 0 .. MaxPlayers, FinishHand(x, m) PROVE ListInv'
    BY <1>1, <1>5, FinishKeepsLinked
<1>6. CASE UNCHANGED listVars
    <2>1. list' = list /\ players' = players /\ listed' = listed /\ silent' = silent
        BY <1>6 DEF listVars
    <2>2. QED
        BY <1>1, <2>1 DEF ListInv
<1>7. QED
    BY <1>1, <1>2, <1>3, <1>4, <1>5, <1>6 DEF ListNext

-----------------------------------------------------------------------------
(* Going through linked sessions gives them, in either direction.          *)
LEMMA LinkedChains ==
    ASSUME NEW l, NEW s, NEW n, Links(l, s, n)
    PROVE  /\ Chain(l.head, l.next) = s
           /\ Chain(l.terminal, l.prev) = [i \in 1 .. n |-> s[n - i + 1]]
           /\ s \in Seq(Sessions) /\ Len(s) = n /\ DOMAIN s = 1 .. n
           /\ Cardinality(Holds(s, n)) = n
<1>1. /\ Distinct(s, n) /\ n \in Nat /\ s \in [1 .. n -> Sessions]
      /\ \A i, j \in 1 .. n : s[i] = s[j] => i = j
      /\ l.head = At(s, n, 1) /\ l.terminal = At(s, n, n)
      /\ \A i \in 1 .. n : l.next[s[i]] = At(s, n, i + 1) /\ l.prev[s[i]] = At(s, n, i - 1)
    BY DEF Links, Distinct
<1>2. Chain(l.head, l.next) = s
    <2>1. Along(s, n, l.head, l.next)
        BY <1>1 DEF Along
    <2>2. QED
        BY <2>1, ChainIs
<1> DEFINE b == [i \in 1 .. n |-> s[n - i + 1]]
<1>3. Chain(l.terminal, l.prev) = b
    <2>1. \A i \in 1 .. n : b[i] = s[n - i + 1] /\ n - i + 1 \in 1 .. n
        BY <1>1
    <2>2. b \in [1 .. n -> Sessions]
        BY <1>1, <2>1
    <2> HIDE DEF b
    <2>3. ASSUME NEW i \in 1 .. n, NEW j \in 1 .. n, b[i] = b[j] PROVE i = j
        <3>1. n - i + 1 = n - j + 1
            BY <1>1, <2>1, <2>3
        <3>2. QED
            BY <1>1, <3>1
    <2>4. l.terminal = At(b, n, 1)
        BY <1>1, <2>1 DEF At
    <2>5. ASSUME NEW i \in 1 .. n PROVE l.prev[b[i]] = At(b, n, i + 1)
        <3>1. l.prev[b[i]] = At(s, n, n - i)
            <4>1. n - i + 1 - 1 = n - i
                BY <1>1
            <4>2. QED
                BY <1>1, <2>1, <4>1
        <3>2. CASE i = n
            BY <1>1, <3>1, <3>2 DEF At
        <3>3. CASE i # n
            <4>1. i + 1 \in 1 .. n /\ n - i \in 1 .. n /\ n - (i + 1) + 1 = n - i
                BY <1>1, <3>3
            <4>2. QED
                BY <2>1, <3>1, <4>1 DEF At
        <3>4. QED
            BY <3>2, <3>3
    <2>6. Distinct(b, n)
        BY <1>1, <2>2, <2>3 DEF Distinct
    <2>7. Along(b, n, l.terminal, l.prev)
        BY <2>4, <2>5, <2>6 DEF Along
    <2>8. QED
        BY <2>7, ChainIs
<1>4. s \in Seq(Sessions) /\ Len(s) = n /\ DOMAIN s = 1 .. n
    <2>1. s \in Seq(Sessions)
        BY <1>1, SeqDef
    <2>2. Len(s) \in Nat /\ DOMAIN s = 1 .. Len(s) /\ DOMAIN s = 1 .. n
        BY <1>1, <2>1, LenProperties
    <2>3. PICK d \in Nat : d = Len(s) /\ 1 .. d = 1 .. n
        BY <2>2, Zenon
    <2>4. d = n
        BY <1>1, <2>3
    <2>5. QED
        BY <2>1, <2>2, <2>3, <2>4
<1>5. Cardinality(Holds(s, n)) = n
    <2> DEFINE H == Holds(s, n)
    <2>1. s \in [1 .. n -> H] /\ \A q \in H : \E i \in 1 .. n : s[i] = q
        BY <1>1 DEF Holds
    <2>2. IsFiniteSet(1 .. n) /\ Cardinality(1 .. n) = n
        BY <1>1, FS_Interval
    <2> HIDE DEF H
    <2>3. s \in Surjection(1 .. n, H)
        BY <2>1 DEF Surjection
    <2>4. s \in Injection(1 .. n, H)
        BY <1>1, <2>1 DEF Injection, IsInjective
    <2>5. QED
        BY <2>2, <2>3, <2>4, FS_Surjection DEF H
<1>6. QED
    BY <1>2, <1>3, <1>4, <1>5

(* Wherever sessions are added, removed and moved, any number of them, the *)
(* list is forwards and backwards the sessions it should hold, each once,  *)
(* and its length is their number (sugar.h, lobby.c:1718-1780).            *)
THEOREM StaysLinked == ListSpec => []WellLinked
<1>1. ListInv => WellLinked
    <2>1. SUFFICES ASSUME ListInv PROVE WellLinked
        OBVIOUS
    <2>2. PICK s, n : Links(list, s, n) /\ Holds(s, n) = listed
        BY <2>1 DEF ListInv
    <2>3. /\ Chain(list.head, list.next) = s /\ Len(s) = n /\ DOMAIN s = 1 .. n
          /\ Chain(list.terminal, list.prev) = [i \in 1 .. n |-> s[n - i + 1]]
          /\ Cardinality(listed) = n
        BY <2>2, LinkedChains
    <2>4. list.length = n
        BY <2>2 DEF Links
    <2>5. ToSet(s) = listed
        BY <2>2, <2>3 DEF ToSet, Holds
    <2>6. Reverse(s) = [i \in 1 .. n |-> s[n - i + 1]]
        BY <2>3 DEF Reverse
    <2>7. QED
        BY <2>3, <2>4, <2>5, <2>6 DEF WellLinked
<1>2. QED
    BY <1>1, InitLinked, StepKeepsLinked, PTL DEF ListSpec

(* Joins and unjoins keep the fuller tables in front, whichever way a      *)
(* session moves and however many have the same number (lobby.c:1718).     *)
THEOREM StaysOrdered == ListSpec => []MostPlayersFirst
<1>1. ListInv => MostPlayersFirst
    <2>1. SUFFICES ASSUME ListInv, ~silent PROVE MostPlayersFirst
        BY DEF MostPlayersFirst
    <2>2. PICK s, n : Links(list, s, n) /\ Sorted(s, n, players)
        BY <2>1 DEF ListInv
    <2>3. /\ Chain(list.head, list.next) = s /\ Len(s) = n
          /\ n \in Nat
        <3>1. Chain(list.head, list.next) = s /\ Len(s) = n
            BY <2>2, LinkedChains
        <3>2. n \in Nat
            BY <2>2 DEF Links, Distinct
        <3>3. QED
            BY <3>1, <3>2
    <2>4. \A i \in 1 .. (n - 1) : i \in 1 .. n /\ i + 1 \in 1 .. n /\ i < i + 1
        BY <2>3
    <2>5. QED
        BY <2>2, <2>3, <2>4 DEF MostPlayersFirst, Sorted
<1>2. QED
    BY <1>1, InitLinked, StepKeepsLinked, PTL DEF ListSpec

-----------------------------------------------------------------------------
(* Tokens and the nodes on their way.                                      *)
LEMMA Ways ==
    ASSUME NEW k \in Seq(Characters)
    PROVE  /\ Len(k) \in Nat /\ SubSeq(k, 1, 0) = << >> /\ SubSeq(k, 1, Len(k)) = k
           /\ \A n \in 0 .. Len(k) : /\ SubSeq(k, 1, n) \in Seq(Characters)
                                     /\ Len(SubSeq(k, 1, n)) = n
           /\ \A n \in 1 .. Len(k) : /\ SubSeq(k, 1, n) # << >>
                                     /\ Front(SubSeq(k, 1, n)) = SubSeq(k, 1, n - 1)
<1>1. Len(k) \in Nat /\ \A i \in 1 .. Len(k) : k[i] \in Characters
    BY LenProperties, ElementOfSeq
<1>2. SubSeq(k, 1, 0) = << >> BY SubSeqEmpty
<1>3. SubSeq(k, 1, Len(k)) = k BY SubSeqFull
<1>4. ASSUME NEW n \in 0 .. Len(k)
      PROVE  SubSeq(k, 1, n) \in Seq(Characters) /\ Len(SubSeq(k, 1, n)) = n
    <2>1. n \in Int /\ \A i \in 1 .. n : k[i] \in Characters BY <1>1
    <2>. QED BY <1>1, <2>1, SubSeqProperties
<1>5. ASSUME NEW n \in 1 .. Len(k)
      PROVE  /\ SubSeq(k, 1, n) # << >>
             /\ Front(SubSeq(k, 1, n)) = SubSeq(k, 1, n - 1)
    <2>1. n \in 0 .. Len(k) /\ n - 1 \in 0 .. Len(k) BY <1>1
    <2>2. Len(SubSeq(k, 1, n)) = n /\ n # 0 /\ SubSeq(k, 1, n) \in Seq(Characters)
        BY <1>1, <1>4, <2>1
    <2>3. SubSeq(k, 1, n) # << >> BY <2>2, EmptySeq
    <2>4. Front(SubSeq(k, 1, n)) = SubSeq(SubSeq(k, 1, n), 1, n - 1) BY <2>2 DEF Front
    <2>5. CASE n = 1 BY <2>4, <2>5, SubSeqEmpty, <1>2
    <2>6. CASE n # 1
        <3>1. 1 \in 1 .. n - 1 + 1 /\ n - 1 \in 1 .. n - 1 + 1 /\ 1 \in 1 .. Len(k)
            BY <1>1, <2>6
        <3>. QED BY <2>2, <2>4, <3>1, <1>1, SubSeqOfSubSeq, 1 + 1 - 1 = 1, 1 + (n - 1) - 1 = n - 1
    <2>. QED BY <2>3, <2>5, <2>6
<1>. QED BY <1>1, <1>2, <1>3, <1>4, <1>5

-----------------------------------------------------------------------------
(* Tries.                                                                  *)
Cell == [value : Values \cup {NoValue}, len : Int]
AnyTrie == UNION {[D -> Cell] : D \in SUBSET Seq(Characters)}

(* What a trie of any shape is.                                            *)
LEMMA AnyTrieIs ==
    /\ \A t \in AnyTrie : /\ DOMAIN t \in SUBSET Seq(Characters)
                          /\ t \in [DOMAIN t -> Cell]
    /\ \A t, D : t \in [D -> Cell] /\ D \in SUBSET Seq(Characters) => t \in AnyTrie
BY DEF AnyTrie

(* Freeing a node leaves a trie.                                           *)
LEMMA FreedType ==
    ASSUME NEW t \in AnyTrie, NEW m
    PROVE  Freed(t, m) \in AnyTrie
<1>1. t \in [DOMAIN t -> Cell] /\ DOMAIN t \in SUBSET Seq(Characters) BY AnyTrieIs
<1>2. ASSUME NEW y \in Cell PROVE [y EXCEPT !.len = @ - 1] \in Cell BY <1>2 DEF Cell
<1>3. \A z \in DOMAIN t : t[z] \in Cell BY <1>1
<1> HIDE DEF Cell
<1>4. Freed(t, m) \in [DOMAIN t \ {m} -> Cell] BY <1>2, <1>3 DEF Freed
<1>. QED BY <1>1, <1>4, AnyTrieIs

(* What the loop that frees nodes does, one after another.                 *)
LEMMA PrunedSteps ==
    ASSUME NEW t \in AnyTrie, NEW k \in Seq(Characters)
    PROVE  \E c :
              /\ c[0] = [t |-> t, done |-> FALSE]
              /\ \A i \in 1 .. Len(k) :
                    LET m == SubSeq(k, 1, Len(k) + 1 - i)
                    IN  c[i] = IF c[i - 1].done \/ ~Idle(c[i - 1].t, m)
                               THEN [c[i - 1] EXCEPT !.done = TRUE]
                               ELSE [c[i - 1] EXCEPT !.t = Freed(@, m)]
              /\ \A i \in 0 .. Len(k) : c[i] \in [t : AnyTrie, done : BOOLEAN]
              /\ Pruned(t, k) = c[Len(k)].t
<1> DEFINE n == Len(k)
           step(s, j) == IF s.done \/ ~Idle(s.t, SubSeq(k, 1, j))
                         THEN [s EXCEPT !.done = TRUE]
                         ELSE [s EXCEPT !.t = Freed(@, SubSeq(k, 1, j))]
           down == [i \in 1 .. Len(k) |-> Len(k) + 1 - i]
           base == [t |-> t, done |-> FALSE]
           Body(f, s) == IF s = {} THEN base ELSE step(f[s \ {Max(s)}], down[Max(s)])
           it == CHOOSE f : f = [s \in SUBSET DOMAIN down |-> Body(f, s)]
           X == [t : AnyTrie, done : BOOLEAN]
           F == [z \in X \X (1 .. n) |-> step(z[1], down[z[2]])]
<1>1. Pruned(t, k) = it[DOMAIN down].t
    BY DEF Pruned, FoldLeft, MapThenFoldSet
<1>2. n \in Nat /\ DOMAIN down = 1 .. n /\ base \in X BY LenProperties
<1>3. ASSUME NEW x \in X, NEW i \in 1 .. n
      PROVE  /\ F[<<x, i>>] = step(x, down[i]) /\ F[<<x, i>>] \in X
             /\ LET m == SubSeq(k, 1, n + 1 - i)
                IN  F[<<x, i>>] = IF x.done \/ ~Idle(x.t, m)
                                  THEN [x EXCEPT !.done = TRUE]
                                  ELSE [x EXCEPT !.t = Freed(@, m)]
    <2> DEFINE m == SubSeq(k, 1, n + 1 - i)
    <2>1. F[<<x, i>>] = step(x, down[i]) OBVIOUS
    <2>2. down[i] = n + 1 - i OBVIOUS
    <2>3. step(x, down[i]) = IF x.done \/ ~Idle(x.t, m)
                             THEN [x EXCEPT !.done = TRUE]
                             ELSE [x EXCEPT !.t = Freed(@, m)]
        BY <2>2
    <2>4. [x EXCEPT !.done = TRUE] \in X OBVIOUS
    <2>5. Freed(x.t, m) \in AnyTrie BY FreedType
    <2>6. [x EXCEPT !.t = Freed(@, m)] \in X BY <2>5
    <2>. QED BY <2>1, <2>3, <2>4, <2>6
<1> HIDE DEF step, down, base, X, F
<1>4. PICK g : Fold(g, n, base, F) BY <1>2, FoldExists
<1>5. \A s \in SUBSET (1 .. n) : g[s] \in X BY <1>2, <1>3, <1>4, FoldValues
<1>6. g = [s \in SUBSET (1 .. n) |-> Body(g, s)]
    <2>1. ASSUME NEW s \in SUBSET (1 .. n), s # {}
          PROVE  step(g[s \ {Max(s)}], down[Max(s)]) = F[<<g[s \ {Max(s)}], Max(s)>>]
        <3>1. Max(s) \in 1 .. n BY <1>2, <2>1, MaxIs
        <3>2. g[s \ {Max(s)}] \in X BY <1>5
        <3>. QED BY <1>3, <3>1, <3>2
    <2>. QED BY <1>4, <2>1 DEF Fold
<1>7. it = [s \in SUBSET (1 .. n) |-> Body(it, s)] BY <1>2, <1>6
<1>8. \A s \in SUBSET (1 .. n) : it[s] = g[s]
    <2> DEFINE P == {s \in SUBSET (1 .. n) : it[s] = g[s]}
    <2> HIDE DEF it
    <2>1. ASSUME NEW s \in SUBSET (1 .. n), \A x \in s : s \ {x} \in P PROVE s \in P
        <3>1. it[s] = Body(it, s) /\ g[s] = Body(g, s) BY <1>6, <1>7
        <3>2. CASE s = {} BY <3>1, <3>2
        <3>3. CASE s # {}
            <4>1. Max(s) \in s BY <1>2, <3>3, MaxIs
            <4>2. it[s \ {Max(s)}] = g[s \ {Max(s)}] BY <2>1, <4>1
            <4>. QED BY <3>1, <3>3, <4>2
        <3>. QED BY <3>2, <3>3
    <2>2. P \in SUBSET (SUBSET (1 .. n)) /\ IsFiniteSet(1 .. n) BY <1>2, FS_Interval
    <2> HIDE DEF P
    <2>3. \A s \in SUBSET (1 .. n) : s \in P BY <2>1, <2>2, BySmaller
    <2>. QED BY <2>3 DEF P
<1> DEFINE c == [i \in 0 .. n |-> g[1 .. i]]
<1>9. c[0] = base /\ \A i \in 1 .. n : c[i] = F[<<c[i - 1], i>>]
    <2>1. g[1 .. 0] = base /\ \A i \in 1 .. n : g[1 .. i] = F[<<g[1 .. (i - 1)], i>>]
        BY <1>2, <1>4, FoldSteps
    <2>. QED BY <1>2, <2>1
<1>10. \A i \in 0 .. n : c[i] \in X BY <1>2, <1>5
<1>11. Pruned(t, k) = c[n].t
    <2>1. 1 .. n \in SUBSET (1 .. n) /\ n \in 0 .. n BY <1>2
    <2>. QED BY <1>1, <1>2, <1>8, <2>1
<1>12. ASSUME NEW i \in 1 .. n
       PROVE  LET m == SubSeq(k, 1, n + 1 - i)
              IN  c[i] = IF c[i - 1].done \/ ~Idle(c[i - 1].t, m)
                         THEN [c[i - 1] EXCEPT !.done = TRUE]
                         ELSE [c[i - 1] EXCEPT !.t = Freed(@, m)]
    <2>1. i - 1 \in 0 .. n BY <1>2
    <2>2. c[i - 1] \in X BY <1>10, <2>1
    <2> HIDE DEF c
    <2>. QED BY <1>3, <1>9, <2>2
<1> HIDE DEF c
<1>. QED BY <1>9, <1>10, <1>11, <1>12 DEF base, X

(* Making a node leaves a trie.                                            *)
LEMMA MadeType ==
    ASSUME NEW t \in AnyTrie, NEW m \in Seq(Characters)
    PROVE  Made(t, m) \in AnyTrie
<1>1. t \in [DOMAIN t -> Cell] /\ DOMAIN t \in SUBSET Seq(Characters) BY AnyTrieIs
<1>2. ASSUME NEW y \in Cell PROVE [y EXCEPT !.len = @ + 1] \in Cell BY <1>2 DEF Cell
<1>3. \A z \in DOMAIN t : t[z] \in Cell BY <1>1
<1>4. NewNode \in Cell BY DEF NewNode, Cell
<1> HIDE DEF Cell
<1>5. Made(t, m) \in [DOMAIN t \cup {m} -> Cell] BY <1>2, <1>3, <1>4 DEF Made
<1>. QED BY <1>1, <1>5, AnyTrieIs

(* What making the nodes on the way to a token does, one after another.    *)
LEMMA SetSteps ==
    ASSUME NEW t \in AnyTrie, NEW k \in Seq(Characters), UnsetIn(t, k) \in AnyTrie, NEW v
    PROVE  \E c :
              /\ c[0] = UnsetIn(t, k)
              /\ \A i \in 1 .. Len(k) :
                    c[i] = IF Has(c[i - 1], SubSeq(k, 1, i)) THEN c[i - 1]
                           ELSE Made(c[i - 1], SubSeq(k, 1, i))
              /\ \A i \in 0 .. Len(k) : c[i] \in AnyTrie
              /\ SetIn(t, k, v) = [c[Len(k)] EXCEPT ![k].value = v]
<1> DEFINE n == Len(k)
           step(s, j) == IF Has(s, SubSeq(k, 1, j)) THEN s ELSE Made(s, SubSeq(k, 1, j))
           up == [i \in 1 .. Len(k) |-> i]
           base == UnsetIn(t, k)
           Body(f, s) == IF s = {} THEN base ELSE step(f[s \ {Max(s)}], up[Max(s)])
           it == CHOOSE f : f = [s \in SUBSET DOMAIN up |-> Body(f, s)]
           F == [z \in AnyTrie \X (1 .. n) |-> step(z[1], up[z[2]])]
<1>1. SetIn(t, k, v) = [it[DOMAIN up] EXCEPT ![k].value = v]
    BY DEF SetIn, FoldLeft, MapThenFoldSet
<1>2. n \in Nat /\ DOMAIN up = 1 .. n /\ base \in AnyTrie BY LenProperties
<1>3. ASSUME NEW x \in AnyTrie, NEW i \in 1 .. n
      PROVE  /\ F[<<x, i>>] = step(x, up[i]) /\ F[<<x, i>>] \in AnyTrie
             /\ F[<<x, i>>] = IF Has(x, SubSeq(k, 1, i)) THEN x ELSE Made(x, SubSeq(k, 1, i))
    <2>1. SubSeq(k, 1, i) \in Seq(Characters)
        <3>1. i \in 0 .. Len(k) OBVIOUS
        <3>. QED BY <3>1, Ways
    <2>2. Made(x, SubSeq(k, 1, i)) \in AnyTrie BY <2>1, MadeType
    <2>3. F[<<x, i>>] = step(x, up[i]) OBVIOUS
    <2>4. step(x, up[i]) = IF Has(x, SubSeq(k, 1, i)) THEN x ELSE Made(x, SubSeq(k, 1, i))
        OBVIOUS
    <2>. QED BY <2>2, <2>3, <2>4
<1> HIDE DEF step, up, base, F
<1>4. PICK g : Fold(g, n, base, F) BY <1>2, FoldExists
<1>5. /\ \A s \in SUBSET (1 .. n) : g[s] \in AnyTrie
      /\ g[1 .. 0] = base /\ \A i \in 1 .. n : g[1 .. i] = F[<<g[1 .. (i - 1)], i>>]
    <2>1. \A x \in AnyTrie, i \in 1 .. n : F[<<x, i>>] \in AnyTrie BY <1>3
    <2>2. \A s \in SUBSET (1 .. n) : g[s] \in AnyTrie BY <1>2, <2>1, <1>4, FoldValues
    <2>3. g[1 .. 0] = base /\ \A i \in 1 .. n : g[1 .. i] = F[<<g[1 .. (i - 1)], i>>]
        BY <1>2, <1>4, FoldSteps
    <2>. QED BY <2>2, <2>3
<1>6. g = [s \in SUBSET (1 .. n) |-> Body(g, s)]
    <2>1. ASSUME NEW s \in SUBSET (1 .. n), s # {}
          PROVE  step(g[s \ {Max(s)}], up[Max(s)]) = F[<<g[s \ {Max(s)}], Max(s)>>]
        <3>1. Max(s) \in 1 .. n BY <1>2, <2>1, MaxIs
        <3>2. g[s \ {Max(s)}] \in AnyTrie BY <1>5
        <3>. QED BY <1>3, <3>1, <3>2
    <2>. QED BY <1>4, <2>1 DEF Fold
<1>7. it = [s \in SUBSET (1 .. n) |-> Body(it, s)] BY <1>2, <1>6
<1>8. \A s \in SUBSET (1 .. n) : it[s] = g[s]
    <2> DEFINE P == {s \in SUBSET (1 .. n) : it[s] = g[s]}
    <2> HIDE DEF it
    <2>1. ASSUME NEW s \in SUBSET (1 .. n), \A x \in s : s \ {x} \in P PROVE s \in P
        <3>1. it[s] = Body(it, s) /\ g[s] = Body(g, s) BY <1>6, <1>7
        <3>2. CASE s = {} BY <3>1, <3>2
        <3>3. CASE s # {}
            <4>1. Max(s) \in s BY <1>2, <3>3, MaxIs
            <4>2. it[s \ {Max(s)}] = g[s \ {Max(s)}] BY <2>1, <4>1
            <4>. QED BY <3>1, <3>3, <4>2
        <3>. QED BY <3>2, <3>3
    <2>2. P \in SUBSET (SUBSET (1 .. n)) /\ IsFiniteSet(1 .. n) BY <1>2, FS_Interval
    <2> HIDE DEF P
    <2>3. \A s \in SUBSET (1 .. n) : s \in P BY <2>1, <2>2, BySmaller
    <2>. QED BY <2>3 DEF P
<1> DEFINE c == [i \in 0 .. n |-> g[1 .. i]]
<1>9. c[0] = base /\ \A i \in 1 .. n : c[i] = F[<<c[i - 1], i>>] BY <1>2, <1>5
<1>10. \A i \in 0 .. n : c[i] \in AnyTrie BY <1>2, <1>5
<1>11. SetIn(t, k, v) = [c[n] EXCEPT ![k].value = v]
    <2>1. 1 .. n \in SUBSET (1 .. n) /\ n \in 0 .. n BY <1>2
    <2>. QED BY <1>1, <1>2, <1>8, <2>1
<1>12. \A i \in 1 .. n : c[i] = IF Has(c[i - 1], SubSeq(k, 1, i)) THEN c[i - 1]
                                ELSE Made(c[i - 1], SubSeq(k, 1, i))
    <2>1. \A i \in 1 .. n : i - 1 \in 0 .. n BY <1>2
    <2> HIDE DEF c
    <2>. QED BY <1>3, <1>9, <1>10, <2>1
<1> HIDE DEF c
<1>. QED BY <1>9, <1>10, <1>11, <1>12 DEF base
-----------------------------------------------------------------------------
(* The tree.                                                               *)
Children(t, n) == {m \in DOMAIN t : m # << >> /\ Front(m) = n}

Grown(t) ==
    /\ t \in AnyTrie /\ IsFiniteSet(DOMAIN t) /\ << >> \in DOMAIN t
    /\ \A m \in DOMAIN t : m # << >> => Front(m) \in DOMAIN t
    /\ \A m \in DOMAIN t : t[m].len = Cardinality(Children(t, m))

(* Every node but the root and those of S is in use.                       *)
BusyBut(t, S) == \A m \in DOMAIN t \ ({<< >>} \cup S) : ~Idle(t, m)

SameValues(t, u) == \A m \in Seq(Characters) : Get(u, m) = Get(t, m)

(* The types of a tree's nodes; a node counts children if it has some.     *)
LEMMA GrownTypes ==
    ASSUME NEW t, Grown(t)
    PROVE  /\ DOMAIN t \in SUBSET Seq(Characters) /\ t \in [DOMAIN t -> Cell]
           /\ \A m \in DOMAIN t : /\ t[m] \in Cell /\ t[m].len \in Nat
                                  /\ t[m] = [value |-> t[m].value, len |-> t[m].len]
           /\ \A n : IsFiniteSet(Children(t, n)) /\ Cardinality(Children(t, n)) \in Nat
           /\ \A m \in DOMAIN t : t[m].len > 0 <=> Children(t, m) # {}
<1>1. DOMAIN t \in SUBSET Seq(Characters) /\ t \in [DOMAIN t -> Cell]
    BY AnyTrieIs DEF Grown
<1>2. ASSUME NEW n PROVE IsFiniteSet(Children(t, n)) /\ Cardinality(Children(t, n)) \in Nat
    <2>1. Children(t, n) \subseteq DOMAIN t BY DEF Children
    <2>. QED BY <2>1, FS_Subset, FS_CardinalityType DEF Grown
<1>3. \A m \in DOMAIN t : t[m] \in Cell BY <1>1
<1>4. \A m \in DOMAIN t : t[m].len = Cardinality(Children(t, m)) BY DEF Grown
<1>5. \A m \in DOMAIN t : t[m] = [value |-> t[m].value, len |-> t[m].len] BY <1>3 DEF Cell
<1>6. \A m \in DOMAIN t : t[m].len > 0 <=> Children(t, m) # {}
    BY <1>2, <1>4, FS_EmptySet
<1>. QED BY <1>1, <1>2, <1>3, <1>4, <1>5, <1>6

(* Freeing an idle node.                                                   *)
LEMMA FreedGrown ==
    ASSUME NEW t, Grown(t), NEW m \in DOMAIN t, m # << >>, Idle(t, m)
    PROVE  /\ Grown(Freed(t, m)) /\ SameValues(t, Freed(t, m))
           /\ Front(m) \in DOMAIN Freed(t, m)
           /\ DOMAIN Freed(t, m) = DOMAIN t \ {m}
           /\ \A S : BusyBut(t, S \cup {m}) => BusyBut(Freed(t, m), S \cup {Front(m)})
<1> DEFINE u == Freed(t, m)
<1>1. /\ t \in AnyTrie /\ IsFiniteSet(DOMAIN t) /\ << >> \in DOMAIN t
      /\ \A x \in DOMAIN t : x # << >> => Front(x) \in DOMAIN t
      /\ \A x \in DOMAIN t : t[x].len = Cardinality(Children(t, x))
    BY DEF Grown
<1>2. /\ DOMAIN u = DOMAIN t \ {m}
      /\ \A x \in DOMAIN u : u[x] = IF x = Front(m) THEN [t[x] EXCEPT !.len = @ - 1] ELSE t[x]
    BY DEF Freed
<1>3. \A x \in DOMAIN t : /\ t[x] \in Cell /\ t[x].len \in Nat
                          /\ t[x] = [value |-> t[x].value, len |-> t[x].len]
    BY GrownTypes
<1>4. Children(t, m) = {} /\ t[m].value = NoValue
    <2>1. t[m].len = 0 /\ t[m].value = NoValue BY DEF Idle
    <2>. QED BY <2>1, GrownTypes
<1>5. Front(m) # m /\ Front(m) \in DOMAIN u
    <2>1. Front(m) \in DOMAIN t BY <1>1
    <2>2. Front(m) # m BY <1>4 DEF Children
    <2>. QED BY <1>2, <2>1, <2>2
<1>6. \A x \in DOMAIN u : /\ u[x].value = t[x].value
                          /\ u[x].len = IF x = Front(m) THEN t[x].len - 1 ELSE t[x].len
    BY <1>2, <1>3 DEF Cell
<1> HIDE DEF u
<1>7. ASSUME NEW x \in DOMAIN u PROVE u[x].len = Cardinality(Children(u, x))
    <2>1. Children(u, x) = Children(t, x) \ {m} BY <1>2 DEF Children
    <2>2. IsFiniteSet(Children(t, x)) BY GrownTypes
    <2>3. m \in Children(t, x) <=> x = Front(m) BY DEF Children
    <2>4. Cardinality(Children(u, x)) = IF x = Front(m) THEN Cardinality(Children(t, x)) - 1
                                        ELSE Cardinality(Children(t, x))
        BY <2>1, <2>2, <2>3, FS_RemoveElement
    <2>. QED BY <1>1, <1>2, <1>6, <2>4
<1>8. << >> \in DOMAIN u /\ IsFiniteSet(DOMAIN u) BY <1>1, <1>2, FS_RemoveElement
<1>9. ASSUME NEW x \in DOMAIN u, x # << >> PROVE Front(x) \in DOMAIN u
    BY <1>1, <1>2, <1>4, <1>9 DEF Children
<1>10. Grown(u) BY <1>1, <1>7, <1>8, <1>9, FreedType DEF Grown, u
<1>11. SameValues(t, u) BY <1>2, <1>4, <1>6 DEF SameValues, Get, Has
<1>12. \A S : BusyBut(t, S \cup {m}) => BusyBut(u, S \cup {Front(m)})
    BY <1>2, <1>6 DEF BusyBut, Idle
<1>. QED BY <1>2, <1>5, <1>10, <1>11, <1>12 DEF u

(* Making a node that is missing.                                          *)
LEMMA MadeGrown ==
    ASSUME NEW t, Grown(t), NEW m \in Seq(Characters), m \notin DOMAIN t, m # << >>,
           Front(m) \in DOMAIN t
    PROVE  /\ Grown(Made(t, m)) /\ SameValues(t, Made(t, m))
           /\ DOMAIN Made(t, m) = DOMAIN t \cup {m}
           /\ BusyBut(t, {Front(m)}) => BusyBut(Made(t, m), {m})
<1> DEFINE u == Made(t, m)
<1>1. /\ t \in AnyTrie /\ IsFiniteSet(DOMAIN t) /\ << >> \in DOMAIN t
      /\ \A x \in DOMAIN t : x # << >> => Front(x) \in DOMAIN t
      /\ \A x \in DOMAIN t : t[x].len = Cardinality(Children(t, x))
    BY DEF Grown
<1>2. /\ DOMAIN u = DOMAIN t \cup {m} /\ u[m] = NewNode
      /\ \A x \in DOMAIN t : u[x] = IF x = Front(m) THEN [t[x] EXCEPT !.len = @ + 1] ELSE t[x]
    BY DEF Made
<1>3. \A x \in DOMAIN t : /\ t[x] \in Cell /\ t[x].len \in Nat
                          /\ t[x] = [value |-> t[x].value, len |-> t[x].len]
    BY GrownTypes
<1>4. \A x \in DOMAIN t : /\ u[x].value = t[x].value
                          /\ u[x].len = IF x = Front(m) THEN t[x].len + 1 ELSE t[x].len
    BY <1>2, <1>3 DEF Cell
<1>5. u[m].value = NoValue /\ u[m].len = 0 BY <1>2 DEF NewNode
<1> HIDE DEF u
<1>6. ASSUME NEW x \in DOMAIN t PROVE u[x].len = Cardinality(Children(u, x))
    <2>1. Children(u, x) = IF x = Front(m) THEN Children(t, x) \cup {m} ELSE Children(t, x)
        BY <1>2 DEF Children
    <2>2. IsFiniteSet(Children(t, x)) /\ m \notin Children(t, x) BY GrownTypes DEF Children
    <2>3. Cardinality(Children(u, x)) = IF x = Front(m) THEN Cardinality(Children(t, x)) + 1
                                        ELSE Cardinality(Children(t, x))
        BY <2>1, <2>2, FS_AddElement
    <2>. QED BY <1>1, <1>4, <2>3
<1>7. u[m].len = Cardinality(Children(u, m))
    <2>1. Children(t, m) = {} BY <1>1 DEF Children
    <2>2. Front(m) # m OBVIOUS
    <2>3. Children(u, m) = {} BY <1>2, <2>1, <2>2 DEF Children
    <2>. QED BY <1>5, <2>3, FS_EmptySet
<1>8. << >> \in DOMAIN u /\ IsFiniteSet(DOMAIN u) BY <1>1, <1>2, FS_AddElement
<1>9. \A x \in DOMAIN u : x # << >> => Front(x) \in DOMAIN u BY <1>1, <1>2
<1>10. Grown(u) BY <1>1, <1>2, <1>6, <1>7, <1>8, <1>9, MadeType DEF Grown, u
<1>11. SameValues(t, u) BY <1>2, <1>4, <1>5 DEF SameValues, Get, Has
<1>12. BusyBut(t, {Front(m)}) => BusyBut(u, {m})
    BY <1>2, <1>3, <1>4 DEF BusyBut, Idle
<1>. QED BY <1>2, <1>10, <1>11, <1>12 DEF u
-----------------------------------------------------------------------------
(* A node's value changes, and nothing else.                               *)
LEMMA Valued ==
    ASSUME NEW t, Grown(t), NEW k \in DOMAIN t, NEW v \in Values \cup {NoValue}
    PROVE  LET u == [t EXCEPT ![k].value = v]
           IN  /\ Grown(u) /\ DOMAIN u = DOMAIN t /\ Get(u, k) = v
               /\ \A m \in Seq(Characters) \ {k} : Get(u, m) = Get(t, m)
               /\ BusyBut(t, {k}) => BusyBut(u, {k}) /\ (v # NoValue => BusyBut(u, {}))
<1> DEFINE u == [t EXCEPT ![k].value = v]
<1>1. /\ DOMAIN t \in SUBSET Seq(Characters) /\ t \in [DOMAIN t -> Cell]
      /\ \A m \in DOMAIN t : /\ t[m] \in Cell
                             /\ t[m] = [value |-> t[m].value, len |-> t[m].len]
    BY GrownTypes
<1>2. DOMAIN u = DOMAIN t
    BY <1>1
<1>3. \A m \in DOMAIN t : /\ u[m].len = t[m].len
                          /\ u[m].value = IF m = k THEN v ELSE t[m].value
                          /\ u[m] \in Cell
    BY <1>1 DEF Cell
<1> HIDE DEF u
<1>4. u \in AnyTrie
    <2>1. u \in [DOMAIN t -> Cell]
        <3>1. u = [m \in DOMAIN t |-> u[m]] BY <1>2 DEF u
        <3>. QED BY <1>3, <3>1
    <2>. QED BY <1>1, <2>1, AnyTrieIs
<1>5. \A n : Children(u, n) = Children(t, n) BY <1>2 DEF Children
<1>6. Grown(u) BY <1>2, <1>3, <1>4, <1>5 DEF Grown
<1>7. Get(u, k) = v /\ \A m \in Seq(Characters) \ {k} : Get(u, m) = Get(t, m)
    BY <1>2, <1>3 DEF Get, Has
<1>8. BusyBut(t, {k}) => BusyBut(u, {k}) /\ (v # NoValue => BusyBut(u, {}))
    BY <1>2, <1>3 DEF BusyBut, Idle
<1>. QED BY <1>2, <1>6, <1>7, <1>8 DEF u

(* Unsetting a token.                                                      *)
LEMMA UnsetIs ==
    ASSUME NEW t, Grown(t), BusyBut(t, {}), NEW k \in Seq(Characters), k # << >>
    PROVE  LET u == UnsetIn(t, k)
           IN  /\ Grown(u) /\ BusyBut(u, {}) /\ Get(u, k) = NoValue
               /\ \A m \in Seq(Characters) \ {k} : Get(u, m) = Get(t, m)
<1>1. CASE ~Has(t, k)
    <2>1. UnsetIn(t, k) = t /\ Get(t, k) = NoValue BY <1>1 DEF UnsetIn, Get
    <2>. QED BY <2>1
<1>2. CASE Has(t, k)
    <2> DEFINE b == [t EXCEPT ![k].value = NoValue]
               n == Len(k)
               way(i) == SubSeq(k, 1, n - i)
    <2>1. k \in DOMAIN t BY <1>2 DEF Has
    <2>2. BusyBut(t, {k}) BY DEF BusyBut
    <2>3. /\ Grown(b) /\ DOMAIN b = DOMAIN t /\ Get(b, k) = NoValue
          /\ \A m \in Seq(Characters) \ {k} : Get(b, m) = Get(t, m)
          /\ BusyBut(b, {k})
        <3>1. NoValue \in Values \cup {NoValue} OBVIOUS
        <3> DEFINE v == NoValue
                   u == [t EXCEPT ![k].value = v]
        <3>2. v \in Values \cup {NoValue} BY <3>1
        <3> HIDE DEF v
        <3>3. /\ Grown(u) /\ DOMAIN u = DOMAIN t /\ Get(u, k) = v
              /\ \A m \in Seq(Characters) \ {k} : Get(u, m) = Get(t, m)
              /\ BusyBut(t, {k}) => BusyBut(u, {k}) /\ (v # NoValue => BusyBut(u, {}))
            BY <2>1, <3>2, Valued
        <3>. QED BY <2>2, <3>3 DEF v
    <2> HIDE DEF b
    <2>4. b \in AnyTrie BY <2>3 DEF Grown
    <2>5. PICK c :
              /\ c[0] = [t |-> b, done |-> FALSE]
              /\ \A i \in 1 .. Len(k) :
                    LET m == SubSeq(k, 1, Len(k) + 1 - i)
                    IN  c[i] = IF c[i - 1].done \/ ~Idle(c[i - 1].t, m)
                               THEN [c[i - 1] EXCEPT !.done = TRUE]
                               ELSE [c[i - 1] EXCEPT !.t = Freed(@, m)]
              /\ \A i \in 0 .. Len(k) : c[i] \in [t : AnyTrie, done : BOOLEAN]
              /\ Pruned(b, k) = c[Len(k)].t
        BY <2>4, PrunedSteps
    <2>6. UnsetIn(t, k) = c[n].t BY <1>2, <2>5 DEF UnsetIn, b
    <2>7. /\ n \in Nat /\ n # 0 /\ way(0) = k /\ way(n) = << >>
          /\ \A i \in 0 .. (n - 1) : way(i) # << >> /\ Front(way(i)) = way(i + 1)
          /\ \A i \in 1 .. n : SubSeq(k, 1, Len(k) + 1 - i) = way(i - 1)
        <3>1. n \in Nat /\ SubSeq(k, 1, 0) = << >> /\ SubSeq(k, 1, n) = k BY Ways
        <3>2. n # 0 BY EmptySeq
        <3>3. n - 0 = n /\ n - n = 0 BY <3>1
        <3>4. way(0) = k /\ way(n) = << >> BY <3>1, <3>3
        <3>5. ASSUME NEW i \in 0 .. (n - 1) PROVE way(i) # << >> /\ Front(way(i)) = way(i + 1)
            <4> DEFINE j == n - i
            <4>1. j \in 1 .. n /\ j - 1 = n - (i + 1) BY <3>1
            <4> HIDE DEF j
            <4>2. SubSeq(k, 1, j) # << >> /\ Front(SubSeq(k, 1, j)) = SubSeq(k, 1, j - 1)
                BY <4>1, Ways
            <4>. QED BY <4>1, <4>2 DEF j
        <3>6. \A i \in 1 .. n : n + 1 - i = n - (i - 1) BY <3>1
        <3>. QED BY <3>1, <3>2, <3>4, <3>5, <3>6
    <2> HIDE DEF n, way
    <2> DEFINE Ok(i) == /\ Grown(c[i].t) /\ SameValues(b, c[i].t)
                        /\ IF c[i].done THEN BusyBut(c[i].t, {})
                           ELSE way(i) \in DOMAIN c[i].t /\ BusyBut(c[i].t, {way(i)})
    <2>8. Ok(0)
        <3>1. c[0].t = b /\ c[0].done = FALSE BY <2>5
        <3>. QED BY <2>3, <2>1, <2>7, <3>1 DEF SameValues
    <2>9. ASSUME NEW i \in 1 .. n, Ok(i - 1) PROVE Ok(i)
        <3> DEFINE m == way(i - 1)
                   s == c[i - 1]
        <3>1. i - 1 \in 0 .. n /\ i - 1 \in 0 .. (n - 1) /\ i - 1 + 1 = i BY <2>7
        <3>2. s \in [t : AnyTrie, done : BOOLEAN] BY <2>5, <3>1 DEF n
        <3>3. c[i] = IF s.done \/ ~Idle(s.t, m) THEN [s EXCEPT !.done = TRUE]
                     ELSE [s EXCEPT !.t = Freed(@, m)]
            BY <2>5, <2>7 DEF n
        <3>4. m # << >> /\ Front(m) = way(i) BY <2>7, <3>1
        <3>5. /\ Grown(s.t) /\ SameValues(b, s.t)
              /\ IF s.done THEN BusyBut(s.t, {}) ELSE m \in DOMAIN s.t /\ BusyBut(s.t, {m})
            BY <2>9
        <3> HIDE DEF m, s, way
        <3>6. CASE s.done \/ ~Idle(s.t, m)
            <4>1. c[i].t = s.t /\ c[i].done BY <3>2, <3>3, <3>6
            <4>2. BusyBut(s.t, {}) BY <3>5, <3>6 DEF BusyBut
            <4>. QED BY <3>5, <4>1, <4>2
        <3>7. CASE ~s.done /\ Idle(s.t, m)
            <4>1. c[i].t = Freed(s.t, m) /\ c[i].done = FALSE BY <3>2, <3>3, <3>7
            <4>2. /\ Grown(Freed(s.t, m)) /\ SameValues(s.t, Freed(s.t, m))
                  /\ Front(m) \in DOMAIN Freed(s.t, m)
                  /\ \A S : BusyBut(s.t, S \cup {m}) => BusyBut(Freed(s.t, m), S \cup {Front(m)})
                BY <3>4, <3>5, <3>7, FreedGrown
            <4>3. BusyBut(Freed(s.t, m), {way(i)})
                <5>1. {} \cup {m} = {m} /\ {} \cup {way(i)} = {way(i)} OBVIOUS
                <5>. QED BY <3>4, <3>5, <3>7, <4>2, <5>1
            <4>. QED BY <3>4, <3>5, <4>1, <4>2, <4>3 DEF SameValues
        <3>. QED BY <3>6, <3>7
    <2>10. Ok(n)
        <3> HIDE DEF Ok
        <3> DEFINE Bad == {i \in Nat : i <= n /\ ~Ok(i)}
        <3>1. SUFFICES Bad = {}
            <4>1. n \in Nat /\ n <= n BY <2>7
            <4>. QED BY <4>1
        <3>2. SUFFICES ASSUME Bad # {} PROVE FALSE OBVIOUS
        <3>3. PICK i \in Bad : \A x \in Bad : i <= x
            <4>1. Bad \in SUBSET Nat OBVIOUS
            <4> HIDE DEF Bad
            <4>. QED BY <3>2, <4>1, LeastNat
        <3>4. i # 0 BY <2>8
        <3>5. i \in 1 .. n /\ i - 1 \notin Bad /\ i - 1 \in Nat /\ i - 1 <= n BY <2>7, <3>3, <3>4
        <3>6. Ok(i - 1) BY <3>5
        <3>. QED BY <2>9, <3>3, <3>5, <3>6
    <2>11. BusyBut(c[n].t, {}) BY <2>7, <2>10 DEF BusyBut
    <2>. QED BY <2>3, <2>6, <2>10, <2>11 DEF SameValues
<1>. QED BY <1>1, <1>2

(* Setting a token.                                                        *)
LEMMA SetIs ==
    ASSUME NEW t, Grown(t), BusyBut(t, {}), NEW k \in Seq(Characters), k # << >>,
           NEW v \in Values
    PROVE  LET u == SetIn(t, k, v)
           IN  /\ Grown(u) /\ BusyBut(u, {}) /\ Get(u, k) = v
               /\ \A m \in Seq(Characters) \ {k} : Get(u, m) = Get(t, m)
<1> DEFINE b == UnsetIn(t, k)
           n == Len(k)
           way(i) == SubSeq(k, 1, i)
<1>1. /\ Grown(b) /\ BusyBut(b, {}) /\ Get(b, k) = NoValue
      /\ \A m \in Seq(Characters) \ {k} : Get(b, m) = Get(t, m)
    BY UnsetIs
<1>2. t \in AnyTrie /\ b \in AnyTrie BY <1>1 DEF Grown
<1>3. PICK c :
         /\ c[0] = b
         /\ \A i \in 1 .. n : c[i] = IF Has(c[i - 1], way(i)) THEN c[i - 1]
                                     ELSE Made(c[i - 1], way(i))
         /\ \A i \in 0 .. n : c[i] \in AnyTrie
         /\ SetIn(t, k, v) = [c[n] EXCEPT ![k].value = v]
    BY <1>2, SetSteps
<1>4. /\ n \in Nat /\ way(0) = << >> /\ way(n) = k
      /\ \A i \in 1 .. n : /\ way(i) \in Seq(Characters) /\ way(i) # << >>
                           /\ Front(way(i)) = way(i - 1)
    <2>1. n \in Nat /\ \A i \in 1 .. n : i \in 0 .. n BY Ways
    <2>. QED BY <2>1, Ways
<1> HIDE DEF b, n, way
<1> DEFINE Ok(i) == /\ Grown(c[i]) /\ SameValues(b, c[i])
                    /\ way(i) \in DOMAIN c[i] /\ BusyBut(c[i], {way(i)})
<1>5. Ok(0)
    <2>1. << >> \in DOMAIN b BY <1>1 DEF Grown
    <2>. QED BY <1>1, <1>3, <1>4, <2>1 DEF SameValues, BusyBut
<1>6. ASSUME NEW i \in 1 .. n, Ok(i - 1) PROVE Ok(i)
    <2> DEFINE m == way(i)
               s == c[i - 1]
    <2>1. /\ Grown(s) /\ SameValues(b, s)
          /\ Front(m) \in DOMAIN s /\ BusyBut(s, {Front(m)})
        BY <1>4, <1>6
    <2>2. m \in Seq(Characters) /\ m # << >> BY <1>4
    <2>3. c[i] = IF Has(s, m) THEN s ELSE Made(s, m) BY <1>3
    <2> HIDE DEF m, s
    <2>4. CASE Has(s, m)
        <3>1. m \in Children(s, Front(m)) BY <2>2, <2>4 DEF Children, Has
        <3>2. s[Front(m)].len > 0 BY <2>1, <3>1, GrownTypes
        <3>3. s[Front(m)].len # 0 BY <2>1, <3>2, GrownTypes
        <3>4. BusyBut(s, {m}) BY <2>1, <3>3 DEF BusyBut, Idle
        <3>. QED BY <2>1, <2>3, <2>4, <3>4 DEF Has, m
    <2>5. CASE ~Has(s, m)
        <3>1. /\ Grown(Made(s, m)) /\ SameValues(s, Made(s, m))
              /\ DOMAIN Made(s, m) = DOMAIN s \cup {m} /\ BusyBut(Made(s, m), {m})
            BY <2>1, <2>2, <2>5, MadeGrown DEF Has
        <3>. QED BY <2>1, <2>3, <2>5, <3>1 DEF SameValues, m
    <2>. QED BY <2>4, <2>5
<1>7. Ok(n)
    <2> HIDE DEF Ok
    <2> DEFINE Bad == {i \in Nat : i <= n /\ ~Ok(i)}
    <2>1. SUFFICES Bad = {}
        <3>1. n \in Nat /\ n <= n BY <1>4
        <3>. QED BY <3>1
    <2>2. SUFFICES ASSUME Bad # {} PROVE FALSE OBVIOUS
    <2>3. PICK i \in Bad : \A x \in Bad : i <= x
        <3>1. Bad \in SUBSET Nat OBVIOUS
        <3> HIDE DEF Bad
        <3>. QED BY <2>2, <3>1, LeastNat
    <2>4. i # 0 BY <1>5
    <2>5. i \in 1 .. n /\ i - 1 \notin Bad /\ i - 1 \in Nat /\ i - 1 <= n BY <1>4, <2>3, <2>4
    <2>6. Ok(i - 1) BY <2>5
    <2>. QED BY <1>6, <2>3, <2>5, <2>6
<1>8. k \in DOMAIN c[n] /\ Grown(c[n]) /\ BusyBut(c[n], {k}) BY <1>4, <1>7
<1>9. v # NoValue BY ValuesAssumption
<1>10. LET u == [c[n] EXCEPT ![k].value = v]
       IN  /\ Grown(u) /\ BusyBut(u, {}) /\ Get(u, k) = v
           /\ \A m \in Seq(Characters) \ {k} : Get(u, m) = Get(c[n], m)
    BY <1>8, <1>9, Valued
<1>11. \A m \in Seq(Characters) \ {k} : Get(c[n], m) = Get(t, m)
    BY <1>1, <1>7 DEF SameValues
<1>. QED BY <1>3, <1>10, <1>11
-----------------------------------------------------------------------------
(* What the trie is.                                                       *)
TrieInv ==
    /\ Grown(trie) /\ BusyBut(trie, {})
    /\ map \in [Keys -> Values \cup {NoValue}]
    /\ \A m \in Seq(Characters) : Get(trie, m) = IF m \in Keys THEN map[m] ELSE NoValue

(* The empty trie.                                                         *)
LEMMA TrieInitInv == TrieInit => TrieInv
<1> SUFFICES ASSUME TrieInit PROVE TrieInv OBVIOUS
<1>1. trie = [node \in {<< >>} |-> NewNode] /\ map = [k \in Keys |-> NoValue] BY DEF TrieInit
<1>2. DOMAIN trie = {<< >>} /\ trie[<< >>] = NewNode BY <1>1
<1>3. trie[<< >>].value = NoValue /\ trie[<< >>].len = 0 /\ NewNode \in Cell
    BY <1>2 DEF NewNode, Cell
<1>4. << >> \in Seq(Characters) BY EmptySeq
<1>5. trie \in AnyTrie
    <2>1. trie \in [{<< >>} -> Cell] BY <1>1, <1>3
    <2>. QED BY <1>4, <2>1, AnyTrieIs
<1>6. IsFiniteSet(DOMAIN trie) BY <1>2, FS_Singleton
<1>7. Children(trie, << >>) = {} BY <1>2 DEF Children
<1>8. Grown(trie) BY <1>2, <1>3, <1>5, <1>6, <1>7, FS_EmptySet DEF Grown
<1>9. BusyBut(trie, {}) BY <1>2 DEF BusyBut
<1>10. map \in [Keys -> Values \cup {NoValue}] BY <1>1
<1>11. \A m \in Seq(Characters) : Get(trie, m) = IF m \in Keys THEN map[m] ELSE NoValue
    BY <1>1, <1>2, <1>3 DEF Get, Has
<1>. QED BY <1>8, <1>9, <1>10, <1>11 DEF TrieInv

(* Setting and unsetting keep it so.                                       *)
LEMMA TrieNextInv ==
    ASSUME TrieInv, [TrieNext]_trieVars
    PROVE  TrieInv'
<1>1. CASE UNCHANGED trieVars
    BY <1>1 DEF trieVars, TrieInv, Grown, BusyBut, Get, Has, Idle, Children
<1>2. \A k \in Keys : k \in Seq(Characters) /\ k # << >> BY KeysAssumption
<1>3. ASSUME NEW k \in Keys, NEW v \in Values \cup {NoValue},
             /\ Grown(trie') /\ BusyBut(trie', {}) /\ Get(trie', k) = v
             /\ \A m \in Seq(Characters) \ {k} : Get(trie', m) = Get(trie, m),
             map' = [map EXCEPT ![k] = v]
      PROVE  TrieInv'
    <2>1. map \in [Keys -> Values \cup {NoValue}] BY DEF TrieInv
    <2>2. map' \in [Keys -> Values \cup {NoValue}] BY <1>3, <2>1
    <2>3. \A m \in Keys : map'[m] = IF m = k THEN v ELSE map[m] BY <1>3, <2>1
    <2>4. ASSUME NEW m \in Seq(Characters)
          PROVE  Get(trie', m) = IF m \in Keys THEN map'[m] ELSE NoValue
        <3>1. Get(trie, m) = IF m \in Keys THEN map[m] ELSE NoValue BY DEF TrieInv
        <3>2. CASE m = k BY <1>3, <2>3, <3>2
        <3>3. CASE m # k BY <1>3, <2>3, <3>1, <3>3
        <3>. QED BY <3>2, <3>3
    <2>5. Get(trie', k) = Get(trie, k)' /\ Grown(trie)' /\ BusyBut(trie, {})'
        BY <1>3 DEF Get, Has, Grown, BusyBut, Idle, Children
    <2>6. \A m \in Seq(Characters) : Get(trie, m)' = Get(trie', m) BY DEF Get, Has
    <2>. QED BY <2>2, <2>4, <2>5, <2>6 DEF TrieInv
<1>4. ASSUME NEW k \in Keys, Unset(k) PROVE TrieInv'
    <2>1. trie' = UnsetIn(trie, k) /\ map' = [map EXCEPT ![k] = NoValue] BY <1>4 DEF Unset
    <2>2. /\ Grown(trie') /\ BusyBut(trie', {}) /\ Get(trie', k) = NoValue
          /\ \A m \in Seq(Characters) \ {k} : Get(trie', m) = Get(trie, m)
        BY <1>2, <2>1, UnsetIs DEF TrieInv
    <2>3. NoValue \in Values \cup {NoValue} OBVIOUS
    <2>. QED BY <1>3, <2>1, <2>2, <2>3
<1>5. ASSUME NEW k \in Keys, NEW v \in Values, Set(k, v) PROVE TrieInv'
    <2>1. trie' = SetIn(trie, k, v) /\ map' = [map EXCEPT ![k] = v] BY <1>5 DEF Set
    <2>2. /\ Grown(trie') /\ BusyBut(trie', {}) /\ Get(trie', k) = v
          /\ \A m \in Seq(Characters) \ {k} : Get(trie', m) = Get(trie, m)
        BY <1>2, <2>1, SetIs DEF TrieInv
    <2>3. v \in Values \cup {NoValue} OBVIOUS
    <2>. QED BY <1>3, <2>1, <2>2, <2>3
<1>. QED BY <1>1, <1>4, <1>5 DEF TrieNext

(* All that lead to a node are there.                                      *)
LEMMA WaysAreThere ==
    ASSUME NEW t, Grown(t), NEW k \in DOMAIN t, NEW j \in 0 .. Len(k)
    PROVE  SubSeq(k, 1, j) \in DOMAIN t
<1> DEFINE n == Len(k)
           Off == {i \in Nat : i <= n /\ SubSeq(k, 1, n - i) \notin DOMAIN t}
<1>1. k \in Seq(Characters) /\ n \in Nat BY GrownTypes, Ways
<1>2. \A m \in DOMAIN t : m # << >> => Front(m) \in DOMAIN t BY DEF Grown
<1>3. SUFFICES ASSUME Off # {} PROVE FALSE
    <2>1. n - (n - j) = j /\ n - j \in Nat /\ n - j <= n BY <1>1
    <2>. QED BY <2>1
<1>4. PICK i \in Off : \A x \in Off : i <= x
    <2>1. Off \in SUBSET Nat OBVIOUS
    <2> HIDE DEF Off
    <2>. QED BY <1>3, <2>1, LeastNat
<1>5. i # 0
    <2>1. n - 0 = n /\ SubSeq(k, 1, n) = k BY <1>1, Ways
    <2>. QED BY <2>1
<1> DEFINE h == n - (i - 1)
<1>6. i \in Nat /\ i <= n /\ i - 1 \in Nat /\ i - 1 <= n /\ i - 1 \notin Off BY <1>1, <1>4, <1>5
<1>7. h \in 1 .. n /\ h - 1 = n - i BY <1>1, <1>6
<1>8. SubSeq(k, 1, h) \in DOMAIN t BY <1>6
<1> HIDE DEF h
<1>9. SubSeq(k, 1, h) # << >> /\ Front(SubSeq(k, 1, h)) = SubSeq(k, 1, h - 1)
    BY <1>1, <1>7, Ways
<1>. QED BY <1>2, <1>4, <1>7, <1>8, <1>9

(* A finite set of sequences that is not empty has a longest.              *)
LEMMA Longest ==
    ASSUME NEW D \in SUBSET Seq(Characters), IsFiniteSet(D), D # {}
    PROVE  \E x \in D : \A y \in D : Len(y) <= Len(x)
<1> DEFINE P == {s \in SUBSET D : s = {} \/ \E x \in s : \A y \in s : Len(y) <= Len(x)}
<1>1. \A y \in D : Len(y) \in Nat BY LenProperties
<1>2. ASSUME NEW s \in SUBSET D, \A x \in s : s \ {x} \in P PROVE s \in P
    <2>1. CASE s = {} BY <2>1
    <2>2. CASE s # {}
        <3>1. PICK x \in s : TRUE BY <2>2
        <3>2. CASE s \ {x} = {}
            <4>1. \A y \in s : y = x /\ Len(y) <= Len(x) BY <1>1, <3>1, <3>2
            <4>. QED BY <4>1
        <3>3. CASE s \ {x} # {}
            <4>1. s \ {x} \in P BY <1>2
            <4>2. PICK z \in s \ {x} : \A y \in s \ {x} : Len(y) <= Len(z) BY <3>3, <4>1
            <4>3. Len(x) \in Nat /\ Len(z) \in Nat /\ \A y \in s : Len(y) \in Nat BY <1>1
            <4>4. CASE Len(z) <= Len(x)
                <5>1. \A y \in s : Len(y) <= Len(x) BY <4>2, <4>3, <4>4
                <5>. QED BY <5>1
            <4>5. CASE ~(Len(z) <= Len(x))
                <5>1. \A y \in s : Len(y) <= Len(z) BY <4>2, <4>3, <4>5
                <5>. QED BY <5>1
            <4>. QED BY <4>4, <4>5
        <3>. QED BY <3>2, <3>3
    <2>. QED BY <2>1, <2>2
<1>3. P \in SUBSET (SUBSET D) OBVIOUS
<1> HIDE DEF P
<1>4. \A s \in SUBSET D : s \in P BY <1>2, <1>3, BySmaller
<1>5. D \in P BY <1>4
<1>. QED BY <1>5 DEF P

(* Every node but the root leads to a node that holds a value.             *)
LEMMA LeadsToValue ==
    ASSUME NEW t, Grown(t), BusyBut(t, {}), NEW m \in DOMAIN t, m # << >>
    PROVE  \E x \in DOMAIN t : /\ t[x].value # NoValue /\ Len(m) \in 1 .. Len(x)
                               /\ SubSeq(x, 1, Len(m)) = m
<1> DEFINE D == {x \in DOMAIN t : Len(m) <= Len(x) /\ SubSeq(x, 1, Len(m)) = m}
<1>1. /\ DOMAIN t \in SUBSET Seq(Characters) /\ IsFiniteSet(DOMAIN t)
      /\ \A x \in DOMAIN t : Len(x) \in Nat
    BY GrownTypes, Ways DEF Grown
<1>2. m \in D BY <1>1, Ways
<1>3. D \in SUBSET Seq(Characters) /\ IsFiniteSet(D) BY <1>1, FS_Subset
<1>4. PICK x \in D : \A y \in D : Len(y) <= Len(x)
    <2> HIDE DEF D
    <2>. QED BY <1>2, <1>3, Longest
<1>5. Len(m) # 0 BY <1>1, EmptySeq
<1>6. x # << >> /\ x \in DOMAIN t /\ Len(m) \in 1 .. Len(x) BY <1>1, <1>4, <1>5, EmptySeq
<1>7. Children(t, x) = {}
    <2> SUFFICES ASSUME NEW y \in Children(t, x) PROVE FALSE OBVIOUS
    <2>1. y \in DOMAIN t /\ y # << >> /\ Front(y) = x BY DEF Children
    <2> DEFINE n == Len(y)
    <2>2. n \in Nat /\ n # 0 /\ y \in Seq(Characters) BY <1>1, <2>1, EmptySeq
    <2>3. Len(x) = n - 1
        <3>1. n \in 1 .. n /\ n - 1 \in 0 .. n BY <2>2
        <3>2. x = SubSeq(y, 1, n - 1) BY <2>1 DEF Front
        <3>. QED BY <2>2, <3>1, <3>2, Ways
    <2>4. SubSeq(y, 1, Len(m)) = m
        <3>1. x = SubSeq(y, 1, n - 1) BY <2>1 DEF Front
        <3>2. SubSeq(SubSeq(y, 1, n - 1), 1, Len(m)) = SubSeq(y, 1, Len(m))
            <4>1. 1 \in 1 .. n - 1 - 1 + 1 /\ Len(m) \in 1 .. n - 1 - 1 + 1 /\ 1 \in 1 .. n
                  /\ n - 1 \in 1 .. n /\ 1 + 1 - 1 = 1 /\ 1 + Len(m) - 1 = Len(m)
                BY <1>1, <1>6, <2>2, <2>3
            <4>. QED BY <2>2, <4>1, SubSeqOfSubSeq
        <3>. QED BY <1>4, <3>1, <3>2
    <2>5. Len(m) <= Len(y) BY <1>1, <1>6, <2>2, <2>3
    <2>6. y \in D BY <2>1, <2>4, <2>5
    <2>. QED BY <1>4, <2>2, <2>3, <2>6
<1>8. t[x].len = 0 BY <1>6, <1>7, GrownTypes
<1>9. t[x].value # NoValue BY <1>6, <1>8 DEF BusyBut, Idle
<1>. QED BY <1>4, <1>6, <1>9

(* A tree of nodes in use is what the tokens that are set need.            *)
LEMMA TrieInvIsMap == TrieInv => TrieIsMap
<1> SUFFICES ASSUME TrieInv PROVE TrieIsMap OBVIOUS
<1> DEFINE used == {k \in Keys : map[k] # NoValue}
           ways == UNION {{SubSeq(k, 1, n) : n \in 1 .. Len(k)} : k \in used}
<1>1. /\ Grown(trie) /\ BusyBut(trie, {})
      /\ \A m \in Seq(Characters) : Get(trie, m) = IF m \in Keys THEN map[m] ELSE NoValue
    BY DEF TrieInv
<1>2. \A k \in Keys : k \in Seq(Characters) /\ Len(k) \in Nat BY KeysAssumption, Ways
<1>3. \A k \in Keys : Get(trie, k) = map[k] BY <1>1, <1>2
<1>4. << >> \in DOMAIN trie /\ DOMAIN trie \in SUBSET Seq(Characters)
    BY <1>1, GrownTypes DEF Grown
<1>5. ASSUME NEW k \in used, NEW n \in 1 .. Len(k) PROVE SubSeq(k, 1, n) \in DOMAIN trie
    <2>1. k \in DOMAIN trie BY <1>3 DEF Get, Has
    <2>2. n \in 0 .. Len(k) BY <1>2
    <2>. QED BY <1>1, <2>1, <2>2, WaysAreThere
<1>6. ASSUME NEW m \in DOMAIN trie, m # << >> PROVE m \in ways
    <2>1. PICK x \in DOMAIN trie : /\ trie[x].value # NoValue /\ Len(m) \in 1 .. Len(x)
                                   /\ SubSeq(x, 1, Len(m)) = m
        BY <1>1, <1>6, LeadsToValue
    <2>2. Get(trie, x) # NoValue BY <2>1 DEF Get, Has
    <2>3. x \in used BY <1>1, <1>4, <2>2
    <2> DEFINE way == {SubSeq(x, 1, n) : n \in 1 .. Len(x)}
    <2>4. m \in way BY <2>1
    <2>5. way \in {{SubSeq(k, 1, n) : n \in 1 .. Len(k)} : k \in used} BY <2>3
    <2> HIDE DEF way, used
    <2>. QED BY <2>4, <2>5
<1>7. DOMAIN trie = {<< >>} \cup ways
    <2>1. ASSUME NEW m \in ways PROVE m \in DOMAIN trie
        <3>1. PICK way \in {{SubSeq(k, 1, n) : n \in 1 .. Len(k)} : k \in used} : m \in way
            OBVIOUS
        <3> HIDE DEF used
        <3>2. PICK k \in used : way = {SubSeq(k, 1, n) : n \in 1 .. Len(k)} BY <3>1
        <3>3. PICK n \in 1 .. Len(k) : m = SubSeq(k, 1, n) BY <3>1, <3>2
        <3>. QED BY <1>5, <3>3
    <2> HIDE DEF ways
    <2>. QED BY <1>4, <1>6, <2>1
<1>8. \A node \in DOMAIN trie :
          trie[node].len = Cardinality({m \in DOMAIN trie : m # << >> /\ Front(m) = node})
    BY <1>1 DEF Grown, Children
<1>. QED BY <1>3, <1>7, <1>8 DEF TrieIsMap

(* For any tokens, finitely many or not, that share any beginnings, set    *)
(* and unset in any order: a token finds the client it was last set to,    *)
(* and the nodes are those on the way to a token that is set (trie.c:160). *)
THEOREM TokensFindClients == TrieSpec => []TrieIsMap
BY TrieInitInv, TrieNextInv, TrieInvIsMap, PTL DEF TrieSpec
===============================================================================
