--------------------------- MODULE MembershipProofs ---------------------------
(***************************************************************************)
(* The theorems of Membership, for any clients, accounts and tables.  They *)
(* are about an Orderly use, see SendToken and ReadFails.                  *)
(***************************************************************************)
EXTENDS Membership, CommonProofs

Asking == {"login", "auth"}
Tasks == [op : Asking \cup {"connected", "enter", "leave", "disconnected", "tolerated"},
          client : Clients, arg : Accounts \cup Tables \cup Nat]
Nets == [listed : SUBSET Clients, alive : [Clients -> BOOLEAN], refs : [Clients -> Int],
         freed : SUBSET Clients, queue : Seq(Tasks)]
LobbyClients ==
    [refs : Int, client : Clients \cup {None}, account : Accounts \cup {None}, token : Nat,
     tolerant : BOOLEAN, disconnected : BOOLEAN, connected : BOOLEAN, revived : BOOLEAN,
     task : Clients \cup {None}, ghost : BOOLEAN]

TypeInv ==
    /\ thread \in [Clients -> {"none", "started", "receiving", "gone"}]
    /\ net \in Nets
    /\ owner \in [Clients -> Clients \cup {None}]
    /\ lobby \in [Clients -> LobbyClients]
    /\ entries \in [Clients -> SUBSET Tables]
    /\ members \in [Tables -> Seq(Clients)]
    /\ holder \in [1 .. MaxTokens -> Clients \cup {None}]
    /\ tokens \in Seq(Accounts)
    /\ timers \in SUBSET Clients

-----------------------------------------------------------------------------
(* Sequences                                                               *)

(* x is in the sequence at an earlier place than y.                        *)
Precedes(q, x, y) == \E j \in DOMAIN q : \E i \in 1 .. (j - 1) : q[i] = x /\ q[j] = y

LEMMA TailOrder ==
    ASSUME NEW T, NEW q \in Seq(T), q # << >>
    PROVE  /\ Head(q) \in T /\ Tail(q) \in Seq(T) /\ Members(q) = Members(Tail(q)) \cup {Head(q)}
           /\ \A y \in Members(Tail(q)) : Precedes(q, Head(q), y)
           /\ \A x, y : Precedes(Tail(q), x, y) => Precedes(q, x, y)
<1> DEFINE n == Len(q)
<1>1. /\ n \in Nat /\ n > 0 /\ DOMAIN q = 1 .. n
      /\ DOMAIN Tail(q) = 1 .. (n - 1)
      /\ \A i \in 1 .. (n - 1) : Tail(q)[i] = q[i + 1]
      /\ Head(q) = q[1]
    <2>1. Len(q) \in Nat /\ DOMAIN q = 1 .. Len(q) /\ Len(q) # 0
        BY LenProperties, EmptySeq
    <2>2. /\ Len(Tail(q)) = Len(q) - 1 /\ Tail(q) \in Seq(T)
          /\ \A i \in 1 .. Len(Tail(q)) : Tail(q)[i] = q[i + 1]
        BY HeadTailProperties
    <2>3. DOMAIN Tail(q) = 1 .. Len(Tail(q))
        BY <2>2, LenProperties
    <2>. QED BY <2>1, <2>2, <2>3
<1>2. Head(q) \in T /\ Tail(q) \in Seq(T) /\ Members(q) = Members(Tail(q)) \cup {Head(q)}
    BY TailMembers
<1>3. ASSUME NEW y \in Members(Tail(q)) PROVE Precedes(q, Head(q), y)
    <2>1. PICK i \in DOMAIN Tail(q) : y = Tail(q)[i]
        BY DEF Members
    <2>2. i + 1 \in DOMAIN q /\ 1 \in 1 .. ((i + 1) - 1) /\ q[i + 1] = y
        BY <1>1, <2>1
    <2>. QED BY <1>1, <2>2 DEF Precedes
<1>4. ASSUME NEW x, NEW y, Precedes(Tail(q), x, y) PROVE Precedes(q, x, y)
    <2>1. PICK j \in DOMAIN Tail(q) : \E i \in 1 .. (j - 1) : Tail(q)[i] = x /\ Tail(q)[j] = y
        BY <1>4 DEF Precedes
    <2>2. PICK i \in 1 .. (j - 1) : Tail(q)[i] = x /\ Tail(q)[j] = y
        BY <2>1
    <2>3. j + 1 \in DOMAIN q /\ i + 1 \in 1 .. ((j + 1) - 1) /\ q[i + 1] = x /\ q[j + 1] = y
        BY <1>1, <2>2
    <2>. QED BY <2>3 DEF Precedes
<1>. QED BY <1>2, <1>3, <1>4

LEMMA AppendOrder ==
    ASSUME NEW T, NEW q \in Seq(T), NEW e \in T
    PROVE  /\ Append(q, e) \in Seq(T) /\ Members(Append(q, e)) = Members(q) \cup {e}
           /\ \A x, y : Precedes(Append(q, e), x, y) =>
                 Precedes(q, x, y) \/ (x \in Members(q) /\ y = e)
<1> DEFINE n == Len(q)
<1>1. /\ n \in Nat /\ DOMAIN q = 1 .. n
      /\ DOMAIN Append(q, e) = 1 .. (n + 1)
      /\ \A i \in 1 .. n : Append(q, e)[i] = q[i]
      /\ Append(q, e)[n + 1] = e
    <2>1. Len(Append(q, e)) = Len(q) + 1 /\ Append(q, e) \in Seq(T)
        BY AppendProperties
    <2>2. DOMAIN Append(q, e) = 1 .. Len(Append(q, e))
        BY <2>1, LenProperties
    <2>. QED BY <2>1, <2>2, LenProperties, AppendProperties
<1>2. Append(q, e) \in Seq(T) /\ Members(Append(q, e)) = Members(q) \cup {e}
    BY AppendMembers
<1>3. ASSUME NEW x, NEW y, Precedes(Append(q, e), x, y)
      PROVE  Precedes(q, x, y) \/ (x \in Members(q) /\ y = e)
    <2>0. PICK j \in DOMAIN Append(q, e) :
              \E i \in 1 .. (j - 1) : Append(q, e)[i] = x /\ Append(q, e)[j] = y
        BY <1>3 DEF Precedes
    <2>1. PICK i \in 1 .. (j - 1) : Append(q, e)[i] = x /\ Append(q, e)[j] = y
        BY <2>0
    <2>2. i \in 1 .. n /\ q[i] = x
        BY <1>1, <2>1
    <2>3. CASE j \in 1 .. n
        BY <1>1, <2>1, <2>2, <2>3 DEF Precedes
    <2>4. CASE j \notin 1 .. n
        BY <1>1, <2>1, <2>2, <2>4 DEF Members
    <2>. QED BY <2>3, <2>4
<1>. QED BY <1>2, <1>3

(* What is kept is kept in its order.                                      *)
LEMMA WithoutOrder ==
    ASSUME NEW T, NEW s \in Seq(T), NEW S
    PROVE  /\ Without(s, S) \in Seq(T) /\ Members(Without(s, S)) = Members(s) \ S
           /\ \A x, y : Precedes(Without(s, S), x, y) => Precedes(s, x, y)
<1> DEFINE n == Len(s)
           Step(f, i) == IF i = 0 THEN << >>
                         ELSE IF s[i] \in S THEN f[i - 1] ELSE Append(f[i - 1], s[i])
           Upto(i) == {s[j] : j \in 1 .. i}
           Kept(i, r) == /\ r \in Seq(T) /\ Members(r) \subseteq Upto(i)
                         /\ \A x, y : Precedes(r, x, y) => Precedes(s, x, y)
<1>1. n \in Nat /\ DOMAIN s = 1 .. n
    BY LenProperties
<1>2. PICK kept : kept = [i \in 0 .. n |-> Step(kept, i)] /\ Without(s, S) = kept[n]
    BY WithoutUnfold
<1>3. Kept(0, << >>)
    <2>1. << >> \in Seq(T) /\ DOMAIN << >> = {}
        BY EmptySeq, LenProperties
    <2>. QED BY <2>1 DEF Members, Precedes
<1>4. ASSUME NEW i \in 1 .. n, NEW r, Kept(i - 1, r)
      PROVE  Kept(i, r) /\ Kept(i, Append(r, s[i]))
    <2>1. s[i] \in T /\ Upto(i) = Upto(i - 1) \cup {s[i]}
        BY <1>1, ElementOfSeq
    <2>2. /\ Append(r, s[i]) \in Seq(T) /\ Members(Append(r, s[i])) = Members(r) \cup {s[i]}
          /\ \A x, y : Precedes(Append(r, s[i]), x, y) =>
                Precedes(r, x, y) \/ (x \in Members(r) /\ y = s[i])
        BY <1>4, <2>1, AppendOrder
    <2>3. ASSUME NEW x \in Members(r) PROVE Precedes(s, x, s[i])
        <3>1. PICK j \in 1 .. (i - 1) : x = s[j]
            BY <1>4
        <3>. QED BY <1>1, <3>1 DEF Precedes
    <2>. QED BY <1>4, <2>1, <2>2, <2>3
<1> DEFINE P == {i \in 0 .. n : Kept(i, kept[i])}
<1>5. 0 \in P
    BY <1>1, <1>2, <1>3
<1>6. ASSUME NEW i \in 1 .. n, i - 1 \in P PROVE i \in P
    <2>1. kept[i] = Step(kept, i) /\ i # 0
        <3>1. i \in 0 .. n /\ i # 0
            BY <1>1
        <3> HIDE DEF Step, n
        <3>. QED BY <1>2, <3>1
    <2>2. Kept(i - 1, kept[i - 1])
        BY <1>6
    <2> HIDE DEF Kept
    <2>3. Kept(i, kept[i])
        BY <2>1, <2>2, <1>4
    <2>. QED BY <2>3
<1>7. n \in P
    <2>1. P \in SUBSET (0 .. n)
        OBVIOUS
    <2> HIDE DEF P, n
    <2>2. \A i \in 0 .. n : i \in P
        BY <1>1, <1>5, <1>6, <2>1, UpTo
    <2>. QED BY <1>1, <2>2
<1>8. Kept(n, Without(s, S))
    BY <1>2, <1>7
<1>. QED BY <1>8, WithoutMembers

(* RemoveAt takes out one place.                                           *)
LEMMA RemovedAt ==
    ASSUME NEW T, NEW s \in Seq(T), NEW k \in 1 .. Len(s)
    PROVE  /\ RemoveAt(s, k) \in Seq(T) /\ DOMAIN RemoveAt(s, k) = 1 .. (Len(s) - 1)
           /\ DOMAIN s = 1 .. Len(s) /\ Len(s) \in Nat
           /\ \A i \in 1 .. (Len(s) - 1) :
                 RemoveAt(s, k)[i] = IF i < k THEN s[i] ELSE s[i + 1]
<1> DEFINE n == Len(s)
           a == SubSeq(s, 1, k - 1)
           b == SubSeq(s, k + 1, n)
<1>1. n \in Nat /\ DOMAIN s = 1 .. n /\ \A i \in 1 .. n : s[i] \in T
    BY LenProperties, ElementOfSeq
<1>2. /\ a \in Seq(T) /\ Len(a) = k - 1
      /\ \A i \in 1 .. (k - 1) : a[i] = s[i]
    <2>1. \A i \in 1 .. (k - 1) : s[i] \in T
        BY <1>1
    <2>2. /\ a \in Seq(T) /\ Len(a) = IF 1 <= k - 1 THEN (k - 1) - 1 + 1 ELSE 0
          /\ \A i \in 1 .. ((k - 1) - 1 + 1) : a[i] = s[1 + i - 1]
        BY <2>1, SubSeqProperties
    <2>. QED BY <2>2, <1>1
<1>3. /\ b \in Seq(T) /\ Len(b) = n - k
      /\ \A i \in 1 .. (n - k) : b[i] = s[k + i]
    <2>1. \A i \in (k + 1) .. n : s[i] \in T
        BY <1>1
    <2>2. /\ b \in Seq(T) /\ Len(b) = IF k + 1 <= n THEN n - (k + 1) + 1 ELSE 0
          /\ \A i \in 1 .. (n - (k + 1) + 1) : b[i] = s[(k + 1) + i - 1]
        BY <2>1, <1>1, SubSeqProperties
    <2> HIDE DEF b
    <2>3. /\ n - (k + 1) + 1 = n - k /\ (~(k + 1 <= n) => n - k = 0)
          /\ \A i \in 1 .. (n - k) : (k + 1) + i - 1 = k + i
        <3> HIDE DEF n
        <3>. QED BY <1>1
    <2>. QED BY <2>2, <2>3
<1>4. /\ RemoveAt(s, k) \in Seq(T) /\ Len(RemoveAt(s, k)) = Len(a) + Len(b)
      /\ \A i \in 1 .. (Len(a) + Len(b)) :
            RemoveAt(s, k)[i] = IF i <= Len(a) THEN a[i] ELSE b[i - Len(a)]
    BY <1>2, <1>3, ConcatProperties DEF RemoveAt
<1> HIDE DEF a, b
<1>5. DOMAIN RemoveAt(s, k) = 1 .. (n - 1)
    <2>1. Len(a) + Len(b) = n - 1
        BY <1>1, <1>2, <1>3
    <2>2. DOMAIN RemoveAt(s, k) = 1 .. Len(RemoveAt(s, k))
        BY <1>4, LenProperties
    <2>. QED BY <1>4, <2>1, <2>2
<1>6. ASSUME NEW i \in 1 .. (n - 1)
      PROVE  RemoveAt(s, k)[i] = IF i < k THEN s[i] ELSE s[i + 1]
    <2>1. CASE i < k
        BY <1>1, <1>2, <1>3, <1>4, <2>1
    <2>2. CASE ~(i < k)
        <3>1. i \in 1 .. (Len(a) + Len(b)) /\ ~(i <= Len(a)) /\ i - Len(a) \in 1 .. (n - k)
              /\ k + (i - Len(a)) = i + 1
            BY <1>1, <1>2, <1>3, <2>2
        <3>. QED BY <1>3, <1>4, <2>2, <3>1
    <2>. QED BY <2>1, <2>2
<1>. QED BY <1>1, <1>4, <1>5, <1>6

-----------------------------------------------------------------------------
(* The invariant                                                           *)

At(t) == Members(members[t])
Current(l) == owner[lobby[l].client] = l

(* Lobby clients and connections: who is unknown is as he was created; a   *)
(* connection's lobby client is reached by its last connection; without an *)
(* account it is the one it was created for.                               *)
OwnersInv ==
    /\ \A l \in Clients : lobby[l].client = None =>
          /\ lobby[l] = NewLobbyClient /\ entries[l] = {}
          /\ \A t \in Tables : l \notin At(t)
    /\ \A c \in Clients : owner[c] = None <=> lobby[c].client = None
    /\ \A c \in Clients : owner[c] # None =>
          /\ lobby[owner[c]].client # None /\ Current(owner[c])
          /\ owner[c] # c => lobby[owner[c]].account # None
    /\ \A l \in Known : IF lobby[l].account = None THEN lobby[l].client = l ELSE Current(l)

(* Tables: the members have accounts, different ones, and both sides agree.*)
SidesInv ==
    /\ \A t \in Tables : \A l \in At(t) : lobby[l].account # None
    /\ \A l \in Known : Current(l) /\ lobby[l].account = None => entries[l] = {}
    /\ \A t \in Tables : \A i, j \in DOMAIN members[t] :
          lobby[members[t][i]].account = lobby[members[t][j]].account => i = j
    /\ \A l \in Known : Current(l) => \A t \in Tables : l \in At(t) <=> t \in entries[l]

(* A token that is held was created, and for one lobby client at most.     *)
HolderInv ==
    /\ \A k \in DOMAIN holder : holder[k] # None =>
          k <= Len(tokens) /\ lobby[holder[k]].account # None
    /\ \A j, k \in DOMAIN holder : holder[j] = holder[k] /\ holder[k] # None => j = k

(* What x, which waits before y, says of y.                                *)
Before(x, y) ==
    /\ x.client = y.client => /\ y.op # "connected"
                              /\ y.op \in Asking => x.op \notin Asking \cup {"disconnected"}
                              /\ ~(x.op = "disconnected" /\ y.op = "disconnected")
                              /\ y.op = "tolerated" => x.op \in {"enter", "leave"}
                              /\ x.op # "tolerated"
    /\ x.op = "auth" /\ y.op = "auth" => x.arg # y.arg

(* What a waiting task finds, as long as it waits.                         *)
Finds(x, alive, threads) ==
    /\ x.op = "login" => x.arg \in Accounts
    /\ x.op = "auth" => x.arg \in 1 .. Len(tokens) /\ x.arg <= MaxTokens
    /\ x.op \in {"enter", "leave"} => x.arg \in Tables
    /\ x.op \in Asking => owner[x.client] = x.client /\ lobby[x.client].account = None
    /\ x.op = "connected" => owner[x.client] = None
    /\ x.op = "disconnected" => /\ ~alive[x.client]
                                /\ owner[x.client] # None =>
                                      lobby[owner[x.client]].client = x.client
    /\ x.op = "tolerated" => threads[x.client] = "gone"
    /\ x.op = "auth" /\ holder[x.arg] # None =>
          /\ lobby[holder[x.arg]].tolerant
          /\ \A c \in Clients : owner[c] = holder[x.arg] => threads[c] = "gone"

(* The queue, the connections and the timers: who is not yet connected has *)
(* no task, who is lost no timer before his disconnection was handled, and *)
(* a lobby client that is not back has no connection.                      *)
QueueInv(queue, alive, threads, delayed) ==
    /\ \A x, y \in Members(queue) : Precedes(queue, x, y) => Before(x, y)
    /\ \A x \in Members(queue) : Finds(x, alive, threads)
    /\ \A c \in Clients : threads[c] \in {"none", "started"} =>
          owner[c] = None /\ c \notin delayed /\ \A x \in Members(queue) : x.client # c
    /\ \A c \in Clients : threads[c] \in {"none", "gone"} => ~alive[c]
    /\ \A c \in delayed :
          /\ ~alive[c]
          /\ \A x \in Members(queue) : x.client = c => x.op \in {"enter", "leave"}
    /\ \A l \in Known : Current(l) /\ ~IsBack(l) =>
          /\ ~alive[lobby[l].client]
          /\ \A x \in Members(queue) : x.client = lobby[l].client => x.op # "disconnected"
    /\ \A c \in Clients : owner[c] # None /\ lobby[owner[c]].client # c => threads[c] = "gone"

(* Fewer tasks and timers.                                                 *)
LEMMA FewerTasks ==
    ASSUME NEW q, NEW alive, NEW threads, NEW delayed, QueueInv(q, alive, threads, delayed),
           NEW r, Members(r) \subseteq Members(q),
           \A x, y : Precedes(r, x, y) => Precedes(q, x, y),
           NEW rest \in SUBSET delayed
    PROVE  QueueInv(r, alive, threads, rest)
BY DEF QueueInv

LEMMA PopKeeps ==
    ASSUME NEW q \in Seq(Tasks), q # << >>,
           NEW alive, NEW threads, NEW delayed, QueueInv(q, alive, threads, delayed)
    PROVE  /\ Head(q) \in Tasks /\ Tail(q) \in Seq(Tasks)
           /\ Head(q) \in Members(q)
           /\ QueueInv(Tail(q), alive, threads, delayed)
           /\ \A y \in Members(Tail(q)) : y \in Members(q) /\ Before(Head(q), y)
           /\ Finds(Head(q), alive, threads)
<1>1. /\ Head(q) \in Tasks /\ Tail(q) \in Seq(Tasks) /\ Members(q) = Members(Tail(q)) \cup {Head(q)}
      /\ \A y \in Members(Tail(q)) : Precedes(q, Head(q), y)
      /\ \A x, y : Precedes(Tail(q), x, y) => Precedes(q, x, y)
    BY TailOrder
<1>2. QueueInv(Tail(q), alive, threads, delayed)
    BY <1>1, FewerTasks
<1>3. \A y \in Members(Tail(q)) : Before(Head(q), y)
    BY <1>1 DEF QueueInv
<1>4. Finds(Head(q), alive, threads)
    BY <1>1 DEF QueueInv
<1>. QED BY <1>1, <1>2, <1>3, <1>4

(* A task more, when everything that waits allows it.                      *)
LEMMA CallKeeps ==
    ASSUME NEW q \in Seq(Tasks), NEW alive, NEW threads, NEW delayed,
           QueueInv(q, alive, threads, delayed),
           NEW x \in Tasks, \A y \in Members(q) : Before(y, x), Finds(x, alive, threads),
           threads[x.client] \notin {"none", "started"},
           x.client \in delayed => x.op \in {"enter", "leave"},
           x.op = "disconnected" =>
               \A l \in Known : Current(l) /\ ~IsBack(l) => lobby[l].client # x.client
    PROVE  /\ QueueInv(Append(q, x), alive, threads, delayed)
           /\ Append(q, x) \in Seq(Tasks) /\ Members(Append(q, x)) = Members(q) \cup {x}
<1>1. /\ Append(q, x) \in Seq(Tasks) /\ Members(Append(q, x)) = Members(q) \cup {x}
      /\ \A y, z : Precedes(Append(q, x), y, z) =>
                 Precedes(q, y, z) \/ (y \in Members(q) /\ z = x)
    BY AppendOrder
<1>2. \A y, z \in Members(Append(q, x)) : Precedes(Append(q, x), y, z) => Before(y, z)
    <2>1. SUFFICES ASSUME NEW y, NEW z, Precedes(Append(q, x), y, z) PROVE Before(y, z)
        OBVIOUS
    <2>2. CASE y \in Members(q) /\ z = x
        BY <2>2
    <2>3. CASE Precedes(q, y, z)
        <3>1. y \in Members(q) /\ z \in Members(q)
            <4>1. PICK j \in DOMAIN q : \E i \in 1 .. (j - 1) : q[i] = y /\ q[j] = z
                BY <2>3 DEF Precedes
            <4>2. PICK i \in 1 .. (j - 1) : q[i] = y /\ q[j] = z
                BY <4>1
            <4>3. i \in DOMAIN q
                BY <4>2, LenProperties
            <4>. QED BY <4>2, <4>3 DEF Members
        <3>. QED BY <2>3, <3>1 DEF QueueInv
    <2>. QED BY <1>1, <2>1, <2>2, <2>3
<1>. QED BY <1>1, <1>2 DEF QueueInv

Queues == QueueInv(net.queue, net.alive, thread, timers)

-----------------------------------------------------------------------------
(* The operations on what the threads share                                *)

LEMMA UseClientIs ==
    ASSUME NEW n \in Nets, NEW c \in Clients
    PROVE  /\ UseClient(n, c) \in Nets
           /\ UseClient(n, c).queue = n.queue /\ UseClient(n, c).alive = n.alive
           /\ UseClient(n, c).freed = n.freed
           /\ UseClient(n, c).refs = [n.refs EXCEPT ![c] = @ + 1]
<1>1. n.refs \in [Clients -> Int] /\ [n.refs EXCEPT ![c] = @ + 1] \in [Clients -> Int]
    BY DEF Nets
<1>2. UseClient(n, c) = [n EXCEPT !.refs = [n.refs EXCEPT ![c] = @ + 1]]
    BY DEF UseClient
<1>. QED BY <1>1, <1>2 DEF Nets

LEMMA LeaveClientIs ==
    ASSUME NEW n \in Nets, NEW c \in Clients
    PROVE  /\ LeaveClient(n, c) \in Nets
           /\ LeaveClient(n, c).queue = n.queue /\ LeaveClient(n, c).alive = n.alive
           /\ LeaveClient(n, c).freed = IF n.refs[c] = 1 THEN n.freed \cup {c} ELSE n.freed
           /\ LeaveClient(n, c).refs = [n.refs EXCEPT ![c] = @ - 1]
<1> DEFINE refs == [n.refs EXCEPT ![c] = @ - 1]
           freed == IF n.refs[c] = 1 THEN n.freed \cup {c} ELSE n.freed
<1>1. n.refs \in [Clients -> Int] /\ refs \in [Clients -> Int] /\ freed \in SUBSET Clients
    BY DEF Nets
<1>2. LeaveClient(n, c) = [n EXCEPT !.refs = refs, !.freed = freed]
    BY DEF LeaveClient
<1> HIDE DEF refs, freed
<1>3. LeaveClient(n, c) \in Nets /\ LeaveClient(n, c).queue = n.queue
      /\ LeaveClient(n, c).alive = n.alive
      /\ LeaveClient(n, c).freed = freed /\ LeaveClient(n, c).refs = refs
    BY <1>1, <1>2 DEF Nets
<1>. QED BY <1>3 DEF refs, freed

LEMMA CallIs ==
    ASSUME NEW n \in Nets, NEW x \in Tasks
    PROVE  /\ Call(n, x) \in Nets
           /\ Call(n, x).queue = Append(n.queue, x) /\ Call(n, x).alive = n.alive
           /\ Call(n, x).freed = n.freed /\ Call(n, x).refs = n.refs
BY AppendProperties DEF Call, Nets

LEMMA TaskIs ==
    ASSUME NEW op \in Asking \cup {"connected", "enter", "leave", "disconnected", "tolerated"},
           NEW c \in Clients, NEW arg \in Accounts \cup Tables \cup Nat
    PROVE  /\ Task(op, c, arg) \in Tasks
           /\ Task(op, c, arg).op = op /\ Task(op, c, arg).client = c /\ Task(op, c, arg).arg = arg
BY DEF Task, Tasks

LEMMA NoneIs == None \notin Clients /\ None \in Nat /\ Clients \subseteq Nat /\ 0 \in Nat
BY ClientsAssumption DEF None, Clients

LEMMA DisconnectIs ==
    ASSUME NEW n \in Nets, NEW c \in Clients
    PROVE  /\ Disconnect(n, c) \in Nets
           /\ ~n.alive[c] => Disconnect(n, c) = n
           /\ n.alive[c] =>
                 /\ Disconnect(n, c).queue = Append(n.queue, Task("disconnected", c, None))
                 /\ Disconnect(n, c).alive = [n.alive EXCEPT ![c] = FALSE]
                 /\ Disconnect(n, c).refs = [n.refs EXCEPT ![c] = @ - 2]
                 /\ Disconnect(n, c).freed =
                        IF n.refs[c] \in {1, 2} THEN n.freed \cup {c} ELSE n.freed
<1>1. CASE ~n.alive[c]
    BY <1>1 DEF Disconnect
<1>2. CASE n.alive[c]
    <2> DEFINE x == Task("disconnected", c, None)
               n1 == [n EXCEPT !.alive[c] = FALSE]
               n2 == LeaveClient(n1, c)
               n3 == [n2 EXCEPT !.listed = @ \ {c}]
               n4 == Call(n3, x)
    <2>1. x \in Tasks
        BY TaskIs, NoneIs
    <2>2. /\ n1 \in Nets /\ n1.queue = n.queue /\ n1.alive = [n.alive EXCEPT ![c] = FALSE]
          /\ n1.refs = n.refs /\ n1.freed = n.freed
        BY DEF Nets
    <2> HIDE DEF n1
    <2>3. /\ n2 \in Nets /\ n2.queue = n1.queue /\ n2.alive = n1.alive
          /\ n2.freed = IF n1.refs[c] = 1 THEN n1.freed \cup {c} ELSE n1.freed
          /\ n2.refs = [n1.refs EXCEPT ![c] = @ - 1]
        BY <2>2, LeaveClientIs
    <2> HIDE DEF n2
    <2>4. /\ n3 \in Nets /\ n3.queue = n2.queue /\ n3.alive = n2.alive
          /\ n3.refs = n2.refs /\ n3.freed = n2.freed
        BY <2>3 DEF Nets
    <2>5. n3 = RemoveClient(n1, c)
        BY DEF RemoveClient, n2
    <2> HIDE DEF n3, x
    <2>6. /\ n4 \in Nets /\ n4.queue = Append(n3.queue, x) /\ n4.alive = n3.alive
          /\ n4.freed = n3.freed /\ n4.refs = n3.refs
        BY <2>1, <2>4, CallIs
    <2> HIDE DEF n4
    <2> DEFINE n5 == LeaveClient(n4, c)
    <2>7. /\ n5 \in Nets /\ n5.queue = n4.queue /\ n5.alive = n4.alive
          /\ n5.freed = IF n4.refs[c] = 1 THEN n4.freed \cup {c} ELSE n4.freed
          /\ n5.refs = [n4.refs EXCEPT ![c] = @ - 1]
        BY <2>6, LeaveClientIs
    <2>8. Disconnect(n, c) = n5
        BY <1>2, <2>5 DEF Disconnect, n4, x, n1
    <2> HIDE DEF n5
    <2>9. n.refs \in [Clients -> Int] /\ n.refs[c] \in Int
        BY DEF Nets
    <2>10. n5.refs = [n.refs EXCEPT ![c] = @ - 2]
        BY <2>2, <2>3, <2>4, <2>6, <2>7, <2>9
    <2>11. n5.freed = IF n.refs[c] \in {1, 2} THEN n.freed \cup {c} ELSE n.freed
        <3>1. n4.refs[c] = n.refs[c] - 1
            BY <2>2, <2>3, <2>4, <2>6, <2>9
        <3>2. n4.freed = IF n.refs[c] = 1 THEN n.freed \cup {c} ELSE n.freed
            BY <2>2, <2>3, <2>4, <2>6
        <3>3. (n.refs[c] - 1 = 1) <=> (n.refs[c] = 2)
            BY <2>9
        <3>. QED BY <2>7, <3>1, <3>2, <3>3
    <2>. QED BY <1>2, <2>2, <2>3, <2>4, <2>6, <2>7, <2>8, <2>10, <2>11 DEF x
<1>. QED BY <1>1, <1>2

(* Finding a connection lost keeps the order of tasks.                     *)
LEMMA DisconnectKeeps ==
    ASSUME TypeInv, NEW n \in Nets, NEW c \in Clients, NEW threads, NEW delayed \in SUBSET Clients,
           QueueInv(n.queue, n.alive, threads, delayed),
           threads[c] \notin {"none", "started"}
    PROVE  QueueInv(Disconnect(n, c).queue, Disconnect(n, c).alive, threads, delayed)
<1>1. CASE ~n.alive[c]
    BY <1>1, DisconnectIs
<1>2. CASE n.alive[c]
    <2> DEFINE x == Task("disconnected", c, None)
               alive == [n.alive EXCEPT ![c] = FALSE]
    <2>1. x \in Tasks /\ x.op = "disconnected" /\ x.client = c
        BY TaskIs, NoneIs
    <2>2. /\ n.queue \in Seq(Tasks) /\ \A d \in Clients : alive[d] => n.alive[d]
          /\ ~alive[c]
        BY DEF Nets
    <2>2a. \A y \in Members(n.queue) : y.client \in Clients
        <3>1. Members(n.queue) \subseteq Tasks
            BY <2>2, MembersByIndex
        <3>. QED BY <3>1 DEF Tasks
    <2>2b. \A l \in Known : lobby[l].client \in Clients
        BY DEF Known, TypeInv, LobbyClients
    <2> HIDE DEF x, alive
    <2>3. threads[c] # "gone" /\ c \notin delayed
        BY <1>2 DEF QueueInv
    <2>4. ASSUME NEW y \in Members(n.queue) PROVE Before(y, x)
        BY <1>2, <2>1, <2>3, <2>4 DEF QueueInv, Finds, Before, Asking
    <2>5. owner[c] # None => lobby[owner[c]].client = c
        BY <2>3 DEF QueueInv
    <2>6. QueueInv(n.queue, alive, threads, delayed)
        BY <2>2, <2>2a, <2>2b DEF QueueInv, Finds
    <2>7. Finds(x, alive, threads)
        BY <2>1, <2>2, <2>5 DEF Finds, Asking
    <2>8. \A l \in Known : Current(l) /\ ~IsBack(l) => lobby[l].client # x.client
        BY <1>2, <2>1 DEF QueueInv
    <2>9. QueueInv(Append(n.queue, x), alive, threads, delayed)
        BY <2>1, <2>2, <2>3, <2>4, <2>6, <2>7, <2>8, CallKeeps
    <2>10. Disconnect(n, c).queue = Append(n.queue, x) /\ Disconnect(n, c).alive = alive
        BY <1>2, DisconnectIs DEF x, alive
    <2>. QED BY <2>9, <2>10
<1>. QED BY <1>1, <1>2

(* As long as the lobby changes nothing.                                   *)
LEMMA LobbyStays ==
    ASSUME UNCHANGED lobbyVars, QueueInv(net.queue', net.alive', thread', timers)
    PROVE  Queues'
BY DEF Queues, QueueInv, Finds, Current, Known, IsBack, lobbyVars

LEMMA TypeStays ==
    ASSUME TypeInv, UNCHANGED lobbyVars, net' \in Nets,
           thread' \in [Clients -> {"none", "started", "receiving", "gone"}]
    PROVE  TypeInv'
BY DEF TypeInv, lobbyVars

LEMMA KnownAre ==
    ASSUME TypeInv
    PROVE  /\ net \in Nets /\ net.queue \in Seq(Tasks)
           /\ net.alive \in [Clients -> BOOLEAN] /\ net.refs \in [Clients -> Int]
           /\ \A x \in Members(net.queue) : x \in Tasks /\ x.client \in Clients
           /\ \A l \in Known : l \in Clients /\ lobby[l].client \in Clients
           /\ timers \in SUBSET Clients
           /\ thread \in [Clients -> {"none", "started", "receiving", "gone"}]
<1>1. net \in Nets /\ net.queue \in Seq(Tasks) /\ net.alive \in [Clients -> BOOLEAN]
      /\ net.refs \in [Clients -> Int]
    BY DEF TypeInv, Nets
<1>2. Members(net.queue) \subseteq Tasks
    BY <1>1, MembersByIndex
<1>3. \A x \in Tasks : x.client \in Clients
    BY DEF Tasks
<1>4. \A l \in Known : l \in Clients /\ lobby[l].client \in Clients
    BY DEF Known, TypeInv, LobbyClients
<1>. QED BY <1>1, <1>2, <1>3, <1>4 DEF TypeInv

-----------------------------------------------------------------------------
(* The threads                                                             *)

LEMMA AcceptQueues ==
    ASSUME TypeInv, OwnersInv, Queues, NEW c \in Clients, Accept(c), UNCHANGED lobbyVars
    PROVE  TypeInv' /\ Queues'
<1> DEFINE n == [net EXCEPT !.alive[c] = TRUE]
<1>1. /\ n \in Nets /\ n.queue = net.queue /\ n.alive = [net.alive EXCEPT ![c] = TRUE]
      /\ n.refs = net.refs /\ n.freed = net.freed
    <2>1. net \in Nets /\ [net.alive EXCEPT ![c] = TRUE] \in [Clients -> BOOLEAN]
        BY DEF TypeInv, Nets
    <2>2. n = [net EXCEPT !.alive = [net.alive EXCEPT ![c] = TRUE]]
        OBVIOUS
    <2> HIDE DEF n
    <2>. QED BY <2>1, <2>2 DEF Nets
<1> DEFINE u == UseClient(n, c)
           v == [u EXCEPT !.listed = @ \cup {c}]
<1>2. u \in Nets /\ u.queue = n.queue /\ u.alive = n.alive
    BY <1>1, UseClientIs
<1>3. v \in Nets /\ v.queue = u.queue /\ v.alive = u.alive
    <2> HIDE DEF u
    <2>. QED BY <1>2 DEF Nets
<1>4. net' = UseClient(v, c)
    BY DEF Accept, Accepted, AddClient
<1> HIDE DEF n, u, v
<1>5. net' \in Nets /\ net'.queue = net.queue /\ net'.alive = [net.alive EXCEPT ![c] = TRUE]
    BY <1>1, <1>2, <1>3, <1>4, UseClientIs
<1>6. /\ thread[c] = "none" /\ thread' = [thread EXCEPT ![c] = "started"]
      /\ thread' \in [Clients -> {"none", "started", "receiving", "gone"}]
    BY DEF Accept, Connects, TypeInv
<1>7. /\ owner[c] = None /\ c \notin timers /\ \A x \in Members(net.queue) : x.client # c
    BY <1>6 DEF Queues, QueueInv
<1>8. QueueInv(net.queue', net.alive', thread', timers)
    <2> DEFINE alive == [net.alive EXCEPT ![c] = TRUE]
               threads == [thread EXCEPT ![c] = "started"]
    <2>1. /\ \A d \in Clients : d # c => alive[d] = net.alive[d] /\ threads[d] = thread[d]
          /\ threads[c] = "started" /\ timers \subseteq Clients
        BY DEF TypeInv, Nets
    <2>2. \A x \in Members(net.queue) : x.client \in Clients
        BY KnownAre
    <2>3. \A l \in Known : l \in Clients /\ lobby[l].client \in Clients
        BY KnownAre
    <2>4. \A k \in 1 .. MaxTokens : holder[k] # None => holder[k] \in Clients
        BY DEF TypeInv
    <2> HIDE DEF alive, threads
    <2>5. \A x \in Members(net.queue) : Finds(x, alive, threads)
        <3>1. SUFFICES ASSUME NEW x \in Members(net.queue) PROVE Finds(x, alive, threads)
            OBVIOUS
        <3>2. Finds(x, net.alive, thread) /\ x.client \in Clients /\ x.client # c
            BY <1>7, <2>2 DEF Queues, QueueInv
        <3>. QED BY <1>7, <2>1, <3>2 DEF Finds
    <2>6. QueueInv(net.queue, alive, threads, timers)
        <3>1. \A l \in Known : Current(l) => lobby[l].client # c
            BY <1>7, <2>3, NoneIs DEF Current
        <3>2. \A d \in Clients : threads[d] = "gone" <=> thread[d] = "gone"
            BY <1>6, <2>1
        <3>. QED BY <1>6, <1>7, <2>1, <2>2, <2>3, <2>5, <3>1, <3>2 DEF Queues, QueueInv
    <2>. QED BY <1>5, <1>6, <2>6 DEF alive, threads
<1>. QED BY <1>5, <1>6, <1>8, LobbyStays, TypeStays

LEMMA OverCapacityQueues ==
    ASSUME TypeInv, Queues, NEW c \in Clients, AcceptOverCapacity(c), UNCHANGED lobbyVars
    PROVE  TypeInv' /\ Queues'
<1> DEFINE n == [UseClient(net, c) EXCEPT !.listed = @ \cup {c}]
<1>1. UseClient(net, c) \in Nets
      /\ UseClient(net, c).queue = net.queue /\ UseClient(net, c).alive = net.alive
    BY UseClientIs DEF TypeInv
<1>2. n \in Nets /\ n.queue = net.queue /\ n.alive = net.alive
    BY <1>1 DEF Nets
<1>3. LeaveClient(n, c) \in Nets /\ LeaveClient(n, c).queue = net.queue
      /\ LeaveClient(n, c).alive = net.alive
    <2> HIDE DEF n
    <2>. QED BY <1>2, LeaveClientIs
<1>4. net' = [LeaveClient(n, c) EXCEPT !.listed = @ \ {c}]
    BY DEF AcceptOverCapacity, RemoveClient, AddClient
<1>5. net' \in Nets /\ net'.queue = net.queue /\ net'.alive = net.alive
    <2> HIDE DEF n
    <2>. QED BY <1>3, <1>4 DEF Nets
<1>6. /\ thread[c] = "none" /\ thread' = [thread EXCEPT ![c] = "gone"]
      /\ thread' \in [Clients -> {"none", "started", "receiving", "gone"}]
    BY DEF AcceptOverCapacity, Connects, TypeInv
<1>7. QueueInv(net.queue, net.alive, thread', timers)
    <2>1. \A d \in Clients : thread'[d] = IF d = c THEN "gone" ELSE thread[d]
        BY <1>6 DEF TypeInv
    <2>2. \A x \in Members(net.queue) : x.client \in Clients
        BY KnownAre
    <2>. QED BY <1>6, <2>1, <2>2 DEF Queues, QueueInv, Finds
<1>. QED BY <1>5, <1>6, <1>7, LobbyStays, TypeStays

LEMMA AnnounceQueues ==
    ASSUME TypeInv, Queues, NEW c \in Clients, Announce(c), UNCHANGED lobbyVars
    PROVE  TypeInv' /\ Queues'
<1> DEFINE x == Task("connected", c, None)
           threads == [thread EXCEPT ![c] = "receiving"]
<1>1. /\ thread[c] = "started" /\ thread' = threads /\ net' = Call(net, x)
      /\ threads \in [Clients -> {"none", "started", "receiving", "gone"}]
      /\ \A d \in Clients : threads[d] = IF d = c THEN "receiving" ELSE thread[d]
    BY DEF Announce, TypeInv
<1>2. x \in Tasks /\ x.op = "connected" /\ x.client = c
    BY TaskIs, NoneIs
<1> HIDE DEF x, threads
<1>3. /\ net' \in Nets /\ net'.queue = Append(net.queue, x) /\ net'.alive = net.alive
    BY <1>1, <1>2, CallIs, KnownAre
<1>4. owner[c] = None /\ c \notin timers /\ \A y \in Members(net.queue) : y.client # c
    BY <1>1 DEF Queues, QueueInv
<1>5. QueueInv(net.queue, net.alive, threads, timers)
    <2>1. \A d \in Clients : threads[d] = "gone" <=> thread[d] = "gone"
        BY <1>1
    <2>. QED BY <1>1, <2>1, KnownAre DEF Queues, QueueInv, Finds
<1>6. \A y \in Members(net.queue) : Before(y, x)
    BY <1>2, <1>4 DEF Before
<1>7. Finds(x, net.alive, threads)
    BY <1>2, <1>4 DEF Finds, Asking
<1>8. threads[x.client] \notin {"none", "started"} /\ x.client \notin timers
    BY <1>1, <1>2, <1>4
<1>9. QueueInv(Append(net.queue, x), net.alive, threads, timers)
    BY <1>2, <1>5, <1>6, <1>7, <1>8, CallKeeps, KnownAre
<1>10. QueueInv(net.queue', net.alive', thread', timers)
    BY <1>1, <1>3, <1>9
<1>. QED BY <1>1, <1>3, <1>10, LobbyStays, TypeStays

(* A packet becomes a task, when what waits allows it.                     *)
LEMMA ReceiveQueues ==
    ASSUME TypeInv, Queues, NEW c \in Clients,
           NEW op \in Asking \cup {"enter", "leave"}, NEW arg \in Accounts \cup Tables \cup Nat,
           Receive(c, op, arg), UNCHANGED lobbyVars,
           \A y \in Members(net.queue) : Before(y, Task(op, c, arg)),
           Finds(Task(op, c, arg), net.alive, thread),
           op \in Asking => net.alive[c]
    PROVE  TypeInv' /\ Queues'
<1> DEFINE x == Task(op, c, arg)
<1>1. thread[c] = "receiving" /\ thread' = thread /\ net' = Call(net, x)
    BY DEF Receive
<1>2. x \in Tasks /\ x.op = op /\ x.client = c
    BY TaskIs
<1> HIDE DEF x
<1>3. net' \in Nets /\ net'.queue = Append(net.queue, x) /\ net'.alive = net.alive
    BY <1>1, <1>2, CallIs, KnownAre
<1>4. /\ thread[x.client] \notin {"none", "started"}
      /\ x.client \in timers => x.op \in {"enter", "leave"}
      /\ x.op # "disconnected"
    BY <1>1, <1>2 DEF Queues, QueueInv, Asking
<1>5. /\ \A y \in Members(net.queue) : Before(y, x)
      /\ Finds(x, net.alive, thread)
    BY DEF x
<1>6. QueueInv(Append(net.queue, x), net.alive, thread, timers)
    BY <1>2, <1>4, <1>5, CallKeeps, KnownAre DEF Queues
<1>7. QueueInv(net.queue', net.alive', thread', timers)
    BY <1>1, <1>3, <1>6
<1>. QED BY <1>1, <1>3, <1>7, KnownAre, LobbyStays, TypeStays

(* What Queued says, of the members.                                       *)
LEMMA QueuedIs ==
    ASSUME NEW c, NEW ops
    PROVE  Queued(c, ops) <=> \E x \in Members(net.queue) : x.client = c /\ x.op \in ops
BY DEF Queued, Members

LEMMA SendQueues ==
    ASSUME TypeInv, OwnersInv, Queues, Orderly, Send
    PROVE  TypeInv' /\ Queues'
<1>1. PICK c \in Clients : SendLogin(c) \/ SendToken(c) \/ SendEnter(c) \/ SendLeave(c)
    BY DEF Send
<1>2. UNCHANGED lobbyVars
    BY DEF Send
<1>3. ASSUME NEW op \in Asking, NEW arg, Receive(c, op, arg), NotYetAuthorised(c)
      PROVE  /\ owner[c] = c /\ lobby[c].account = None /\ net.alive[c]
             /\ \A y \in Members(net.queue) : y.client = c =>
                    y.op \notin Asking \cup {"disconnected", "tolerated"}
    <2>1. /\ ~Queued(c, {"login", "auth", "connected"})
          /\ owner[c] = c /\ lobby[c].account = None /\ net.alive[c]
        BY <1>3 DEF NotYetAuthorised
    <2>2. ASSUME NEW y \in Members(net.queue), y.client = c
          PROVE  y.op \notin Asking \cup {"disconnected", "tolerated"}
        <3>1. y.op \notin Asking
            BY <2>1, <2>2, QueuedIs DEF Asking
        <3>2. Finds(y, net.alive, thread) /\ thread[c] # "gone"
            BY <2>1, <2>2 DEF Queues, QueueInv
        <3>. QED BY <2>1, <2>2, <3>1, <3>2 DEF Finds
    <2>. QED BY <2>1, <2>2
<1>4. CASE SendLogin(c)
    <2>1. PICK a \in Accounts : Receive(c, "login", a)
        BY <1>4 DEF SendLogin
    <2>2. NotYetAuthorised(c)
        BY <1>4 DEF SendLogin
    <2> DEFINE x == Task("login", c, a)
    <2>3. x.op = "login" /\ x.client = c /\ x.arg = a
        BY TaskIs DEF Asking
    <2> HIDE DEF x
    <2>4. \A y \in Members(net.queue) : Before(y, x)
        BY <1>3, <2>1, <2>2, <2>3 DEF Before, Asking
    <2>5. Finds(x, net.alive, thread)
        BY <1>3, <2>1, <2>2, <2>3 DEF Finds, Asking
    <2>. QED BY <1>2, <1>3, <2>1, <2>2, <2>4, <2>5, ReceiveQueues DEF x, Asking
<1>5. CASE SendToken(c)
    <2>1. PICK k \in DOMAIN tokens : NotYetAuthorised(c) /\ NoticedLoss(k) /\ Receive(c, "auth", k)
        BY <1>5 DEF SendToken
    <2>2. k \in 1 .. Len(tokens) /\ k <= MaxTokens /\ k \in Nat
        <3>1. tokens \in Seq(Accounts) /\ Len(tokens) \in Nat /\ DOMAIN tokens = 1 .. Len(tokens)
            BY LenProperties DEF TypeInv
        <3> DEFINE asking == {i \in DOMAIN net.queue : net.queue[i].op \in {"login", "auth"}}
        <3>2. Len(tokens) + Cardinality(asking) < MaxTokens
            BY <1>5 DEF SendToken, TokensLeft
        <3>3. IsFiniteSet(DOMAIN net.queue)
            BY KnownAre, LenProperties, FS_Interval
        <3>4. Cardinality(asking) \in Nat
            <4>1. IsFiniteSet(asking)
                BY <3>3, FS_Subset
            <4>. QED BY <4>1, FS_CardinalityType
        <3> HIDE DEF asking
        <3>. QED BY <2>1, <3>1, <3>2, <3>4, MembershipAssumption
    <2> DEFINE x == Task("auth", c, k)
    <2>3. x.op = "auth" /\ x.client = c /\ x.arg = k
        BY <2>2, TaskIs DEF Asking
    <2> HIDE DEF x
    <2>4. \A y \in Members(net.queue) : Before(y, x)
        <3>1. ASSUME NEW y \in Members(net.queue), y.op = "auth" PROVE y.arg # k
            <4>1. PICK i \in DOMAIN net.queue : y = net.queue[i]
                BY DEF Members
            <4>. QED BY <2>1, <3>1, <4>1 DEF NoticedLoss
        <3>. QED BY <1>3, <2>1, <2>3, <3>1 DEF Before, Asking
    <2>5. Finds(x, net.alive, thread)
        <3>1. holder[k] # None => /\ lobby[holder[k]].tolerant
                                  /\ \A d \in Clients : owner[d] = holder[k] => thread[d] = "gone"
            BY <2>1 DEF NoticedLoss
        <3>2. owner[c] = c /\ lobby[c].account = None
            BY <1>3, <2>1 DEF Asking
        <3>. QED BY <2>2, <2>3, <3>1, <3>2 DEF Finds
    <2>6. net.alive[c]
        BY <1>3, <2>1 DEF Asking
    <2>. QED BY <1>2, <2>1, <2>2, <2>4, <2>5, <2>6, ReceiveQueues DEF x, Asking
<1>6. ASSUME NEW op \in {"enter", "leave"}, NEW t \in Tables, Receive(c, op, t)
      PROVE  TypeInv' /\ Queues'
    <2> DEFINE x == Task(op, c, t)
    <2>1. x.op = op /\ x.client = c /\ x.arg = t
        BY TaskIs
    <2> HIDE DEF x
    <2>2. thread[c] = "receiving"
        BY <1>6 DEF Receive
    <2>3. \A y \in Members(net.queue) : y.client = c => y.op # "tolerated"
        BY <2>2 DEF Queues, QueueInv, Finds
    <2>4. \A y \in Members(net.queue) : Before(y, x)
        BY <2>1, <2>3 DEF Before, Asking
    <2>5. Finds(x, net.alive, thread)
        BY <2>1 DEF Finds, Asking
    <2>. QED BY <1>2, <1>6, <2>4, <2>5, ReceiveQueues DEF x, Asking
<1>. QED BY <1>1, <1>4, <1>5, <1>6 DEF SendEnter, SendLeave

LEMMA LosingQueues ==
    ASSUME TypeInv, Queues, NEW c \in Clients, ReadFails(c) \/ WriteFails(c), UNCHANGED lobbyVars
    PROVE  TypeInv' /\ Queues'
<1>1. thread[c] = "receiving"
    BY DEF ReadFails, WriteFails
<1>2. CASE thread' = thread /\ net' = net
    BY <1>2, KnownAre, LobbyStays, TypeStays DEF Queues
<1>3. CASE /\ net' = Disconnect(net, c)
           /\ thread' = thread \/ thread' = [thread EXCEPT ![c] = "gone"]
    <2>1. net' \in Nets /\ ~net'.alive[c] /\ thread' \in [Clients -> {"none", "started", "receiving", "gone"}]
        <3>1. net' \in Nets
            BY <1>3, KnownAre, DisconnectIs
        <3>2. ~net'.alive[c]
            <4>1. CASE net.alive[c]
                <5>1. net'.alive = [net.alive EXCEPT ![c] = FALSE]
                    BY <1>3, <4>1, KnownAre, DisconnectIs
                <5>2. net.alive \in [Clients -> BOOLEAN]
                    BY KnownAre
                <5>3. net'.alive[c] = FALSE
                    BY <5>1, <5>2
                <5>. QED BY <5>3
            <4>2. CASE ~net.alive[c]
                BY <1>3, <4>2, KnownAre, DisconnectIs
            <4>. QED BY <4>1, <4>2
        <3>. QED BY <1>3, <3>1, <3>2, KnownAre
    <2>2. QueueInv(net.queue', net.alive', thread, timers)
        BY <1>1, <1>3, KnownAre, DisconnectKeeps DEF Queues
    <2>3. \A d \in Clients : thread'[d] = thread[d] \/ (d = c /\ thread'[d] = "gone")
        BY <1>3, KnownAre
    <2>4. Members(net.queue') \subseteq Tasks
        BY <2>1, MembersByIndex DEF Nets
    <2>5. \A x \in Members(net.queue') : x.client \in Clients
        BY <2>4 DEF Tasks
    <2>6. QueueInv(net.queue', net.alive', thread', timers)
        BY <1>1, <2>1, <2>2, <2>3, <2>5 DEF QueueInv, Finds
    <2>. QED BY <2>1, <2>6, LobbyStays, TypeStays
<1>. QED BY <1>1, <1>2, <1>3, KnownAre DEF ReadFails, WriteFails

LEMMA TimerQueues ==
    ASSUME TypeInv, Queues, Orderly, NEW c \in Clients, TimerDue(c)
    PROVE  TypeInv' /\ Queues'
<1> DEFINE x == Task("tolerated", c, None)
           rest == timers \ {c}
<1>1. /\ c \in timers /\ thread[c] = "gone" /\ thread' = thread
      /\ net' = Call(net, x) /\ timers' = rest
      /\ UNCHANGED <<owner, lobby, entries, members, holder, tokens>>
    BY DEF TimerDue
<1>2. x \in Tasks /\ x.op = "tolerated" /\ x.client = c
    BY TaskIs, NoneIs
<1>3. rest \in SUBSET timers /\ c \notin rest /\ rest \subseteq Clients
    BY KnownAre
<1> HIDE DEF x, rest
<1>4. net' \in Nets /\ net'.queue = Append(net.queue, x) /\ net'.alive = net.alive
    BY <1>1, <1>2, CallIs, KnownAre
<1>5. QueueInv(net.queue, net.alive, thread, rest)
    BY <1>3, FewerTasks DEF Queues
<1>6. \A y \in Members(net.queue) : Before(y, x)
    BY <1>1, <1>2 DEF Queues, QueueInv, Before, Asking
<1>7. Finds(x, net.alive, thread)
    BY <1>1, <1>2 DEF Finds, Asking
<1>8. QueueInv(Append(net.queue, x), net.alive, thread, rest)
    BY <1>1, <1>2, <1>3, <1>5, <1>6, <1>7, CallKeeps, KnownAre
<1>9. TypeInv'
    BY <1>1, <1>3, <1>4 DEF TypeInv
<1>10. Queues'
    BY <1>1, <1>4, <1>8 DEF Queues, QueueInv, Finds, Current, Known, IsBack
<1>. QED BY <1>9, <1>10

-----------------------------------------------------------------------------
(* The event loop                                                          *)

LEMMA PoppedIs ==
    ASSUME TypeInv, Queues, net.queue # << >>
    PROVE  /\ First \in Tasks /\ Client \in Clients /\ First \in Members(net.queue)
           /\ thread[Client] \notin {"none", "started"}
           /\ Finds(First, net.alive, thread)
           /\ Popped \in Nets /\ Popped.queue = Tail(net.queue)
           /\ Popped.alive = net.alive /\ Popped.refs = net.refs /\ Popped.freed = net.freed
           /\ QueueInv(Popped.queue, Popped.alive, thread, timers)
           /\ \A y \in Members(Popped.queue) :
                 y \in Members(net.queue) /\ y.client \in Clients /\ Before(First, y)
<1>1. /\ Head(net.queue) \in Tasks /\ Tail(net.queue) \in Seq(Tasks)
      /\ Head(net.queue) \in Members(net.queue)
      /\ QueueInv(Tail(net.queue), net.alive, thread, timers)
      /\ \A y \in Members(Tail(net.queue)) :
             y \in Members(net.queue) /\ Before(Head(net.queue), y)
      /\ Finds(Head(net.queue), net.alive, thread)
    BY KnownAre, PopKeeps DEF Queues
<1>2. /\ Popped \in Nets /\ Popped.queue = Tail(net.queue)
      /\ Popped.alive = net.alive /\ Popped.refs = net.refs /\ Popped.freed = net.freed
    BY <1>1, KnownAre DEF Popped, Nets
<1>3. Client \in Clients /\ \A y \in Members(net.queue) : y.client \in Clients
    BY <1>1, KnownAre DEF First, Client
<1>4. thread[Client] \notin {"none", "started"}
    BY <1>1, <1>3 DEF First, Client, Queues, QueueInv
<1>. QED BY <1>1, <1>2, <1>3, <1>4 DEF First

(* A task that begins finds its lobby client.                              *)
LEMMA OwnerIs ==
    ASSUME TypeInv, OwnersInv, Queues, net.queue # << >>, First.op # "connected", ~Unreachable
    PROVE  /\ Owner \in Clients /\ Owner \in Known /\ Owner # None /\ Current(Owner)
           /\ lobby[Owner].refs # 0
           /\ lobby[Owner].client \in Clients
           /\ Client \notin net.freed
<1>1. Client \in Clients
    BY PoppedIs
<1>2. Owner # None /\ ~FreedLobbyClient(Owner) /\ Client \notin net.freed
    BY DEF Unreachable
<1>3. Owner \in Clients
    BY <1>1, <1>2 DEF Owner, TypeInv
<1>4. lobby[Owner].client # None /\ Current(Owner)
    BY <1>1, <1>2 DEF Owner, OwnersInv
<1>. QED BY <1>2, <1>3, <1>4, KnownAre DEF Known, FreedLobbyClient

LEMMA BeginIs ==
    ASSUME NEW op, Begin(op)
    PROVE  /\ Sound /\ net.queue # << >> /\ First.op = op /\ Hazard = "none"
           /\ ~Unreachable /\ Client \notin net.freed
<1>1. Sound /\ net.queue # << >> /\ First.op = op /\ Hazard = "none"
    BY DEF Begin, Handling
<1>2. Client \notin net.freed /\ ~Unreachable
    BY <1>1 DEF Hazard
<1>. QED BY <1>1, <1>2

(* An answer, and maybe its failure.                                       *)
LEMMA AnsweredIs ==
    ASSUME TypeInv, Queues, net.queue # << >>, NEW ok \in BOOLEAN
    PROVE  /\ Answered(ok) \in Nets
           /\ QueueInv(Answered(ok).queue, Answered(ok).alive, thread, timers)
           /\ \A y \in Members(Answered(ok).queue) :
                 /\ y.client \in Clients
                 /\ \/ /\ y \in Members(Popped.queue) /\ y \in Members(net.queue)
                       /\ Before(First, y)
                    \/ y.op = "disconnected" /\ y.client = Client
<1> DEFINE n == Popped
           x == Task("disconnected", Client, None)
<1>1. /\ n \in Nets /\ Client \in Clients /\ thread[Client] \notin {"none", "started"}
      /\ n.queue \in Seq(Tasks)
      /\ QueueInv(n.queue, n.alive, thread, timers)
      /\ \A y \in Members(n.queue) : y \in Members(net.queue) /\ y.client \in Clients /\ Before(First, y)
    <2>1. Popped \in Nets => Popped.queue \in Seq(Tasks)
        BY DEF Nets
    <2>. QED BY <2>1, PoppedIs
<1> HIDE DEF n
<1>2. x \in Tasks /\ x.op = "disconnected" /\ x.client = Client
    <2>1. ASSUME NEW c \in Clients
          PROVE  LET y == Task("disconnected", c, None)
                 IN  y \in Tasks /\ y.op = "disconnected" /\ y.client = c
        BY TaskIs, NoneIs
    <2>. QED BY <1>1, <2>1
<1>3. Answered(ok) = n \/ Answered(ok) = Disconnect(n, Client)
    BY DEF Answered, n
<1>4. CASE Answered(ok) = n
    BY <1>1, <1>4 DEF n
<1>5. CASE Answered(ok) = Disconnect(n, Client) /\ n.alive[Client]
    <2>1. timers \in SUBSET Clients
        BY KnownAre
    <2>2. /\ Disconnect(n, Client) \in Nets
          /\ QueueInv(Disconnect(n, Client).queue, Disconnect(n, Client).alive, thread, timers)
        BY <1>1, <2>1, DisconnectIs, DisconnectKeeps
    <2>3. Disconnect(n, Client).queue = Append(n.queue, x)
        BY <1>1, <1>5, DisconnectIs
    <2> HIDE DEF x
    <2>4. Members(Append(n.queue, x)) = Members(n.queue) \cup {x}
        BY <1>1, <1>2, AppendMembers
    <2>. QED BY <1>1, <1>2, <1>5, <2>2, <2>3, <2>4 DEF n
<1>6. CASE Answered(ok) = Disconnect(n, Client) /\ ~n.alive[Client]
    <2>1. Disconnect(n, Client) = n
        BY <1>1, <1>6, DisconnectIs
    <2>2. Answered(ok) = n
        BY <1>6, <2>1
    <2>. QED BY <1>4, <2>2
<1>. QED BY <1>3, <1>4, <1>5, <1>6

(* As long as connections and lobby clients stay together.                 *)
LEMMA QuietKeeps ==
    ASSUME TypeInv, TypeInv', QueueInv(net.queue', net.alive', thread', timers'),
           UNCHANGED owner, Len(tokens) <= Len(tokens'),
           \A m \in Clients : /\ lobby'[m].client = lobby[m].client
                              /\ lobby'[m].tolerant = lobby[m].tolerant
                              /\ IsBack(m)' = IsBack(m),
           \A x \in Members(net.queue') :
              /\ x.op \in Asking => lobby'[x.client].account = lobby[x.client].account
              /\ x.op = "auth" => holder'[x.arg] \in {holder[x.arg], None}
    PROVE  Queues'
<1>1. Known' = Known
    BY DEF Known
<1>2. \A l \in Known : Current(l)' = Current(l) /\ l \in Clients /\ lobby'[l].client = lobby[l].client
    BY DEF Known, Current
<1>3. \A c \in Clients : owner[c] # None => owner[c] \in Clients
    BY DEF TypeInv
<1>4. \A x \in Members(net.queue') : x.client \in Clients
    <2>1. net'.queue \in Seq(Tasks)
        BY DEF TypeInv, Nets
    <2>2. Members(net'.queue) \subseteq Tasks
        BY <2>1, MembersByIndex
    <2>. QED BY <2>2 DEF Tasks
<1>5. ASSUME NEW x \in Members(net.queue'), Finds(x, net.alive', thread')
      PROVE  Finds(x, net.alive, thread)'
    <2>1. x.client \in Clients
        BY <1>4
    <2>2. x.op = "auth" => x.arg \in 1 .. MaxTokens
        <3>1. x.op = "auth" => x.arg \in 1 .. Len(tokens) /\ x.arg <= MaxTokens
            BY <1>5 DEF Finds
        <3>2. Len(tokens) \in Nat
            BY LenProperties DEF TypeInv
        <3>. QED BY <3>1, <3>2, MembershipAssumption
    <2>3. ASSUME x.op = "auth", holder'[x.arg] # None
          PROVE  /\ lobby'[holder'[x.arg]].tolerant
                 /\ \A c \in Clients : owner'[c] = holder'[x.arg] => thread'[c] = "gone"
        <3>1. holder'[x.arg] = holder[x.arg] /\ holder[x.arg] \in Clients
            BY <2>2, <2>3 DEF TypeInv
        <3>. QED BY <1>5, <2>3, <3>1 DEF Finds
    <2>4. Len(tokens) \in Nat /\ Len(tokens') \in Nat
        BY LenProperties DEF TypeInv
    <2>5. x.op = "auth" => x.arg \in 1 .. Len(tokens')
        BY <1>5, <2>4 DEF Finds
    <2>. QED BY <1>3, <1>5, <2>1, <2>3, <2>5 DEF Finds
<1>. QED BY <1>1, <1>2, <1>3, <1>4, <1>5 DEF Queues, QueueInv

-----------------------------------------------------------------------------
(* Leaving                                                                 *)

(* Who is at a table, is known and is reached by his connection.           *)
LEMMA MembersAre ==
    ASSUME TypeInv, OwnersInv, SidesInv, NEW t \in Tables
    PROVE  /\ members[t] \in Seq(Clients) /\ DOMAIN members[t] = 1 .. Len(members[t])
           /\ Len(members[t]) \in Nat
           /\ \A i \in DOMAIN members[t] : members[t][i] \in At(t)
           /\ \A m \in At(t) : m \in Known /\ Current(m) /\ lobby[m].account # None
<1>1. /\ members[t] \in Seq(Clients) /\ DOMAIN members[t] = 1 .. Len(members[t])
      /\ Len(members[t]) \in Nat /\ At(t) \subseteq Clients
    BY LenProperties, MembersByIndex DEF TypeInv, At
<1>2. \A i \in DOMAIN members[t] : members[t][i] \in At(t)
    BY DEF At, Members
<1>3. ASSUME NEW m \in At(t) PROVE m \in Known /\ Current(m) /\ lobby[m].account # None
    <2>1. m \in Clients /\ lobby[m].account # None
        BY <1>1 DEF SidesInv
    <2>2. lobby[m].client # None
        BY <1>1, <2>1 DEF OwnersInv
    <2>. QED BY <2>1, <2>2 DEF OwnersInv, Known
<1>. QED BY <1>1, <1>2, <1>3

(* The member that an account finds at a table of its lobby client is that *)
(* lobby client.                                                           *)
LEMMA TakenIs ==
    ASSUME TypeInv, OwnersInv, SidesInv, NEW l \in Known, Current(l), NEW t \in entries[l],
           Reaches(t, lobby[l].account), ~ReachesFreed(t, lobby[l].account)
    PROVE  /\ t \in Tables /\ l \in At(t)
           /\ PlaceOf(t, lobby[l].account) \in DOMAIN members[t]
           /\ members[t][PlaceOf(t, lobby[l].account)] = l
<1> DEFINE a == lobby[l].account
           p == PlaceOf(t, a)
           at == {i \in DOMAIN members[t] : Stops(t, a, i)}
<1>1. t \in Tables /\ l \in Clients
    BY KnownAre DEF TypeInv
<1>2. l \in At(t)
    BY <1>1 DEF SidesInv
<1>3. PICK j \in DOMAIN members[t] : members[t][j] = l
    BY <1>2 DEF At, Members
<1>4. p \in at
    <2>1. p # 0
        BY DEF Reaches
    <2>2. p = IF at = {} THEN 0 ELSE CHOOSE i \in at : \A k \in at : i <= k
        BY DEF PlaceOf
    <2>3. at \in SUBSET Nat
        BY <1>1, MembersAre
    <2> HIDE DEF p, at
    <2>4. at # {}
        BY <2>1, <2>2
    <2>5. \E i \in at : \A k \in at : i <= k
        BY <2>3, <2>4, LeastNat
    <2>. QED BY <2>2, <2>4, <2>5
<1>5. p \in DOMAIN members[t] /\ Stops(t, a, p)
    BY <1>4
<1>6. ~Dangling(members[t][p])
    BY DEF ReachesFreed
<1>7. AccountAt(members[t][p]) = a
    BY <1>5, <1>6 DEF Stops
<1>8. Current(members[t][p])
    BY <1>1, <1>5, MembersAre
<1>9. lobby[members[t][p]].account = lobby[members[t][j]].account
    BY <1>3, <1>7, <1>8 DEF AccountAt, Current
<1>10. p = j
    BY <1>1, <1>3, <1>5, <1>9 DEF SidesInv
<1>. QED BY <1>1, <1>2, <1>3, <1>5, <1>10

(* A sequence of lobby clients with different accounts, without one.       *)
LEMMA OneLess ==
    ASSUME NEW s \in Seq(Clients), NEW p \in 1 .. Len(s), NEW count,
           \A i, j \in DOMAIN s : count[s[i]] = count[s[j]] => i = j
    PROVE  LET r == RemoveAt(s, p)
           IN  /\ r \in Seq(Clients) /\ Members(r) = Members(s) \ {s[p]}
               /\ \A i, j \in DOMAIN r : count[r[i]] = count[r[j]] => i = j
<1> DEFINE r == RemoveAt(s, p)
           n == Len(s)
<1>1. /\ r \in Seq(Clients) /\ DOMAIN r = 1 .. (n - 1) /\ DOMAIN s = 1 .. n /\ n \in Nat
      /\ \A i \in 1 .. (n - 1) : r[i] = IF i < p THEN s[i] ELSE s[i + 1]
    BY RemovedAt
<1> HIDE DEF r, n
<1>2. p \in 1 .. n
    BY DEF n
<1>3. ASSUME NEW i \in DOMAIN r, NEW j \in DOMAIN r, count[r[i]] = count[r[j]] PROVE i = j
    <2> DEFINE u == IF i < p THEN i ELSE i + 1
               v == IF j < p THEN j ELSE j + 1
    <2>1. u \in DOMAIN s /\ v \in DOMAIN s /\ r[i] = s[u] /\ r[j] = s[v]
        BY <1>1, <1>2
    <2>2. u = v
        BY <1>3, <2>1
    <2>. QED BY <1>1, <1>2, <2>2
<1>4. ASSUME NEW m \in Members(r) PROVE m \in Members(s) \ {s[p]}
    <2>1. PICK i \in DOMAIN r : m = r[i]
        BY DEF Members
    <2> DEFINE u == IF i < p THEN i ELSE i + 1
    <2>2. u \in DOMAIN s /\ u # p /\ m = s[u] /\ p \in DOMAIN s
        BY <1>1, <1>2, <2>1
    <2>3. s[u] # s[p]
        <3> HIDE DEF u
        <3>. QED BY <2>2
    <2>. QED BY <2>2, <2>3 DEF Members
<1>5. ASSUME NEW m \in Members(s), m # s[p] PROVE m \in Members(r)
    <2>1. PICK i \in DOMAIN s : m = s[i]
        BY DEF Members
    <2>2. i # p
        BY <1>5, <2>1
    <2> DEFINE u == IF i < p THEN i ELSE i - 1
    <2>3. u \in DOMAIN r /\ r[u] = s[i]
        BY <1>1, <1>2, <2>1, <2>2
    <2>. QED BY <2>1, <2>3 DEF Members
<1>6. Members(r) = Members(s) \ {s[p]}
    BY <1>4, <1>5
<1>. QED BY <1>1, <1>3, <1>6 DEF r

(* Nothing of what the first task may do wrong, when a lobby client leaves.*)
Leaving == /\ Left \subseteq entries[Owner]
           /\ \A t \in Left : /\ Reaches(t, lobby[Owner].account)
                              /\ ~ReachesFreed(t, lobby[Owner].account)

LEMMA LeavingKeeps ==
    ASSUME TypeInv, OwnersInv, SidesInv, Owner \in Known, Current(Owner), Leaving,
           LeaveTables(Owner), TypeInv', owner' = owner,
           \A m \in Clients : /\ lobby'[m].client = lobby[m].client
                              /\ lobby'[m].account = lobby[m].account
                              /\ m \notin Known => lobby'[m] = lobby[m]
    PROVE  /\ OwnersInv' /\ SidesInv'
           /\ \A t \in Left : Taken(t) = Owner
           /\ \A t \in Tables : At(t)' = IF t \in Left THEN At(t) \ {Owner} ELSE At(t)
           /\ entries' = [entries EXCEPT ![Owner] = @ \ Left]
<1> DEFINE l == Owner
<1>1. /\ Left \subseteq Tables /\ l \in Clients
      /\ \A t \in Left : /\ PlaceOf(t, lobby[l].account) \in DOMAIN members[t]
                         /\ members[t][PlaceOf(t, lobby[l].account)] = l
    BY KnownAre, TakenIs DEF Leaving, TypeInv
<1>2. \A t \in Left : Taken(t) = l
    BY <1>1 DEF Taken
<1>3. /\ entries' = [entries EXCEPT ![l] = @ \ Left] /\ entries \in [Clients -> SUBSET Tables]
      /\ \A t \in Tables : members'[t] = IF t \in Left
                              THEN RemoveAt(members[t], PlaceOf(t, lobby[l].account))
                              ELSE members[t]
    BY DEF LeaveTables, MembersAfter, TypeInv
<1>4. ASSUME NEW t \in Left
      PROVE  /\ At(t)' = At(t) \ {l}
             /\ \A i, j \in DOMAIN members'[t] :
                   lobby[members'[t][i]].account = lobby[members'[t][j]].account => i = j
    <2> DEFINE s == members[t]
               p == PlaceOf(t, lobby[l].account)
               count == [m \in Clients |-> lobby[m].account]
    <2>1. s \in Seq(Clients) /\ p \in 1 .. Len(s) /\ s[p] = l /\ t \in Tables
          /\ \A i \in DOMAIN s : s[i] \in Clients
        BY <1>1, MembersAre, KnownAre
    <2>2. \A i, j \in DOMAIN s : count[s[i]] = count[s[j]] => i = j
        BY <2>1 DEF SidesInv
    <2>3. members'[t] = RemoveAt(s, p)
        BY <1>3, <2>1
    <2> HIDE DEF s, p, count
    <2>4. /\ RemoveAt(s, p) \in Seq(Clients) /\ Members(RemoveAt(s, p)) = Members(s) \ {s[p]}
          /\ \A i, j \in DOMAIN RemoveAt(s, p) :
                count[RemoveAt(s, p)[i]] = count[RemoveAt(s, p)[j]] => i = j
        BY <2>1, <2>2, OneLess
    <2>5. \A i \in DOMAIN members'[t] : members'[t][i] \in Clients
        BY <2>3, <2>4, LenProperties, ElementOfSeq
    <2>6. \A i \in DOMAIN members'[t] : count[members'[t][i]] = lobby[members'[t][i]].account
        BY <2>5 DEF count
    <2>. QED BY <2>1, <2>3, <2>4, <2>6 DEF At, s
<1>5. \A t \in Tables : At(t)' = IF t \in Left THEN At(t) \ {l} ELSE At(t)
    BY <1>3, <1>4 DEF At
<1>6. /\ Known' = Known /\ \A m \in Known : m \in Clients /\ lobby[m].client \in Clients
      /\ \A m \in Known : Current(m)' = Current(m)
      /\ \A c \in Clients : owner[c] # None => owner[c] \in Clients /\ Current(owner[c])' = Current(owner[c])
    BY KnownAre DEF Known, Current, TypeInv
<1>7. \A m \in Clients : m # l => entries'[m] = entries[m]
    BY <1>1, <1>3
<1>8. entries'[l] = entries[l] \ Left
    BY <1>1, <1>3
<1>9. OwnersInv'
    <2>1. ASSUME NEW m \in Clients, lobby'[m].client = None
          PROVE  /\ lobby'[m] = NewLobbyClient /\ entries'[m] = {}
                 /\ \A t \in Tables : m \notin At(t)'
        <3>1. lobby[m].client = None /\ m # l /\ m \notin Known
            BY <2>1 DEF Known
        <3>. QED BY <1>5, <1>7, <3>1 DEF OwnersInv
    <2>2. \A c \in Clients : owner'[c] = None <=> lobby'[c].client = None
        BY DEF OwnersInv
    <2>3. \A c \in Clients : owner'[c] # None =>
            /\ lobby'[owner'[c]].client # None /\ Current(owner[c])'
            /\ owner'[c] # c => lobby'[owner'[c]].account # None
        BY <1>6 DEF OwnersInv
    <2>4. \A m \in Known : IF lobby'[m].account = None THEN lobby'[m].client = m ELSE Current(m)'
        BY <1>6 DEF OwnersInv
    <2>. QED BY <1>6, <2>1, <2>2, <2>3, <2>4 DEF OwnersInv, NewLobbyClient
<1>10. SidesInv'
    <2>1. \A t \in Tables : \A m \in At(t)' : m \in At(t) /\ m \in Clients
        BY <1>5, MembersAre, KnownAre
    <2>2. \A t \in Tables : \A m \in At(t)' : lobby'[m].account # None
        BY <2>1 DEF SidesInv
    <2>3. \A m \in Known : Current(m) /\ lobby[m].account = None => entries'[m] = {}
        BY <1>6, <1>7, <1>8 DEF SidesInv
    <2>4. ASSUME NEW t \in Tables, NEW i \in DOMAIN members'[t], NEW j \in DOMAIN members'[t],
                 lobby'[members'[t][i]].account = lobby'[members'[t][j]].account
          PROVE  i = j
        <3>1. members'[t][i] \in Clients /\ members'[t][j] \in Clients
            BY <2>1 DEF At, Members
        <3>2. lobby[members'[t][i]].account = lobby[members'[t][j]].account
            BY <2>4, <3>1
        <3>3. CASE t \in Left
            BY <1>4, <3>2, <3>3
        <3>4. CASE t \notin Left
            BY <1>3, <3>2, <3>4 DEF SidesInv
        <3>. QED BY <3>3, <3>4
    <2>5. ASSUME NEW m \in Known, Current(m), NEW t \in Tables
          PROVE  m \in At(t)' <=> t \in entries'[m]
        <3>1. m \in At(t) <=> t \in entries[m]
            BY <2>5 DEF SidesInv
        <3>. QED BY <1>5, <1>6, <1>7, <1>8, <3>1
    <2>. QED BY <1>6, <2>2, <2>3, <2>4, <2>5 DEF SidesInv
<1>. QED BY <1>2, <1>3, <1>5, <1>9, <1>10

-----------------------------------------------------------------------------
(* The handlers                                                            *)

LEMMA ConnectedKeeps ==
    ASSUME TypeInv, OwnersInv, SidesInv, HolderInv, Queues, Connected
    PROVE  TypeInv' /\ OwnersInv' /\ SidesInv' /\ HolderInv' /\ Queues'
<1>0. net.queue # << >>
    BY BeginIs DEF Connected
<1>c. PICK c \in Clients : c = Client
    BY <1>0, PoppedIs
<1>1. /\ Sound /\ net.queue # << >> /\ First.op = "connected"
      /\ net' = UseClient(Popped, c)
      /\ lobby' = [lobby EXCEPT ![c].client = c, ![c].refs = 1]
      /\ owner' = [owner EXCEPT ![c] = c]
      /\ UNCHANGED <<thread, entries, members, holder, tokens, timers>>
    BY <1>c, BeginIs DEF Connected
<1>2. /\ c \in Clients /\ Popped \in Nets /\ Finds(First, net.alive, thread)
      /\ thread[c] \notin {"none", "started"}
      /\ QueueInv(Popped.queue, Popped.alive, thread, timers)
      /\ Popped.queue = Tail(net.queue) /\ Popped.alive = net.alive
      /\ \A y \in Members(Popped.queue) :
             y \in Members(net.queue) /\ y.client \in Clients /\ Before(First, y)
    BY <1>1, <1>c, PoppedIs
<1>3. /\ net' \in Nets /\ net'.queue = Popped.queue /\ net'.alive = Popped.alive
    BY <1>1, <1>2, UseClientIs
<1>4. /\ owner[c] = None /\ lobby[c].client = None
      /\ lobby[c] = NewLobbyClient /\ entries[c] = {} /\ \A t \in Tables : c \notin At(t)
    BY <1>1, <1>2, <1>c DEF Finds, OwnersInv, Client
<1>5. /\ lobby'[c] = [NewLobbyClient EXCEPT !.client = c, !.refs = 1]
      /\ \A m \in Clients : m # c => lobby'[m] = lobby[m]
      /\ owner'[c] = c /\ \A d \in Clients : d # c => owner'[d] = owner[d]
      /\ c # None
      /\ owner' \in [Clients -> Clients \cup {None}]
    BY <1>1, <1>2, <1>4, NoneIs DEF TypeInv
<1>6. lobby'[c].client = c /\ lobby'[c].account = None /\ IsBack(c)'
      /\ lobby'[c] \in LobbyClients
    <2>1. lobby'[c] = [refs |-> 1, client |-> c, account |-> None, token |-> 0,
                       tolerant |-> FALSE, disconnected |-> FALSE, connected |-> TRUE,
                       revived |-> FALSE, task |-> None, ghost |-> FALSE]
        BY <1>5 DEF NewLobbyClient, NoToken
    <2>2. IsBack(c)'
        BY <2>1 DEF IsBack
    <2>3. lobby'[c] \in LobbyClients
        BY <1>2, <2>1, NoneIs DEF LobbyClients
    <2>. QED BY <2>1, <2>2, <2>3
<1>7. TypeInv'
    <2>1. lobby' \in [Clients -> LobbyClients]
        <3>1. DOMAIN lobby' = Clients /\ lobby' = [m \in Clients |-> lobby'[m]]
            BY <1>1 DEF TypeInv
        <3>2. \A m \in Clients : lobby'[m] \in LobbyClients
            BY <1>5, <1>6 DEF TypeInv
        <3>. QED BY <3>1, <3>2
    <2>. QED BY <1>1, <1>3, <1>5, <2>1 DEF TypeInv
<1>8. /\ Known' = Known \cup {c} /\ c \notin Known
      /\ \A m \in Known : /\ m # c /\ m \in Clients /\ lobby[m].client \in Clients
                          /\ lobby[m].client # c /\ lobby'[m] = lobby[m]
                          /\ Current(m)' = Current(m) /\ IsBack(m)' = IsBack(m)
    <2>1. Known' = Known \cup {c} /\ c \notin Known
        BY <1>2, <1>4, <1>5, <1>6 DEF Known
    <2>2. ASSUME NEW m \in Known
          PROVE  /\ m # c /\ m \in Clients /\ lobby[m].client \in Clients
                 /\ lobby[m].client # c /\ lobby'[m] = lobby[m]
        <3>1. m # c /\ m \in Clients /\ lobby[m].client \in Clients
            BY <2>1, KnownAre
        <3>2. lobby[m].client # c
            BY <1>4, <3>1, NoneIs DEF OwnersInv, Current
        <3>. QED BY <1>5, <3>1, <3>2
    <2>. QED BY <1>5, <2>1, <2>2 DEF Current, IsBack
<1>9. \A d \in Clients : d # c /\ owner[d] # None => owner[d] \in Known
    BY DEF OwnersInv, Known, TypeInv
<1>10. OwnersInv'
    <2>1. ASSUME NEW m \in Clients, lobby'[m].client = None
          PROVE  /\ lobby'[m] = NewLobbyClient /\ entries'[m] = {}
                 /\ \A t \in Tables : m \notin At(t)'
        <3>1. m # c /\ lobby[m].client = None
            BY <1>2, <1>5, <1>6, <2>1
        <3>. QED BY <1>1, <1>5, <3>1 DEF OwnersInv, At
    <2>2. ASSUME NEW d \in Clients PROVE owner'[d] = None <=> lobby'[d].client = None
        <3>1. CASE d = c
            BY <1>5, <1>6, <3>1
        <3>2. CASE d # c
            BY <1>5, <3>2 DEF OwnersInv
        <3>. QED BY <3>1, <3>2
    <2>3. ASSUME NEW d \in Clients, owner'[d] # None
          PROVE  /\ lobby'[owner'[d]].client # None /\ Current(owner[d])'
                 /\ owner'[d] # d => lobby'[owner'[d]].account # None
        <3>1. CASE d = c
            BY <1>2, <1>5, <1>6, <3>1 DEF Current
        <3>2. CASE d # c
            <4>1. owner'[d] = owner[d] /\ owner[d] \in Known
                BY <1>5, <1>9, <2>3, <3>2
            <4>2. lobby'[owner[d]] = lobby[owner[d]] /\ lobby[owner[d]].client \in Clients
                  /\ lobby[owner[d]].client # c
                BY <1>8, <4>1
            <4>3. Current(owner[d]) /\ lobby[owner[d]].client # None
                  /\ (owner[d] # d => lobby[owner[d]].account # None)
                BY <2>3, <4>1 DEF OwnersInv
            <4>. QED BY <1>5, <4>1, <4>2, <4>3 DEF Current
        <3>. QED BY <3>1, <3>2
    <2>4. \A m \in Known' : IF lobby'[m].account = None THEN lobby'[m].client = m ELSE Current(m)'
        BY <1>6, <1>8 DEF OwnersInv
    <2>. QED BY <2>1, <2>2, <2>3, <2>4 DEF OwnersInv
<1>11. SidesInv'
    <2>1. \A t \in Tables : \A i \in DOMAIN members[t] :
             members[t][i] \in Clients /\ members[t][i] # c
        <3>1. \A t \in Tables : \A i \in DOMAIN members[t] : members[t][i] \in At(t)
            BY MembersAre
        <3>. QED BY <1>4, <3>1, MembersAre, KnownAre
    <2>2. \A t \in Tables : \A i \in DOMAIN members[t] : lobby'[members[t][i]] = lobby[members[t][i]]
        BY <1>5, <2>1
    <2>3. ASSUME NEW t \in Tables, NEW m \in At(t)' PROVE lobby'[m].account # None
        <3>1. PICK i \in DOMAIN members[t] : m = members[t][i]
            BY <1>1 DEF At, Members
        <3>2. members[t][i] \in At(t)
            BY DEF At, Members
        <3>. QED BY <2>2, <3>1, <3>2 DEF SidesInv
    <2>4. \A m \in Known' : Current(m)' /\ lobby'[m].account = None => entries'[m] = {}
        BY <1>1, <1>4, <1>8 DEF SidesInv
    <2>5. \A t \in Tables : \A i, j \in DOMAIN members'[t] :
              lobby'[members'[t][i]].account = lobby'[members'[t][j]].account => i = j
        BY <1>1, <2>2 DEF SidesInv
    <2>6. \A m \in Known' : Current(m)' => \A t \in Tables : m \in At(t)' <=> t \in entries'[m]
        BY <1>1, <1>4, <1>8 DEF SidesInv, At
    <2>. QED BY <2>3, <2>4, <2>5, <2>6 DEF SidesInv
<1>12. \A k \in DOMAIN holder : holder[k] # None => holder[k] \in Clients /\ holder[k] # c
    BY <1>4 DEF HolderInv, TypeInv, NewLobbyClient
<1>13. HolderInv'
    <2>1. \A k \in DOMAIN holder : holder[k] # None => lobby'[holder[k]] = lobby[holder[k]]
        BY <1>5, <1>12
    <2>. QED BY <1>1, <2>1 DEF HolderInv
<1>14. Queues'
    <2>1. ASSUME NEW x \in Members(Popped.queue) PROVE Finds(x, net.alive, thread)'
        <3>1. /\ Finds(x, net.alive, thread) /\ x.client \in Clients
              /\ x.client = c => x.op # "connected"
            BY <1>1, <1>2, <1>c DEF QueueInv, Before, Client
        <3>2. x.op \in Asking => x.client # c
            BY <1>2, <1>4, <3>1, NoneIs DEF Finds
        <3>3. x.op = "disconnected" /\ owner'[x.client] # None => lobby'[owner'[x.client]].client = x.client
            <4>1. CASE x.client = c
                BY <1>5, <1>6, <4>1
            <4>2. CASE x.client # c
                BY <1>5, <1>8, <1>9, <3>1, <4>2 DEF Finds
            <4>. QED BY <4>1, <4>2
        <3>4. x.op = "auth" => x.arg \in DOMAIN holder
            <4>1. DOMAIN holder = 1 .. MaxTokens /\ Len(tokens) \in Nat
                BY LenProperties DEF TypeInv
            <4>. QED BY <3>1, <4>1, MembershipAssumption DEF Finds
        <3>5. x.op = "auth" /\ holder[x.arg] # None =>
                  /\ lobby'[holder[x.arg]].tolerant
                  /\ \A d \in Clients : owner'[d] = holder[x.arg] => thread[d] = "gone"
            BY <1>5, <1>12, <3>1, <3>4 DEF Finds
        <3>. QED BY <1>1, <1>3, <1>2, <1>5, <3>1, <3>2, <3>3, <3>5 DEF Finds, Asking
    <2>2. /\ \A d \in Clients : thread[d] \in {"none", "started"} => d # c
        BY <1>2
    <2>3. \A d \in Clients : owner'[d] # None /\ lobby'[owner'[d]].client # d => thread[d] = "gone"
        <3>1. ASSUME NEW d \in Clients, d # c, owner[d] # None, lobby'[owner[d]].client # d
              PROVE  thread[d] = "gone"
            <4>1. lobby'[owner[d]] = lobby[owner[d]]
                BY <1>8, <1>9, <3>1
            <4>. QED BY <1>2, <3>1, <4>1 DEF QueueInv
        <3>. QED BY <1>5, <1>6, <3>1
    <2>4. ASSUME NEW m \in Known', Current(m)', ~IsBack(m)'
          PROVE  /\ ~net'.alive[lobby'[m].client]
                 /\ \A x \in Members(net'.queue) : x.client = lobby'[m].client => x.op # "disconnected"
        <3>1. CASE m = c
            BY <1>6, <2>4, <3>1 DEF IsBack
        <3>2. CASE m \in Known
            <4>1. Current(m) /\ ~IsBack(m) /\ lobby'[m] = lobby[m]
                BY <1>8, <2>4, <3>2
            <4>. QED BY <1>2, <1>3, <3>2, <4>1 DEF QueueInv
        <3>. QED BY <1>8, <3>1, <3>2
    <2>5. \A d \in Clients : thread'[d] \in {"none", "started"} =>
             owner'[d] = None /\ d \notin timers' /\ \A x \in Members(net'.queue) : x.client # d
        BY <1>1, <1>2, <1>3, <1>5, <2>2 DEF QueueInv
    <2>6. /\ \A d \in Clients : thread'[d] \in {"none", "gone"} => ~net'.alive[d]
          /\ \A d \in timers' : /\ ~net'.alive[d]
                                /\ \A x \in Members(net'.queue) : x.client = d => x.op \in {"enter", "leave"}
          /\ \A x, y \in Members(net'.queue) : Precedes(net'.queue, x, y) => Before(x, y)
        BY <1>1, <1>2, <1>3 DEF QueueInv
    <2>. QED BY <1>1, <1>3, <2>1, <2>3, <2>4, <2>5, <2>6 DEF Queues, QueueInv
<1>. QED BY <1>7, <1>10, <1>11, <1>13, <1>14

(* As long as the lobby clients, connections and tables stay together.     *)
LEMMA StillKeeps ==
    ASSUME TypeInv, OwnersInv, SidesInv, UNCHANGED <<owner, entries, members>>,
           \A m \in Clients : /\ lobby'[m].client = lobby[m].client
                              /\ lobby'[m].account = lobby[m].account
                              /\ m \notin Known => lobby'[m] = lobby[m]
    PROVE  OwnersInv' /\ SidesInv'
<1>1. Known' = Known /\ \A m \in Known : Current(m)' = Current(m) /\ m \in Clients
    BY DEF Known, Current
<1>2. \A t \in Tables : /\ \A m \in At(t) : m \in Clients
                        /\ \A i \in DOMAIN members[t] : members[t][i] \in Clients
                        /\ At(t)' = At(t)
    <2>1. \A t \in Tables : \A m \in At(t) : m \in Clients
        BY MembersAre, KnownAre
    <2>. QED BY <2>1 DEF At, Members
<1>3. OwnersInv'
    <2>1. \A m \in Clients : lobby'[m].client = None =>
             /\ lobby'[m] = NewLobbyClient /\ entries'[m] = {}
             /\ \A t \in Tables : m \notin At(t)'
        BY <1>2 DEF OwnersInv, Known
    <2>2. ASSUME NEW d \in Clients, owner'[d] # None
          PROVE  /\ lobby'[owner'[d]].client # None /\ Current(owner[d])'
                 /\ owner'[d] # d => lobby'[owner'[d]].account # None
        <3>1. owner'[d] = owner[d] /\ owner[d] \in Known
            BY <2>2 DEF OwnersInv, Known, TypeInv
        <3>. QED BY <1>1, <2>2, <3>1 DEF OwnersInv, Current
    <2>3. \A m \in Known' : IF lobby'[m].account = None THEN lobby'[m].client = m ELSE Current(m)'
        BY <1>1 DEF OwnersInv
    <2>4. \A d \in Clients : owner'[d] = None <=> lobby'[d].client = None
        BY DEF OwnersInv
    <2>. QED BY <2>1, <2>2, <2>3, <2>4 DEF OwnersInv
<1>4. SidesInv'
    <2>1. /\ \A t \in Tables : \A m \in At(t)' : lobby'[m].account # None
          /\ \A t \in Tables : \A i, j \in DOMAIN members'[t] :
                lobby'[members'[t][i]].account = lobby'[members'[t][j]].account => i = j
        BY <1>2 DEF SidesInv
    <2>2. /\ \A m \in Known' : Current(m)' /\ lobby'[m].account = None => entries'[m] = {}
          /\ \A m \in Known' : Current(m)' => \A t \in Tables : m \in At(t)' <=> t \in entries'[m]
        BY <1>1, <1>2 DEF SidesInv
    <2>. QED BY <2>1, <2>2 DEF SidesInv
<1>. QED BY <1>3, <1>4

LEMMA TokensAre ==
    ASSUME TypeInv
    PROVE  /\ Len(tokens) \in Nat /\ DOMAIN tokens = 1 .. Len(tokens)
           /\ \A k \in 1 .. Len(tokens) : tokens[k] \in Accounts /\ tokens[k] # None
           /\ DOMAIN holder = 1 .. MaxTokens
           /\ \A k \in DOMAIN holder : holder[k] \in Clients \cup {None}
           /\ \A a \in Accounts : /\ Append(tokens, a) \in Seq(Accounts)
                                  /\ Len(Append(tokens, a)) = Len(tokens) + 1
BY LenProperties, AppendProperties, ElementOfSeq, MembershipAssumption DEF TypeInv

(* Who asks is the lobby client of his connection, and has no account.     *)
LEMMA AskingIs ==
    ASSUME TypeInv, OwnersInv, SidesInv, HolderInv, Queues, net.queue # << >>,
           First.op \in Asking
    PROVE  /\ Client \in Clients /\ Owner = Client /\ Client \in Known /\ Client # None
           /\ Current(Client) /\ lobby[Client].client = Client
           /\ lobby[Client].account = None /\ entries[Client] = {}
           /\ \A t \in Tables : Client \notin At(t)
           /\ \A k \in DOMAIN holder : holder[k] = Client => FALSE
<1>1. Client \in Clients /\ Finds(First, net.alive, thread)
    BY PoppedIs
<1>2. owner[Client] = Client /\ lobby[Client].account = None /\ Client # None
    BY <1>1, NoneIs DEF Finds, Client
<1>3. lobby[Client].client # None
    BY <1>1, <1>2 DEF OwnersInv
<1>4. Client \in Known
    BY <1>1, <1>3 DEF Known
<1>5. lobby[Client].client = Client
    BY <1>2, <1>4 DEF OwnersInv
<1>6. Current(Client)
    BY <1>2, <1>5 DEF Current
<1>. QED BY <1>1, <1>2, <1>4, <1>5, <1>6 DEF Owner, SidesInv, HolderInv

LEMMA LoginKeeps ==
    ASSUME TypeInv, OwnersInv, SidesInv, HolderInv, Queues, Login
    PROVE  TypeInv' /\ OwnersInv' /\ SidesInv' /\ HolderInv' /\ Queues'
<1>1. net.queue # << >> /\ First.op = "login" /\ First.op \in Asking
    BY BeginIs DEF Login, Asking
<1>2. PICK c \in Clients : c = Client
    BY <1>1, PoppedIs
<1>3. PICK a \in Accounts : a = First.arg
    BY <1>1, PoppedIs DEF Finds
<1>4. PICK k \in Nat : k = Len(tokens) + 1
    BY TokensAre
<1>5. PICK ok \in BOOLEAN : /\ net' = Answered(ok)
                            /\ holder' = IF ok THEN [holder EXCEPT ![k] = Owner] ELSE holder
    BY <1>4 DEF Login
<1>6. /\ tokens' = Append(tokens, a)
      /\ lobby' = [lobby EXCEPT ![Owner].account = a, ![Owner].token = k]
      /\ UNCHANGED <<thread, owner, entries, members, timers>>
    BY <1>3, <1>4 DEF Login
<1>7. /\ Owner = c /\ c \in Known /\ c # None /\ Current(c) /\ lobby[c].client = c
      /\ owner[c] = c
      /\ lobby[c].account = None /\ entries[c] = {}
      /\ \A t \in Tables : c \notin At(t)
      /\ \A j \in DOMAIN holder : holder[j] # c
    BY <1>1, <1>2, AskingIs DEF Owner
<1>8. /\ \A m \in Clients : m # c => lobby'[m] = lobby[m]
      /\ lobby'[c] = [lobby[c] EXCEPT !.account = a, !.token = k]
      /\ lobby' = [m \in Clients |-> lobby'[m]]
      /\ lobby[c] \in LobbyClients
    BY <1>6, <1>7 DEF TypeInv
<1>9. /\ lobby'[c].account = a /\ lobby'[c].client = c /\ lobby'[c].tolerant = lobby[c].tolerant
      /\ IsBack(c)' = IsBack(c) /\ lobby'[c] \in LobbyClients /\ a # None
    BY <1>7, <1>8, MembershipAssumption DEF LobbyClients, IsBack
<1>10. \A m \in Clients : /\ lobby'[m].client = lobby[m].client
                          /\ lobby'[m].tolerant = lobby[m].tolerant
                          /\ IsBack(m)' = IsBack(m)
    <2>1. \A m \in Clients : m # c => IsBack(m)' = IsBack(m)
        BY <1>8 DEF IsBack
    <2>2. ASSUME NEW m \in Clients
          PROVE  /\ lobby'[m].client = lobby[m].client
                 /\ lobby'[m].tolerant = lobby[m].tolerant
                 /\ IsBack(m)' = IsBack(m)
        <3>1. CASE m = c
            BY <1>7, <1>9, <3>1 DEF IsBack
        <3>2. CASE m # c
            BY <1>8, <2>1, <3>2
        <3>. QED BY <3>1, <3>2
    <2>. QED BY <2>2
<1>11. /\ net' \in Nets
       /\ QueueInv(net.queue', net.alive', thread', timers')
       /\ \A y \in Members(net.queue') :
             /\ y.client \in Clients
             /\ \/ y \in Members(net.queue) /\ Before(First, y)
                \/ y.op = "disconnected" /\ y.client = c
    BY <1>1, <1>2, <1>5, <1>6, AnsweredIs
<1>12. TypeInv'
    <2>1. lobby' \in [Clients -> LobbyClients]
        <3>1. \A m \in Clients : lobby'[m] \in LobbyClients
            BY <1>8, <1>9 DEF TypeInv
        <3>. QED BY <1>8, <3>1
    <2>2. holder' \in [1 .. MaxTokens -> Clients \cup {None}]
        BY <1>5, <1>7 DEF TypeInv
    <2>3. tokens' \in Seq(Accounts)
        BY <1>6, TokensAre
    <2>. QED BY <1>6, <1>11, <2>1, <2>2, <2>3 DEF TypeInv
<1>13. Known' = Known /\ \A m \in Known : m \in Clients /\ Current(m)' = Current(m)
    BY <1>6, <1>10 DEF Known, Current
<1>14. OwnersInv'
    <2>1. ASSUME NEW m \in Clients, lobby'[m].client = None
          PROVE  /\ lobby'[m] = NewLobbyClient /\ entries'[m] = {}
                 /\ \A t \in Tables : m \notin At(t)'
        <3>1. m # c /\ lobby[m].client = None
            BY <1>7, <1>10, <2>1
        <3>. QED BY <1>6, <1>8, <3>1 DEF OwnersInv, At
    <2>2. ASSUME NEW d \in Clients, owner'[d] # None
          PROVE  /\ lobby'[owner'[d]].client # None /\ Current(owner[d])'
                 /\ owner'[d] # d => lobby'[owner'[d]].account # None
        <3>1. owner'[d] = owner[d] /\ owner[d] \in Known
            BY <1>6, <2>2 DEF OwnersInv, Known, TypeInv
        <3>2. lobby'[owner[d]].account = lobby[owner[d]].account \/ owner[d] = c
            BY <1>8, <1>13, <3>1
        <3>3. Current(owner[d]) /\ (owner[d] # d => lobby[owner[d]].account # None)
            BY <2>2, <3>1 DEF OwnersInv
        <3>4. lobby'[owner[d]].client # None /\ lobby'[owner[d]].client = lobby[owner[d]].client
            BY <1>10, <1>13, <3>1 DEF Known
        <3>5. Current(owner[d])'
            BY <1>6, <3>1, <3>3, <3>4 DEF Current
        <3>6. owner[d] # d => lobby'[owner[d]].account # None
            BY <1>9, <3>2, <3>3
        <3>. QED BY <3>1, <3>4, <3>5, <3>6
    <2>3. ASSUME NEW m \in Known'
          PROVE  IF lobby'[m].account = None THEN lobby'[m].client = m ELSE Current(m)'
        <3>1. CASE m = c
            <4>1. Current(m)'
                BY <1>7, <1>13, <3>1
            <4>. QED BY <1>9, <3>1, <4>1
        <3>2. CASE m # c
            BY <1>8, <1>13, <3>2 DEF OwnersInv
        <3>. QED BY <3>1, <3>2
    <2>4. \A d \in Clients : owner'[d] = None <=> lobby'[d].client = None
        BY <1>6, <1>10 DEF OwnersInv
    <2>. QED BY <2>1, <2>2, <2>3, <2>4 DEF OwnersInv
<1>15. \A t \in Tables : /\ At(t)' = At(t)
                         /\ \A m \in At(t) : m \in Clients /\ lobby'[m] = lobby[m]
                         /\ \A i \in DOMAIN members[t] : lobby'[members[t][i]] = lobby[members[t][i]]
    <2>1. \A t \in Tables : \A m \in At(t) : m \in Clients /\ lobby'[m] = lobby[m]
        BY <1>7, <1>8, MembersAre, KnownAre
    <2>. QED BY <1>6, <2>1, MembersAre DEF At
<1>16. SidesInv'
    <2>1. \A m \in Known' : Current(m)' /\ lobby'[m].account = None => entries'[m] = {}
        BY <1>6, <1>8, <1>9, <1>13 DEF SidesInv
    <2>2. \A m \in Known' : Current(m)' => \A t \in Tables : m \in At(t)' <=> t \in entries'[m]
        BY <1>6, <1>13, <1>15 DEF SidesInv
    <2>3. /\ \A t \in Tables : \A m \in At(t)' : lobby'[m].account # None
          /\ \A t \in Tables : \A i, j \in DOMAIN members'[t] :
                lobby'[members'[t][i]].account = lobby'[members'[t][j]].account => i = j
        <3>1. \A t \in Tables : \A m \in At(t)' : lobby'[m].account # None
            BY <1>15 DEF SidesInv
        <3>2. ASSUME NEW t \in Tables, NEW i \in DOMAIN members[t], NEW j \in DOMAIN members[t],
                     lobby'[members[t][i]].account = lobby'[members[t][j]].account
              PROVE  i = j
            <4>1. lobby[members[t][i]].account = lobby[members[t][j]].account
                BY <1>15, <3>2
            <4>. QED BY <4>1 DEF SidesInv
        <3>3. members' = members
            BY <1>6
        <3>. QED BY <3>1, <3>2, <3>3
    <2>. QED BY <2>1, <2>2, <2>3 DEF SidesInv
<1>17. HolderInv'
    <2>1. DOMAIN holder' = DOMAIN holder
        BY <1>5
    <2>2. Len(tokens') = k /\ k = Len(tokens) + 1 /\ Len(tokens) \in Nat
        BY <1>4, <1>6, TokensAre
    <2>3. \A j \in DOMAIN holder : holder'[j] = holder[j] \/ (j = k /\ holder'[j] = c)
        BY <1>5, <1>7
    <2>4. \A j \in DOMAIN holder : holder[j] # None =>
             lobby'[holder[j]] = lobby[holder[j]] /\ j <= Len(tokens) /\ j \in Nat
        BY <1>7, <1>8, TokensAre DEF HolderInv
    <2>. QED BY <1>7, <1>9, <2>1, <2>2, <2>3, <2>4 DEF HolderInv
<1>18. Queues'
    <2>1. ASSUME NEW x \in Members(net.queue')
          PROVE  /\ x.op \in Asking => lobby'[x.client].account = lobby[x.client].account
                 /\ x.op = "auth" => holder'[x.arg] \in {holder[x.arg], None}
        <3>1. CASE x.op = "disconnected"
            BY <3>1 DEF Asking
        <3>2. CASE Before(First, x) /\ x \in Members(net.queue)
            <4>1. x.op \in Asking => x.client # c
                BY <1>1, <1>2, <3>2 DEF Before, Client
            <4>2. x.op = "auth" => x.arg \in 1 .. Len(tokens)
                BY <3>2 DEF Queues, QueueInv, Finds
            <4>3. x.op = "auth" => x.arg # k
                BY <1>4, <4>2, TokensAre
            <4>. QED BY <1>5, <1>8, <1>11, <4>1, <4>3
        <3>. QED BY <1>11, <3>1, <3>2
    <2>2. Len(tokens) <= Len(tokens')
        BY <1>6, TokensAre
    <2>. QED BY <1>6, <1>10, <1>11, <1>12, <2>1, <2>2, QuietKeeps
<1>. QED BY <1>12, <1>14, <1>16, <1>17, <1>18

(* A handler that changes nothing.                                         *)
LEMMA NothingKeeps ==
    ASSUME TypeInv, OwnersInv, SidesInv, HolderInv, Queues, net.queue # << >>,
           net' = Popped, UNCHANGED <<thread, lobbyVars>>
    PROVE  TypeInv' /\ OwnersInv' /\ SidesInv' /\ HolderInv' /\ Queues'
<1>1. net' \in Nets /\ QueueInv(net.queue', net.alive', thread', timers)
    BY PoppedIs
<1>2. TypeInv' /\ Queues'
    BY <1>1, TypeStays, LobbyStays DEF TypeInv
<1>3. OwnersInv' /\ SidesInv'
    BY StillKeeps DEF lobbyVars
<1>. QED BY <1>2, <1>3 DEF HolderInv, lobbyVars

LEMMA AuthRefusedKeeps ==
    ASSUME TypeInv, OwnersInv, SidesInv, HolderInv, Queues, AuthRefused
    PROVE  TypeInv' /\ OwnersInv' /\ SidesInv' /\ HolderInv' /\ Queues'
<1>1. net.queue # << >> /\ First.op = "auth" /\ First.op \in Asking
    BY BeginIs DEF AuthRefused, Asking
<1>2. PICK c \in Clients : c = Owner /\ c \in Known
    BY <1>1, AskingIs
<1>3. PICK k \in Nat : k = First.arg
    BY <1>1, PoppedIs, TokensAre DEF Finds
<1>4. /\ net' = Popped /\ lobby' = [lobby EXCEPT ![c].token = k]
      /\ UNCHANGED <<thread, owner, entries, members, holder, tokens, timers>>
    BY <1>2, <1>3 DEF AuthRefused
<1>5. \A m \in Clients : /\ lobby'[m] \in LobbyClients /\ (m # c => lobby'[m] = lobby[m])
                         /\ lobby'[m].client = lobby[m].client
                         /\ lobby'[m].account = lobby[m].account
                         /\ lobby'[m].tolerant = lobby[m].tolerant
                         /\ lobby'[m].disconnected = lobby[m].disconnected
                         /\ lobby'[m].connected = lobby[m].connected
    <2>1. /\ \A m \in Clients : lobby[m] \in LobbyClients /\ (m # c => lobby'[m] = lobby[m])
          /\ lobby'[c] = [lobby[c] EXCEPT !.token = k]
        BY <1>4 DEF TypeInv
    <2>2. /\ lobby'[c] \in LobbyClients
          /\ lobby'[c].client = lobby[c].client /\ lobby'[c].account = lobby[c].account
          /\ lobby'[c].tolerant = lobby[c].tolerant
          /\ lobby'[c].disconnected = lobby[c].disconnected
          /\ lobby'[c].connected = lobby[c].connected
        BY <2>1 DEF LobbyClients
    <2>. QED BY <2>1, <2>2
<1>6. \A m \in Clients : IsBack(m)' = IsBack(m)
    BY <1>5 DEF IsBack
<1>7. net' \in Nets /\ QueueInv(net.queue', net.alive', thread', timers')
      /\ \A y \in Members(net'.queue) : y \in Members(net.queue) /\ y.client \in Clients
    BY <1>1, <1>4, PoppedIs
<1>8. TypeInv'
    <2>1. lobby' \in [Clients -> LobbyClients]
        BY <1>4, <1>5 DEF TypeInv
    <2>. QED BY <1>4, <1>7, <2>1 DEF TypeInv
<1>9. OwnersInv' /\ SidesInv'
    BY <1>2, <1>4, <1>5, StillKeeps
<1>10. HolderInv'
    <2>1. \A j \in DOMAIN holder : holder[j] # None => lobby'[holder[j]].account = lobby[holder[j]].account
        BY <1>5, TokensAre
    <2>. QED BY <1>4, <2>1 DEF HolderInv
<1>11. Queues'
    <2>1. \A x \in Members(net.queue') :
              /\ x.op \in Asking => lobby'[x.client].account = lobby[x.client].account
              /\ x.op = "auth" => holder'[x.arg] \in {holder[x.arg], None}
        BY <1>4, <1>5, <1>7
    <2>2. Len(tokens) <= Len(tokens')
        BY <1>4, TokensAre
    <2>. QED BY <1>4, <1>5, <1>6, <1>7, <1>8, <2>1, <2>2, QuietKeeps
<1>. QED BY <1>8, <1>9, <1>10, <1>11

(* A connection that is lost is its lobby client's last one, and takes the *)
(* place of the delay that the lobby client had.                           *)
LEMMA DisconnectedIs ==
    ASSUME TypeInv, OwnersInv, Queues, Disconnected
    PROVE  /\ net.queue # << >> /\ First.op = "disconnected" /\ ~Unreachable
           /\ UNCHANGED <<thread, owner, entries, members, holder, tokens>>
           /\ net' \in Nets /\ net'.alive = net.alive /\ net'.freed = net.freed
           /\ \A x, y : Precedes(net'.queue, x, y) => Precedes(Popped.queue, x, y)
           /\ \E c, l \in Clients :
                 /\ c = Client /\ l = Owner /\ l \in Known /\ Current(l) /\ owner[c] = l
                 /\ ~net.alive[c] /\ lobby[l].client = c
                 /\ timers' = (timers \ {lobby[l].task}) \cup {c}
                 /\ Members(net'.queue) = Members(Popped.queue)
                                             \ {Task("tolerated", lobby[l].task, None)}
                 /\ \A m \in Clients : m # l => lobby'[m] = lobby[m]
                 /\ lobby'[l] = [lobby[l] EXCEPT !.tolerant = TRUE, !.connected = FALSE, !.task = c]
                 /\ lobby' \in [Clients -> LobbyClients]
<1>1. net.queue # << >> /\ First.op = "disconnected" /\ ~Unreachable
    BY BeginIs DEF Disconnected
<1>2. PICK c \in Clients : c = Client
    BY <1>1, PoppedIs
<1>3. PICK l \in Clients : l = Owner
    BY <1>1, OwnerIs
<1>4. PICK old : old = lobby[l].task
    OBVIOUS
<1>5. /\ net' = Cancelled(Popped, old)
      /\ timers' = (timers \ {old}) \cup {c}
      /\ lobby' = [lobby EXCEPT ![l].tolerant = TRUE, ![l].connected = FALSE, ![l].task = c]
      /\ UNCHANGED <<thread, owner, entries, members, holder, tokens>>
    BY <1>2, <1>3, <1>4 DEF Disconnected
<1>6. /\ l \in Known /\ l # None /\ Current(l) /\ owner[c] = l
    BY <1>1, <1>2, <1>3, OwnerIs DEF Owner
<1>7. /\ Finds(First, net.alive, thread) /\ Popped \in Nets /\ Popped.alive = net.alive
      /\ Popped.freed = net.freed
      /\ QueueInv(Popped.queue, Popped.alive, thread, timers)
      /\ \A y \in Members(Popped.queue) :
             y \in Members(net.queue) /\ y.client \in Clients /\ Before(First, y)
      /\ thread[c] \notin {"none", "started"}
    BY <1>1, <1>2, PoppedIs
<1>8. ~net.alive[c] /\ lobby[l].client = c
    BY <1>1, <1>2, <1>6, <1>7 DEF Finds, Client
<1>9. /\ lobby' \in [Clients -> LobbyClients]
      /\ \A m \in Clients : m # l => lobby'[m] = lobby[m]
      /\ lobby'[l] = [lobby[l] EXCEPT !.tolerant = TRUE, !.connected = FALSE, !.task = c]
    <2>1. /\ \A m \in Clients : lobby[m] \in LobbyClients /\ (m # l => lobby'[m] = lobby[m])
          /\ lobby'[l] = [lobby[l] EXCEPT !.tolerant = TRUE, !.connected = FALSE, !.task = c]
        BY <1>5 DEF TypeInv
    <2>2. lobby'[l] \in LobbyClients
        BY <2>1 DEF LobbyClients
    <2>3. \A m \in Clients : lobby'[m] \in LobbyClients
        BY <2>1, <2>2
    <2>4. lobby' = [m \in Clients |-> lobby'[m]]
        BY <1>5 DEF TypeInv
    <2>. QED BY <2>1, <2>3, <2>4
<1>10. /\ net' \in Nets /\ net'.alive = net.alive /\ net'.freed = net.freed
       /\ Members(net'.queue) = Members(Popped.queue) \ {Task("tolerated", old, None)}
       /\ \A x, y : Precedes(net'.queue, x, y) => Precedes(Popped.queue, x, y)
    <2>1. PICK x : x = Task("tolerated", old, None)
        OBVIOUS
    <2>2. PICK n \in Nets : n = Popped
        BY <1>7
    <2>3. n.queue \in Seq(Tasks)
        BY DEF Nets
    <2>4. /\ Without(n.queue, {x}) \in Seq(Tasks)
          /\ Members(Without(n.queue, {x})) = Members(n.queue) \ {x}
          /\ \A y, z : Precedes(Without(n.queue, {x}), y, z) => Precedes(n.queue, y, z)
        BY <2>3, WithoutOrder
    <2>5. net' = [n EXCEPT !.queue = Without(n.queue, {x})]
        BY <1>5, <2>1, <2>2 DEF Cancelled
    <2>6. /\ net' \in Nets /\ net'.alive = n.alive /\ net'.freed = n.freed
          /\ net'.queue = Without(n.queue, {x})
        BY <2>4, <2>5 DEF Nets
    <2>. QED BY <1>7, <2>1, <2>2, <2>4, <2>6
<1>. QED BY <1>1, <1>2, <1>3, <1>4, <1>5, <1>6, <1>8, <1>9, <1>10

LEMMA DisconnectedKeeps ==
    ASSUME TypeInv, OwnersInv, SidesInv, HolderInv, Queues, Disconnected
    PROVE  TypeInv' /\ OwnersInv' /\ SidesInv' /\ HolderInv' /\ Queues'
<1>1. /\ net.queue # << >> /\ First.op = "disconnected"
      /\ net' \in Nets /\ net'.alive = net.alive
      /\ \A x, y : Precedes(net'.queue, x, y) => Precedes(Popped.queue, x, y)
    BY DisconnectedIs
<1>2. PICK c \in Clients, l \in Clients :
         /\ c = Client /\ l = Owner /\ l \in Known /\ Current(l) /\ owner[c] = l
         /\ ~net.alive[c] /\ lobby[l].client = c
         /\ timers' = (timers \ {lobby[l].task}) \cup {c}
         /\ Members(net'.queue) \subseteq Members(Popped.queue)
         /\ \A m \in Clients : m # l => lobby'[m] = lobby[m]
         /\ lobby'[l] = [lobby[l] EXCEPT !.tolerant = TRUE, !.connected = FALSE, !.task = c]
         /\ lobby' \in [Clients -> LobbyClients]
    BY DisconnectedIs
<1>5. UNCHANGED <<thread, owner, entries, members, holder, tokens>>
    BY DisconnectedIs
<1>6. l \in Known /\ l # None /\ Current(l) /\ owner[c] = l
    BY <1>2, NoneIs
<1>7. /\ Finds(First, net.alive, thread) /\ Popped \in Nets /\ Popped.alive = net.alive
      /\ QueueInv(Popped.queue, Popped.alive, thread, timers)
      /\ \A y \in Members(Popped.queue) :
             y \in Members(net.queue) /\ y.client \in Clients /\ Before(First, y)
      /\ thread[c] \notin {"none", "started"}
    BY <1>1, <1>2, PoppedIs
<1>8. ~net.alive[c] /\ lobby[l].client = c
    BY <1>2
<1>9. \A m \in Clients : /\ lobby'[m] \in LobbyClients /\ (m # l => lobby'[m] = lobby[m])
                         /\ lobby'[m].client = lobby[m].client
                         /\ lobby'[m].account = lobby[m].account
                         /\ (lobby[m].tolerant => lobby'[m].tolerant)
                         /\ lobby'[l].tolerant
    <2>1. lobby[l] \in LobbyClients
        BY DEF TypeInv
    <2>2. /\ lobby'[l].tolerant
          /\ lobby'[l].client = lobby[l].client /\ lobby'[l].account = lobby[l].account
        BY <1>2, <2>1 DEF LobbyClients
    <2>. QED BY <1>2, <2>2
<1>10. \A m \in Clients : m # l => IsBack(m)' = IsBack(m)
    BY <1>9 DEF IsBack
<1>11. /\ net' \in Nets /\ net'.alive = net.alive
       /\ Members(net'.queue) \subseteq Members(Popped.queue)
       /\ \A x, y : Precedes(net'.queue, x, y) => Precedes(Popped.queue, x, y)
    BY <1>1, <1>2
<1>12. TypeInv'
    <2>1. lobby' \in [Clients -> LobbyClients]
        BY <1>2
    <2>2. timers' \in SUBSET Clients
        BY <1>2 DEF TypeInv
    <2>. QED BY <1>5, <1>11, <2>1, <2>2 DEF TypeInv
<1>13. OwnersInv' /\ SidesInv'
    BY <1>5, <1>6, <1>9, StillKeeps
<1>14. HolderInv'
    <2>1. \A j \in DOMAIN holder : holder[j] # None => lobby'[holder[j]].account = lobby[holder[j]].account
        BY <1>9, TokensAre
    <2>. QED BY <1>5, <2>1 DEF HolderInv
<1>15. Queues'
    <2>1. Known' = Known /\ \A m \in Known : Current(m)' = Current(m) /\ m \in Clients
        BY <1>5, <1>9 DEF Known, Current
    <2>2. ASSUME NEW x \in Members(net.queue') PROVE Finds(x, net.alive, thread)'
        <3>1. x.client \in Clients /\ Finds(x, net.alive, thread)
            BY <1>7, <1>11 DEF QueueInv
        <3>2. owner[x.client] # None => owner[x.client] \in Clients
            BY <3>1 DEF TypeInv
        <3>3. x.op = "auth" => x.arg \in DOMAIN holder
            BY <3>1, TokensAre, MembershipAssumption DEF Finds
        <3>4. x.op = "auth" /\ holder[x.arg] # None => holder[x.arg] \in Clients
            BY <3>3, TokensAre
        <3>5. x.op = "disconnected" => /\ ~net'.alive[x.client]
                                       /\ owner'[x.client] # None =>
                                             lobby'[owner'[x.client]].client = x.client
            BY <1>5, <1>9, <1>11, <3>1, <3>2 DEF Finds
        <3>6. x.op = "auth" /\ holder'[x.arg] # None =>
                 /\ lobby'[holder'[x.arg]].tolerant
                 /\ \A d \in Clients : owner'[d] = holder'[x.arg] => thread'[d] = "gone"
            BY <1>5, <1>9, <3>1, <3>4 DEF Finds
        <3>7. x.op \in Asking => owner'[x.client] = x.client /\ lobby'[x.client].account = None
            BY <1>5, <1>9, <3>1 DEF Finds
        <3>. QED BY <1>5, <3>1, <3>5, <3>6, <3>7 DEF Finds
    <2>3. ASSUME NEW m \in Known', Current(m)', ~IsBack(m)'
          PROVE  /\ ~net'.alive[lobby'[m].client]
                 /\ \A x \in Members(net'.queue) : x.client = lobby'[m].client => x.op # "disconnected"
        <3>1. CASE m = l
            <4>1. lobby'[m].client = c
                BY <1>8, <1>9, <3>1
            <4>2. \A x \in Members(Popped.queue) : x.client = c => x.op # "disconnected"
                BY <1>1, <1>2, <1>7 DEF Before, Client
            <4>. QED BY <1>8, <1>11, <4>1, <4>2
        <3>2. CASE m # l
            <4>1. m \in Known /\ Current(m) /\ ~IsBack(m) /\ lobby'[m].client = lobby[m].client
                BY <1>9, <1>10, <2>1, <2>3, <3>2
            <4>. QED BY <1>7, <1>11, <4>1 DEF QueueInv
        <3>. QED BY <3>1, <3>2
    <2>4. ASSUME NEW d \in timers'
          PROVE  /\ ~net'.alive[d]
                 /\ \A x \in Members(net'.queue) : x.client = d => x.op \in {"enter", "leave"}
        <3>1. CASE d = c
            <4>1. ASSUME NEW x \in Members(net'.queue), x.client = c PROVE x.op \in {"enter", "leave"}
                <5>1. Before(First, x) /\ First.client = x.client
                    BY <1>2, <1>7, <1>11, <4>1 DEF Client
                <5>2. x \in Tasks
                    <6>1. x \in Members(net.queue)
                        BY <1>7, <1>11
                    <6>. QED BY <6>1, KnownAre
                <5>. QED BY <1>1, <5>1, <5>2 DEF Before, Tasks, Asking
            <4>. QED BY <1>8, <1>11, <3>1, <4>1
        <3>2. CASE d # c
            <4>1. d \in timers
                BY <1>2, <3>2
            <4>. QED BY <1>7, <1>11, <4>1 DEF QueueInv
        <3>. QED BY <3>1, <3>2
    <2>5. ASSUME NEW d \in Clients, thread'[d] \in {"none", "started"}
          PROVE  owner'[d] = None /\ d \notin timers' /\ \A x \in Members(net'.queue) : x.client # d
        BY <1>2, <1>5, <1>7, <1>11, <2>5 DEF QueueInv
    <2>6. \A d \in Clients : owner'[d] # None /\ lobby'[owner'[d]].client # d => thread'[d] = "gone"
        <3>1. \A d \in Clients : owner[d] # None => lobby'[owner[d]].client = lobby[owner[d]].client
            BY <1>9 DEF TypeInv
        <3>. QED BY <1>5, <1>7, <3>1 DEF QueueInv
    <2>7. /\ \A d \in Clients : thread'[d] \in {"none", "gone"} => ~net'.alive[d]
          /\ \A x, y \in Members(net'.queue) : Precedes(net'.queue, x, y) => Before(x, y)
        BY <1>5, <1>7, <1>11 DEF QueueInv
    <2>. QED BY <2>2, <2>3, <2>4, <2>5, <2>6, <2>7 DEF Queues, QueueInv
<1>. QED BY <1>12, <1>13, <1>14, <1>15

(* Nobody whose account a table does not reach has the account.            *)
LEMMA NotReachedIs ==
    ASSUME TypeInv, OwnersInv, SidesInv, NEW t \in Tables, NEW a, ~Reaches(t, a)
    PROVE  \A i \in DOMAIN members[t] : lobby[members[t][i]].account # a
<1> DEFINE at == {i \in DOMAIN members[t] : Stops(t, a, i)}
<1>1. at = {}
    <2>1. SUFFICES ASSUME at # {} PROVE FALSE
        OBVIOUS
    <2>2. PlaceOf(t, a) = CHOOSE i \in at : \A j \in at : i <= j
        BY <2>1 DEF PlaceOf
    <2>3. at \in SUBSET Nat /\ 0 \notin at
        BY MembersAre
    <2> HIDE DEF at
    <2>4. \E i \in at : \A j \in at : i <= j
        BY <2>1, <2>3, LeastNat
    <2>5. PlaceOf(t, a) \in at
        BY <2>2, <2>4
    <2>. QED BY <2>3, <2>5 DEF Reaches
<1>2. SUFFICES ASSUME NEW i \in DOMAIN members[t] PROVE lobby[members[t][i]].account # a
    OBVIOUS
<1>3. ~Stops(t, a, i)
    BY <1>1
<1>4. AccountAt(members[t][i]) # a
    BY <1>3 DEF Stops
<1>5. Current(members[t][i])
    BY MembersAre
<1>. QED BY <1>4, <1>5 DEF AccountAt, Current

LEMMA EnterKeeps ==
    ASSUME TypeInv, OwnersInv, SidesInv, HolderInv, Queues, Enter
    PROVE  /\ TypeInv' /\ OwnersInv' /\ SidesInv' /\ HolderInv' /\ Queues'
           /\ \A u \in Tables : At(u) \subseteq At(u)'
<1>1. net.queue # << >> /\ First.op = "enter" /\ ~Unreachable /\ net' = Popped
    BY BeginIs DEF Enter
<1>2. PICK l \in Clients : l = Owner
    BY <1>1, OwnerIs
<1>3. l \in Known /\ l # None /\ Current(l)
    BY <1>1, <1>2, OwnerIs
<1>4. PICK t \in Tables : t = First.arg
    BY <1>1, PoppedIs DEF Finds
<1>5. UNCHANGED <<thread, owner, holder, tokens, timers>>
    BY DEF Enter
<1>6. PICK a : a = lobby[l].account
    OBVIOUS
<1>7. CASE UNCHANGED <<members, entries, lobby>>
    <2>1. UNCHANGED <<thread, lobbyVars>>
        BY <1>5, <1>7 DEF lobbyVars
    <2>2. \A u \in Tables : At(u)' = At(u)
        BY <1>7 DEF At
    <2>. QED BY <1>1, <2>1, <2>2, NothingKeeps
<1>8. CASE /\ a # None /\ ~Reaches(t, a)
           /\ members' = [members EXCEPT ![t] = Append(@, l)]
           /\ entries' = [entries EXCEPT ![l] = @ \cup {t}]
           /\ lobby' = [lobby EXCEPT ![l].refs = @ + 1]
    <2>1. \A m \in Clients : /\ lobby'[m] \in LobbyClients /\ (m # l => lobby'[m] = lobby[m])
                             /\ lobby'[m].client = lobby[m].client
                             /\ lobby'[m].account = lobby[m].account
                             /\ lobby'[m].tolerant = lobby[m].tolerant
                             /\ lobby'[m].disconnected = lobby[m].disconnected
                             /\ lobby'[m].connected = lobby[m].connected
        <3>1. /\ \A m \in Clients : lobby[m] \in LobbyClients /\ (m # l => lobby'[m] = lobby[m])
              /\ lobby'[l] = [lobby[l] EXCEPT !.refs = @ + 1]
            BY <1>8 DEF TypeInv
        <3>2. /\ lobby'[l] \in LobbyClients
              /\ lobby'[l].client = lobby[l].client /\ lobby'[l].account = lobby[l].account
              /\ lobby'[l].tolerant = lobby[l].tolerant
              /\ lobby'[l].disconnected = lobby[l].disconnected
              /\ lobby'[l].connected = lobby[l].connected
            BY <3>1 DEF LobbyClients
        <3>. QED BY <3>1, <3>2
    <2>2. /\ members'[t] = Append(members[t], l) /\ members'[t] \in Seq(Clients)
          /\ \A u \in Tables : u # t => members'[u] = members[u]
          /\ Len(members[t]) \in Nat
          /\ DOMAIN members[t] = 1 .. Len(members[t])
          /\ DOMAIN members'[t] = 1 .. (Len(members[t]) + 1)
          /\ \A i \in 1 .. Len(members[t]) : members'[t][i] = members[t][i]
          /\ members'[t][Len(members[t]) + 1] = l
          /\ At(t)' = At(t) \cup {l}
        <3>1. PICK s \in Seq(Clients) : s = members[t]
            BY DEF TypeInv
        <3>2. /\ Append(s, l) \in Seq(Clients) /\ Members(Append(s, l)) = Members(s) \cup {l}
              /\ Len(Append(s, l)) = Len(s) + 1 /\ Append(s, l)[Len(s) + 1] = l
              /\ \A i \in 1 .. Len(s) : Append(s, l)[i] = s[i]
            BY AppendMembers, AppendProperties
        <3>3. Len(s) \in Nat /\ DOMAIN s = 1 .. Len(s)
              /\ DOMAIN Append(s, l) = 1 .. (Len(s) + 1)
            BY <3>2, LenProperties
        <3>4. members'[t] = Append(s, l) /\ \A u \in Tables : u # t => members'[u] = members[u]
            BY <1>8, <3>1 DEF TypeInv
        <3>. QED BY <3>1, <3>2, <3>3, <3>4 DEF At
    <2>3. \A u \in Tables : At(u)' = IF u = t THEN At(u) \cup {l} ELSE At(u)
        BY <2>2 DEF At
    <2>4. \A m \in Clients : entries'[m] = IF m = l THEN entries[m] \cup {t} ELSE entries[m]
        BY <1>8 DEF TypeInv
    <2>5. Known' = Known /\ \A m \in Known : m \in Clients /\ Current(m)' = Current(m)
        BY <1>5, <2>1 DEF Known, Current
    <2>6. net' \in Nets /\ QueueInv(net.queue', net.alive', thread', timers')
          /\ \A y \in Members(net'.queue) : y \in Members(net.queue) /\ y.client \in Clients
        BY <1>1, <1>5, PoppedIs
    <2>7. TypeInv'
        <3>1. lobby' \in [Clients -> LobbyClients]
            BY <1>8, <2>1 DEF TypeInv
        <3>2. members' \in [Tables -> Seq(Clients)]
            BY <1>8, <2>2 DEF TypeInv
        <3>3. entries' \in [Clients -> SUBSET Tables]
            BY <1>8 DEF TypeInv
        <3>. QED BY <1>5, <2>6, <3>1, <3>2, <3>3 DEF TypeInv
    <2>8. OwnersInv'
        <3>1. ASSUME NEW m \in Clients, lobby'[m].client = None
              PROVE  /\ lobby'[m] = NewLobbyClient /\ entries'[m] = {}
                     /\ \A u \in Tables : m \notin At(u)'
            <4>1. m # l /\ lobby[m].client = None
                BY <1>3, <2>1, <3>1 DEF Known
            <4>2. lobby[m] = NewLobbyClient /\ entries[m] = {} /\ \A u \in Tables : m \notin At(u)
                BY <4>1 DEF OwnersInv
            <4>3. \A u \in Tables : m \notin At(u)'
                BY <2>3, <4>1, <4>2
            <4>. QED BY <2>1, <2>4, <4>1, <4>2, <4>3
        <3>2. ASSUME NEW d \in Clients, owner'[d] # None
              PROVE  /\ lobby'[owner'[d]].client # None /\ Current(owner[d])'
                     /\ owner'[d] # d => lobby'[owner'[d]].account # None
            <4>1. owner'[d] = owner[d] /\ owner[d] \in Known
                BY <1>5, <3>2 DEF OwnersInv, Known, TypeInv
            <4>. QED BY <1>5, <2>1, <2>5, <3>2, <4>1 DEF OwnersInv, Current
        <3>3. \A m \in Known' : IF lobby'[m].account = None THEN lobby'[m].client = m ELSE Current(m)'
            BY <2>1, <2>5 DEF OwnersInv
        <3>4. \A d \in Clients : owner'[d] = None <=> lobby'[d].client = None
            BY <1>5, <2>1 DEF OwnersInv
        <3>. QED BY <3>1, <3>2, <3>3, <3>4 DEF OwnersInv
    <2>9. SidesInv'
        <3>1. \A u \in Tables : \A m \in At(u)' : lobby'[m].account # None
            <4>1. \A u \in Tables : \A m \in At(u) : m \in Clients
                BY MembersAre, KnownAre
            <4>. QED BY <1>6, <1>8, <2>1, <2>3, <4>1 DEF SidesInv
        <3>2. \A m \in Known' : Current(m)' /\ lobby'[m].account = None => entries'[m] = {}
            BY <1>6, <1>8, <2>1, <2>4, <2>5 DEF SidesInv
        <3>3. ASSUME NEW m \in Known', Current(m)', NEW u \in Tables
              PROVE  m \in At(u)' <=> u \in entries'[m]
            <4>1. m \in Clients /\ (m \in At(u) <=> u \in entries[m])
                BY <2>5, <3>3 DEF SidesInv
            <4>2. CASE u = t
                <5>1. CASE m = l
                    BY <2>3, <2>4, <4>1, <4>2, <5>1
                <5>2. CASE m # l
                    BY <2>3, <2>4, <4>1, <4>2, <5>2
                <5>. QED BY <5>1, <5>2
            <4>3. CASE u # t
                BY <2>3, <2>4, <4>1, <4>3
            <4>. QED BY <4>2, <4>3
        <3>4. ASSUME NEW u \in Tables, NEW i \in DOMAIN members'[u], NEW j \in DOMAIN members'[u],
                     lobby'[members'[u][i]].account = lobby'[members'[u][j]].account
              PROVE  i = j
            <4>1. \A k \in DOMAIN members[u] : members[u][k] \in Clients
                BY MembersAre, KnownAre
            <4>2. CASE u # t
                BY <2>1, <2>2, <3>4, <4>1, <4>2 DEF SidesInv
            <4>3. CASE u = t
                <5> DEFINE n == Len(members[t])
                <5>1. \A k \in 1 .. n : /\ members[t][k] \in Clients
                                        /\ lobby[members[t][k]].account # a
                                        /\ lobby'[members'[t][k]].account = lobby[members[t][k]].account
                    BY <1>8, <2>1, <2>2, <4>1, <4>3, NotReachedIs
                <5>2. lobby'[members'[t][n + 1]].account = a
                    BY <1>6, <2>1, <2>2
                <5>3. i \in 1 .. n \/ i = n + 1
                    BY <2>2, <4>3
                <5>4. j \in 1 .. n \/ j = n + 1
                    BY <2>2, <4>3
                <5>5. \A p, q \in 1 .. n : lobby[members[t][p]].account = lobby[members[t][q]].account => p = q
                    BY <2>2 DEF SidesInv
                <5> HIDE DEF n
                <5>. QED BY <3>4, <4>3, <5>1, <5>2, <5>3, <5>4, <5>5
            <4>. QED BY <4>2, <4>3
        <3>. QED BY <3>1, <3>2, <3>3, <3>4 DEF SidesInv
    <2>10. HolderInv'
        <3>1. \A j \in DOMAIN holder : holder[j] # None => lobby'[holder[j]].account = lobby[holder[j]].account
            BY <2>1, TokensAre
        <3>. QED BY <1>5, <3>1 DEF HolderInv
    <2>11. Queues'
        <3>1. \A x \in Members(net.queue') :
                  /\ x.op \in Asking => lobby'[x.client].account = lobby[x.client].account
                  /\ x.op = "auth" => holder'[x.arg] \in {holder[x.arg], None}
            BY <1>5, <2>1, <2>6
        <3>2. Len(tokens) <= Len(tokens')
            BY <1>5, TokensAre
        <3>3. \A m \in Clients : IsBack(m)' = IsBack(m)
            BY <2>1 DEF IsBack
        <3>. QED BY <1>5, <2>1, <2>6, <2>7, <3>1, <3>2, <3>3, QuietKeeps
    <2>. QED BY <2>3, <2>7, <2>8, <2>9, <2>10, <2>11
<1>. QED BY <1>2, <1>4, <1>6, <1>7, <1>8 DEF Enter

(* What reviving does: the connection's lobby client gives way to the one  *)
(* that holds the token, whose connections are gone.                       *)
LEMMA ReviveKeeps ==
    ASSUME TypeInv, OwnersInv, SidesInv, HolderInv, Queues, Revive
    PROVE  /\ TypeInv' /\ OwnersInv' /\ SidesInv' /\ HolderInv' /\ Queues'
           /\ members' = members
<1>1. net.queue # << >> /\ First.op = "auth" /\ First.op \in Asking
    BY BeginIs DEF Revive, Asking
<1>2. PICK c \in Clients : c = Client
    BY <1>1, PoppedIs
<1>3. /\ Owner = c /\ owner[c] = c /\ c \in Known /\ c # None /\ lobby[c].client = c
      /\ lobby[c].account = None /\ entries[c] = {}
      /\ \A t \in Tables : c \notin At(t)
      /\ \A j \in DOMAIN holder : holder[j] # c
    BY <1>1, <1>2, AskingIs DEF Owner
<1>4. PICK k \in 1 .. Len(tokens) : k = First.arg /\ k \in DOMAIN holder
    BY <1>1, PoppedIs, TokensAre, MembershipAssumption DEF Finds
<1>5. PICK r \in Clients : r = holder[k] /\ r # None /\ lobby[r].account = tokens[k]
    BY <1>4, TokensAre DEF Revive
<1>6. PICK ok \in BOOLEAN : /\ net' = Answered(ok)
                            /\ lobby' = [lobby EXCEPT ![c].token = k, ![r] = Revived(r, ok)]
    BY <1>3, <1>4, <1>5 DEF Revive
<1>7. /\ owner' = [owner EXCEPT ![c] = r]
      /\ members' = [t \in Tables |-> IF t \in entries[r] THEN Replaced(members[t], c, r)
                                      ELSE members[t]]
      /\ entries' = [entries EXCEPT ![c] = entries[r]]
      /\ tokens' = IF r = c THEN tokens ELSE Append(tokens, tokens[k])
      /\ UNCHANGED <<thread, holder, timers>>
    BY <1>3, <1>4, <1>5 DEF Revive
<1>8. /\ lobby[r].account # None /\ r # c /\ lobby[r].client # None /\ r \in Known /\ Current(r)
    <2>1. lobby[r].account # None
        BY <1>5, TokensAre
    <2>2. lobby[r].client # None
        BY <2>1 DEF OwnersInv, NewLobbyClient
    <2>. QED BY <1>3, <2>1, <2>2 DEF OwnersInv, Known
<1>9. /\ lobby'[c] = [lobby[c] EXCEPT !.token = k]
      /\ lobby'[r] = Revived(r, ok)
      /\ \A m \in Clients : m # c /\ m # r => lobby'[m] = lobby[m]
      /\ lobby' = [m \in Clients |-> lobby'[m]]
      /\ \A m \in Clients : lobby[m] \in LobbyClients
    BY <1>6, <1>8 DEF TypeInv
<1>10. /\ lobby'[r] \in LobbyClients /\ lobby'[r].client = c
       /\ lobby'[r].account = lobby[r].account /\ IsBack(r)'
    <2>1. PICK u \in Nat : u = Len(tokens) + 1
        BY TokensAre
    <2>2. lobby'[r] = [lobby[r] EXCEPT !.client = c,
                          !.tolerant = FALSE, !.disconnected = FALSE, !.connected = TRUE,
                          !.revived = ~ok, !.token = u]
        BY <1>3, <1>8, <1>9, <2>1 DEF Revived
    <2>3. (~ok) \in {TRUE, FALSE}
        BY Zenon
    <2>4. /\ lobby'[r] \in LobbyClients /\ lobby'[r].client = c
          /\ lobby'[r].account = lobby[r].account
          /\ ~lobby'[r].tolerant /\ ~lobby'[r].disconnected /\ lobby'[r].connected
        BY <1>9, <2>2, <2>3 DEF LobbyClients
    <2>. QED BY <2>4 DEF IsBack
<1>11. /\ lobby'[c] \in LobbyClients /\ lobby'[c].client = c /\ lobby'[c].account = None
    BY <1>3, <1>4, <1>9, TokensAre DEF LobbyClients
<1>12. \A m \in Clients : lobby'[m].account = lobby[m].account
    BY <1>3, <1>9, <1>10, <1>11
<1>13. /\ \A d \in Clients : owner'[d] = IF d = c THEN r ELSE owner[d]
       /\ \A m \in Clients : entries'[m] = IF m = c THEN entries[r] ELSE entries[m]
       /\ tokens' \in Seq(Accounts) /\ Len(tokens') = Len(tokens) + 1
    BY <1>7, <1>8, TokensAre DEF TypeInv
<1>14. members' = members
    <2>1. ASSUME NEW t \in Tables PROVE Replaced(members[t], c, r) = members[t]
        <3>1. \A i \in DOMAIN members[t] : members[t][i] # c
            BY <1>3, MembersAre
        <3>2. members[t] = [i \in DOMAIN members[t] |-> members[t][i]]
            <4>1. members[t] \in [1 .. Len(members[t]) -> Clients]
                BY LenProperties DEF TypeInv
            <4>. QED BY <4>1
        <3>. QED BY <3>1, <3>2 DEF Replaced
    <2>2. members = [t \in Tables |-> members[t]]
        BY DEF TypeInv
    <2>3. members' = [t \in Tables |-> members[t]]
        BY <1>7, <2>1
    <2>. QED BY <2>2, <2>3
<1>15. /\ net' \in Nets
       /\ QueueInv(net.queue', net.alive', thread, timers)
       /\ \A y \in Members(net.queue') :
             /\ y.client \in Clients
             /\ \/ y \in Members(net.queue) /\ Before(First, y)
                \/ y.op = "disconnected" /\ y.client = c
    BY <1>1, <1>2, <1>6, AnsweredIs
<1>16. /\ thread[c] \notin {"none", "started"} /\ lobby[r].tolerant
       /\ \A d \in Clients : owner[d] = r => thread[d] = "gone"
    BY <1>1, <1>2, <1>4, <1>5, PoppedIs DEF Finds
<1>17. TypeInv'
    <2>1. lobby' \in [Clients -> LobbyClients]
        <3>1. \A m \in Clients : lobby'[m] \in LobbyClients
            BY <1>9, <1>10, <1>11
        <3>. QED BY <1>9, <3>1
    <2>2. entries' \in [Clients -> SUBSET Tables] /\ owner' \in [Clients -> Clients \cup {None}]
        BY <1>7 DEF TypeInv
    <2>. QED BY <1>7, <1>13, <1>14, <1>15, <2>1, <2>2 DEF TypeInv
(* Everybody else is where he was.                                         *)
<1>18. ASSUME NEW m \in Known, m # c, m # r
       PROVE  /\ m \in Clients /\ lobby'[m] = lobby[m] /\ Current(m)' = Current(m)
              /\ lobby[m].client \in Clients /\ entries'[m] = entries[m]
    <2>1. m \in Clients /\ lobby[m].client \in Clients /\ lobby'[m] = lobby[m]
        BY <1>9, <1>18, KnownAre
    <2>2. owner[c] # m /\ owner'[c] # m
        BY <1>3, <1>13, <1>18
    <2>. QED BY <1>13, <1>18, <2>1, <2>2 DEF Current
<1>19. /\ Known' = Known /\ Current(r)' /\ ~Current(c)'
    <2>1. Known' = Known
        <3>1. \A m \in Clients : lobby'[m].client # None <=> lobby[m].client # None
            BY <1>3, <1>8, <1>9, <1>10, <1>11
        <3>. QED BY <3>1 DEF Known
    <2>. QED BY <1>8, <1>10, <1>11, <1>13, <2>1 DEF Current
<1>20. ASSUME NEW d \in Clients, d # c, owner[d] # None
       PROVE  owner'[d] = owner[d] /\ owner[d] \in Known /\ owner[d] # c
    BY <1>3, <1>13, <1>20 DEF OwnersInv, Known, TypeInv
<1>21. OwnersInv'
    <2>1. ASSUME NEW m \in Clients, lobby'[m].client = None
          PROVE  /\ lobby'[m] = NewLobbyClient /\ entries'[m] = {}
                 /\ \A t \in Tables : m \notin At(t)'
        <3>1. m # c /\ m # r
            BY <1>3, <1>10, <1>11, <2>1
        <3>2. lobby'[m] = lobby[m] /\ entries'[m] = entries[m]
            BY <1>9, <1>13, <3>1
        <3>3. lobby[m] = NewLobbyClient /\ entries[m] = {} /\ \A t \in Tables : m \notin At(t)
            BY <2>1, <3>2 DEF OwnersInv
        <3>. QED BY <1>14, <3>2, <3>3 DEF At
    <2>2. ASSUME NEW d \in Clients PROVE owner'[d] = None <=> lobby'[d].client = None
        <3>1. CASE d = c
            BY <1>3, <1>5, <1>11, <1>13, <3>1
        <3>2. CASE d = r
            BY <1>3, <1>8, <1>10, <1>13, <3>2 DEF OwnersInv
        <3>3. CASE d # c /\ d # r
            BY <1>9, <1>13, <3>3 DEF OwnersInv
        <3>. QED BY <3>1, <3>2, <3>3
    <2>3. ASSUME NEW d \in Clients, owner'[d] # None
          PROVE  /\ lobby'[owner'[d]].client # None /\ Current(owner[d])'
                 /\ owner'[d] # d => lobby'[owner'[d]].account # None
        <3>1. CASE owner'[d] = r
            BY <1>3, <1>8, <1>10, <1>19, <3>1 DEF Current
        <3>2. CASE owner'[d] # r
            <4>1. d # c /\ owner'[d] = owner[d] /\ owner[d] \in Known /\ owner[d] # c /\ owner[d] # r
                BY <1>13, <1>20, <2>3, <3>2
            <4>2. lobby'[owner[d]] = lobby[owner[d]] /\ Current(owner[d])' = Current(owner[d])
                <5>1. PICK m \in Known : m = owner[d]
                    BY <4>1
                <5>2. lobby'[m] = lobby[m] /\ lobby[m].client # c /\ lobby[m].client \in Clients
                      /\ owner'[m] = owner[m]
                    BY <1>3, <1>13, <1>18, <2>3, <4>1, <5>1 DEF OwnersInv, Current
                <5>3. owner'[d] = m
                    BY <4>1, <5>1
                <5>. QED BY <1>13, <5>1, <5>2, <5>3 DEF Current
            <4>3. lobby[owner[d]].client # None /\ Current(owner[d])
                  /\ (owner[d] # d => lobby[owner[d]].account # None)
                BY <2>3, <4>1 DEF OwnersInv
            <4>. QED BY <4>1, <4>2, <4>3
        <3>. QED BY <3>1, <3>2
    <2>4. ASSUME NEW m \in Known'
          PROVE  IF lobby'[m].account = None THEN lobby'[m].client = m ELSE Current(m)'
        <3>1. CASE m = c
            BY <1>11, <3>1
        <3>2. CASE m = r
            BY <1>8, <1>10, <1>19, <3>2
        <3>3. CASE m # c /\ m # r
            BY <1>18, <1>19, <3>3 DEF OwnersInv
        <3>. QED BY <3>1, <3>2, <3>3
    <2>. QED BY <2>1, <2>2, <2>3, <2>4 DEF OwnersInv
<1>22. SidesInv'
    <2>1. \A t \in Tables : /\ \A m \in At(t)' : m \in Clients /\ m \in At(t)
                            /\ \A i \in DOMAIN members[t] : members[t][i] \in Clients
        BY <1>14, MembersAre, KnownAre DEF At
    <2>2. \A t \in Tables : \A m \in At(t)' : lobby'[m].account # None
        BY <1>12, <2>1 DEF SidesInv
    <2>3. ASSUME NEW t \in Tables, NEW i \in DOMAIN members'[t], NEW j \in DOMAIN members'[t],
                 lobby'[members'[t][i]].account = lobby'[members'[t][j]].account
          PROVE  i = j
        BY <1>12, <1>14, <2>1, <2>3 DEF SidesInv
    <2>4. ASSUME NEW m \in Known', Current(m)'
          PROVE  /\ lobby'[m].account = None => entries'[m] = {}
                 /\ \A t \in Tables : m \in At(t)' <=> t \in entries'[m]
        <3>1. m \in Clients /\ m # c /\ m \in Known
            <4>1. m # c
                BY <1>19, <2>4
            <4>. QED BY <1>19, <4>1, KnownAre
        <3>2. Current(m) /\ entries'[m] = entries[m]
            <4>1. CASE m = r
                BY <1>8, <1>13, <3>1, <4>1
            <4>2. CASE m # r
                BY <1>18, <2>4, <3>1, <4>2
            <4>. QED BY <4>1, <4>2
        <3>. QED BY <1>12, <1>14, <3>1, <3>2 DEF SidesInv, At
    <2>. QED BY <2>2, <2>3, <2>4 DEF SidesInv
<1>23. HolderInv'
    <2>1. \A j \in DOMAIN holder : holder[j] # None =>
              lobby'[holder[j]].account = lobby[holder[j]].account /\ j \in Nat
        BY <1>12, TokensAre
    <2>2. Len(tokens') = Len(tokens) + 1 /\ Len(tokens) \in Nat
        BY <1>13, TokensAre
    <2>. QED BY <1>7, <2>1, <2>2 DEF HolderInv
<1>24. Queues'
    <2>1. ASSUME NEW x \in Members(net.queue') PROVE Finds(x, net.alive, thread)'
        <3>1. x.client \in Clients /\ Finds(x, net.alive', thread)
            BY <1>15 DEF QueueInv
        <3>2. x.op \in Asking \cup {"connected"} => Before(First, x) /\ x.client # c
            BY <1>1, <1>2, <1>15 DEF Before, Client, Asking
        <3>3. x.op \in Asking => owner'[x.client] = x.client /\ lobby'[x.client].account = None
            BY <1>12, <1>13, <3>1, <3>2 DEF Finds
        <3>4. x.op = "connected" => owner'[x.client] = None
            BY <1>13, <3>1, <3>2 DEF Finds
        <3>5. ASSUME x.op = "disconnected", owner'[x.client] # None
              PROVE  lobby'[owner'[x.client]].client = x.client
            <4>1. CASE x.client = c
                BY <1>10, <1>13, <4>1
            <4>2. CASE x.client # c
                <5>1. /\ owner'[x.client] = owner[x.client] /\ owner[x.client] \in Known
                      /\ owner[x.client] # c
                    BY <1>13, <1>20, <3>1, <3>5, <4>2
                <5>2. lobby[owner[x.client]].client = x.client
                    BY <3>1, <3>5, <5>1 DEF Finds
                <5>3. owner[x.client] # r
                    <6>1. ~IsBack(r)
                        BY <1>16 DEF IsBack
                    <6>. QED BY <1>8, <1>15, <3>5, <5>2, <6>1 DEF QueueInv
                <5>. QED BY <1>18, <5>1, <5>2, <5>3
            <4>. QED BY <4>1, <4>2
        <3>6. ASSUME x.op = "auth", holder'[x.arg] # None
              PROVE  /\ lobby'[holder'[x.arg]].tolerant
                     /\ \A d \in Clients : owner'[d] = holder'[x.arg] => thread'[d] = "gone"
            <4>1. x.arg # k /\ x.arg \in DOMAIN holder
                <5>1. Before(First, x)
                    BY <3>2, <3>6 DEF Asking
                <5>2. x.arg # First.arg
                    BY <1>1, <3>6, <5>1 DEF Before
                <5>. QED BY <1>4, <3>1, <3>6, <5>2, TokensAre, MembershipAssumption DEF Finds
            <4>2. /\ holder'[x.arg] = holder[x.arg] /\ holder[x.arg] \in Clients
                  /\ holder[x.arg] # r /\ holder[x.arg] # c
                BY <1>3, <1>4, <1>5, <1>7, <3>6, <4>1, TokensAre DEF HolderInv
            <4>. QED BY <1>7, <1>9, <1>13, <3>1, <3>6, <4>2 DEF Finds
        <3>7. Len(tokens') = Len(tokens) + 1 /\ Len(tokens) \in Nat
            BY <1>13, TokensAre
        <3>. QED BY <1>7, <3>1, <3>3, <3>4, <3>5, <3>6, <3>7 DEF Finds
    <2>2. ASSUME NEW m \in Known', Current(m)', ~IsBack(m)'
          PROVE  /\ ~net'.alive[lobby'[m].client]
                 /\ \A x \in Members(net'.queue) : x.client = lobby'[m].client => x.op # "disconnected"
        <3>1. m # c /\ m # r
            BY <1>10, <1>19, <2>2 DEF IsBack
        <3>2. m \in Known /\ Current(m) /\ ~IsBack(m) /\ lobby'[m] = lobby[m]
            BY <1>18, <1>19, <2>2, <3>1 DEF IsBack
        <3>. QED BY <1>15, <3>2 DEF QueueInv
    <2>3. ASSUME NEW d \in Clients, owner'[d] # None, lobby'[owner'[d]].client # d
          PROVE  thread[d] = "gone"
        <3>1. d # c
            BY <1>10, <1>13, <2>3
        <3>2. owner'[d] = owner[d] /\ owner[d] \in Known /\ owner[d] # c
            BY <1>13, <1>20, <2>3, <3>1
        <3>3. CASE owner[d] = r
            BY <1>16, <3>3
        <3>4. CASE owner[d] # r
            BY <1>15, <1>18, <2>3, <3>2, <3>4 DEF QueueInv
        <3>. QED BY <3>3, <3>4
    <2>4. \A d \in Clients : thread[d] \in {"none", "started"} =>
             owner'[d] = None /\ d \notin timers /\ \A x \in Members(net'.queue) : x.client # d
        BY <1>13, <1>15, <1>16 DEF QueueInv
    <2>5. /\ \A d \in Clients : thread[d] \in {"none", "gone"} => ~net'.alive[d]
          /\ \A d \in timers : /\ ~net'.alive[d]
                               /\ \A x \in Members(net'.queue) : x.client = d => x.op \in {"enter", "leave"}
          /\ \A x, y \in Members(net'.queue) : Precedes(net'.queue, x, y) => Before(x, y)
        BY <1>15 DEF QueueInv
    <2>. QED BY <1>7, <2>1, <2>2, <2>3, <2>4, <2>5 DEF Queues, QueueInv
<1>. QED BY <1>14, <1>17, <1>21, <1>22, <1>23, <1>24

(* The uses that a leave takes away free one lobby client or none.         *)
Unused == {m \in Known : lobby[m].refs > 0 /\ RefsAfter(m) = 0}

LEMMA FreeUnusedIs ==
    ASSUME NEW o, Unused \in SUBSET {o}
    PROVE  FreeUnused = IF Unused = {} THEN Popped ELSE LeaveClient(Popped, lobby[o].client)
<1> DEFINE Step(m, n) == LeaveClient(n, lobby[m].client)
           Over(f, s) == IF s = {} THEN Popped
                         ELSE Step(CHOOSE x \in s : TRUE, f[s \ {CHOOSE x \in s : TRUE}])
           iter == CHOOSE f : f = [s \in SUBSET Unused |-> Over(f, s)]
           g == [s \in SUBSET Unused |-> IF s = {} THEN Popped ELSE Step(o, Popped)]
<1>1. FreeUnused = iter[Unused]
    BY DEF FreeUnused, FoldSet, MapThenFoldSet, Unused
<1>2. g = [s \in SUBSET Unused |-> Over(g, s)]
    <2>1. ASSUME NEW s \in SUBSET Unused PROVE g[s] = Over(g, s)
        <3>1. CASE s = {}
            BY <3>1
        <3>2. CASE s # {}
            <4>1. s = {o} /\ (CHOOSE x \in s : TRUE) = o /\ s \ {o} = {}
                BY <3>2
            <4> HIDE DEF Step
            <4>2. g[s] = Step(o, Popped) /\ g[{}] = Popped
                BY <3>2
            <4> HIDE DEF g
            <4>. QED BY <3>2, <4>1, <4>2
        <3>. QED BY <3>1, <3>2
    <2> HIDE DEF Over
    <2>. QED BY <2>1
<1> HIDE DEF g
<1>3. iter = [s \in SUBSET Unused |-> Over(iter, s)]
    <2> HIDE DEF Over
    <2>. QED BY <1>2
<1> HIDE DEF iter
<1>4. iter[Unused] = Over(iter, Unused) /\ iter[{}] = Over(iter, {})
    <2> HIDE DEF Over
    <2>. QED BY <1>3
<1> HIDE DEF Step
<1>5. iter[{}] = Popped
    BY <1>4
<1>6. CASE Unused = {}
    BY <1>1, <1>4, <1>6
<1>7. CASE Unused # {}
    <2>1. Unused = {o} /\ (CHOOSE x \in Unused : TRUE) = o /\ Unused \ {o} = {}
        BY <1>7
    <2>2. iter[Unused] = Step(o, iter[{}])
        BY <1>4, <1>7, <2>1
    <2>. QED BY <1>1, <1>5, <1>7, <2>2 DEF Step
<1>. QED BY <1>6, <1>7

LEMMA LeavingIs ==
    ASSUME First.op \in {"leave", "tolerated"}, Hazard = "none"
    PROVE  /\ Leaving
           /\ First.op = "tolerated" /\ ~IsBack(Owner) => ~(Uses(Owner) >= lobby[Owner].refs)
<1>1. LeaveHazard = "none"
    BY DEF Hazard
<1>2. Left \subseteq entries[Owner]
    BY DEF Left
<1>. QED BY <1>1, <1>2 DEF LeaveHazard, Leaving

(* Only the lobby client that leaves loses uses.                           *)
LEMMA UsesAre ==
    ASSUME TypeInv, OwnersInv, SidesInv, Owner \in Known, Current(Owner), Leaving
    PROVE  /\ \A t \in Left : Taken(t) = Owner
           /\ IsFiniteSet(Left) /\ Cardinality(Left) \in Nat /\ Left \subseteq Tables
           /\ Uses(Owner) = Cardinality(Left)
           /\ \A m \in Clients : m # Owner => Uses(m) = 0 /\ RefsAfter(m) = lobby[m].refs
           /\ \A m \in Clients : lobby[m].refs \in Int
           /\ RefsAfter(Owner) = lobby[Owner].refs - Cardinality(Left)
                                    - IF First.op = "tolerated" THEN 1 ELSE 0
           /\ Unused \in SUBSET {Owner}
<1>1. \A t \in Left : Taken(t) = Owner
    BY TakenIs DEF Leaving, Taken
<1>2. Left \subseteq Tables /\ Owner \in Clients
    BY KnownAre DEF Leaving, TypeInv
<1>3. IsFiniteSet(Left) /\ Cardinality(Left) \in Nat
    BY <1>2, MembershipAssumption, FS_Subset, FS_CardinalityType
<1>4. Uses(Owner) = Cardinality(Left)
    <2>1. {t \in Left : Taken(t) = Owner} = Left
        BY <1>1
    <2>. QED BY <2>1 DEF Uses
<1>5. \A m \in Clients : m # Owner => Uses(m) = 0
    <2>1. \A m \in Clients : m # Owner => {t \in Left : Taken(t) = m} = {}
        BY <1>1
    <2>. QED BY <2>1, FS_EmptySet DEF Uses
<1>6. \A m \in Clients : lobby[m].refs \in Int
    BY DEF TypeInv, LobbyClients
<1>7. \A m \in Clients : m # Owner => RefsAfter(m) = lobby[m].refs
    BY <1>5, <1>6 DEF RefsAfter
<1>8. RefsAfter(Owner) = lobby[Owner].refs - Cardinality(Left)
                            - IF First.op = "tolerated" THEN 1 ELSE 0
    BY <1>4 DEF RefsAfter
<1>9. Unused \in SUBSET {Owner}
    <2>1. \A m \in Unused : m \in Clients /\ lobby[m].refs > 0 /\ RefsAfter(m) = 0
        BY DEF Unused, Known
    <2>. QED BY <1>6, <1>7, <2>1
<1>. QED BY <1>1, <1>2, <1>3, <1>4, <1>5, <1>6, <1>7, <1>8, <1>9

LEMMA FreedIs ==
    ASSUME TypeInv, OwnersInv, SidesInv, Queues, net.queue # << >>, Owner \in Known,
           Current(Owner), Leaving
    PROVE  /\ FreeUnused = IF Unused = {} THEN Popped ELSE LeaveClient(Popped, lobby[Owner].client)
           /\ FreeUnused \in Nets
           /\ FreeUnused.queue = Popped.queue /\ FreeUnused.alive = Popped.alive
<1>1. FreeUnused = IF Unused = {} THEN Popped ELSE LeaveClient(Popped, lobby[Owner].client)
    BY UsesAre, FreeUnusedIs
<1>2. Popped \in Nets /\ lobby[Owner].client \in Clients
    BY PoppedIs, KnownAre
<1>. QED BY <1>1, <1>2, LeaveClientIs

LEMMA LeftKeeps ==
    ASSUME TypeInv, OwnersInv, SidesInv, HolderInv, Queues, net.queue # << >>,
           Owner \in Known, Current(Owner), Leaving, LeaveTables(Owner),
           UNCHANGED <<thread, owner, tokens, timers>>, net' = FreeUnused,
           lobby' \in [Clients -> LobbyClients],
           \A m \in Clients : /\ lobby'[m].client = lobby[m].client
                              /\ lobby'[m].account = lobby[m].account
                              /\ lobby'[m].tolerant = lobby[m].tolerant
                              /\ IsBack(m)' = IsBack(m)
                              /\ m \notin Known => lobby'[m] = lobby[m],
           holder' \in [1 .. MaxTokens -> Clients \cup {None}],
           \A k \in 1 .. MaxTokens : holder'[k] \in {holder[k], None}
    PROVE  /\ TypeInv' /\ OwnersInv' /\ SidesInv' /\ HolderInv' /\ Queues'
           /\ \A t \in Tables : At(t)' = IF t \in Left THEN At(t) \ {Owner} ELSE At(t)
           /\ entries' = [entries EXCEPT ![Owner] = @ \ Left]
<1>1. /\ net' \in Nets /\ QueueInv(net.queue', net.alive', thread', timers')
      /\ \A y \in Members(net'.queue) : y \in Members(net.queue) /\ y.client \in Clients
    BY FreedIs, PoppedIs
<1>2. TypeInv'
    <2>1. /\ entries' = [entries EXCEPT ![Owner] = @ \ Left]
          /\ members' = [t \in Tables |->
                IF t \in Left THEN RemoveAt(members[t], PlaceOf(t, lobby[Owner].account))
                              ELSE members[t]]
        BY DEF LeaveTables, MembersAfter
    <2>2. entries' \in [Clients -> SUBSET Tables]
        BY <2>1 DEF TypeInv
    <2>3. \A t \in Left : PlaceOf(t, lobby[Owner].account) \in DOMAIN members[t] /\ t \in Tables
        BY TakenIs DEF Leaving
    <2>4. ASSUME NEW t \in Left
          PROVE  RemoveAt(members[t], PlaceOf(t, lobby[Owner].account)) \in Seq(Clients)
        <3>1. PICK p : p = PlaceOf(t, lobby[Owner].account)
            OBVIOUS
        <3>2. members[t] \in Seq(Clients) /\ p \in 1 .. Len(members[t])
            BY <2>3, <3>1, MembersAre
        <3>. QED BY <3>1, <3>2, RemovedAt
    <2>5. members' \in [Tables -> Seq(Clients)]
        BY <2>1, <2>4 DEF TypeInv
    <2>. QED BY <1>1, <2>2, <2>5 DEF TypeInv
<1>3. /\ OwnersInv' /\ SidesInv'
      /\ \A t \in Tables : At(t)' = IF t \in Left THEN At(t) \ {Owner} ELSE At(t)
      /\ entries' = [entries EXCEPT ![Owner] = @ \ Left]
    BY <1>2, LeavingKeeps
<1>4. HolderInv'
    <2>1. \A j \in DOMAIN holder' : j \in DOMAIN holder /\ holder'[j] \in {holder[j], None}
        BY TokensAre
    <2>2. \A j \in DOMAIN holder : holder[j] # None => lobby'[holder[j]].account = lobby[holder[j]].account
        BY TokensAre
    <2>. QED BY <2>1, <2>2 DEF HolderInv
<1>5. Queues'
    <2>1. \A x \in Members(net.queue') :
              /\ x.op \in Asking => lobby'[x.client].account = lobby[x.client].account
              /\ x.op = "auth" => holder'[x.arg] \in {holder[x.arg], None}
        <3>1. \A x \in Members(net.queue') : x.op = "auth" => x.arg \in 1 .. MaxTokens
            BY <1>1, TokensAre, MembershipAssumption DEF Queues, QueueInv, Finds
        <3>. QED BY <1>1, <3>1
    <2>2. Len(tokens) <= Len(tokens')
        BY TokensAre
    <2>. QED BY <1>1, <1>2, <2>1, <2>2, QuietKeeps
<1>. QED BY <1>2, <1>3, <1>4, <1>5

LEMMA LeaveTableKeeps ==
    ASSUME TypeInv, OwnersInv, SidesInv, HolderInv, Queues, LeaveTable
    PROVE  /\ TypeInv' /\ OwnersInv' /\ SidesInv' /\ HolderInv' /\ Queues'
           /\ First.op = "leave"
           /\ \A t \in Tables : At(t)' = IF t \in Left THEN At(t) \ {Owner} ELSE At(t)
<1>1. /\ net.queue # << >> /\ First.op = "leave" /\ ~Unreachable /\ Hazard = "none"
      /\ LeaveTables(Owner) /\ net' = FreeUnused
      /\ lobby' = [m \in Clients |-> [lobby[m] EXCEPT !.refs = RefsAfter(m)]]
      /\ UNCHANGED <<thread, owner, holder, tokens, timers>>
    BY BeginIs DEF LeaveTable
<1>2. Owner \in Known /\ Current(Owner) /\ Leaving
    BY <1>1, OwnerIs, LeavingIs
<1>3. \A m \in Clients : /\ RefsAfter(m) \in Int
                         /\ m \notin Known => RefsAfter(m) = lobby[m].refs
    <2>1. \A m \in Clients : m \notin Known => m # Owner
        BY <1>2
    <2>. QED BY <1>2, <2>1, UsesAre DEF RefsAfter
<1>4. \A m \in Clients : /\ lobby'[m] \in LobbyClients
                         /\ lobby'[m].client = lobby[m].client
                         /\ lobby'[m].account = lobby[m].account
                         /\ lobby'[m].tolerant = lobby[m].tolerant
                         /\ lobby'[m].disconnected = lobby[m].disconnected
                         /\ lobby'[m].connected = lobby[m].connected
                         /\ m \notin Known => lobby'[m] = lobby[m]
    <2>1. SUFFICES ASSUME NEW m \in Clients
                   PROVE  /\ lobby'[m] \in LobbyClients
                          /\ lobby'[m].client = lobby[m].client
                          /\ lobby'[m].account = lobby[m].account
                          /\ lobby'[m].tolerant = lobby[m].tolerant
                          /\ lobby'[m].disconnected = lobby[m].disconnected
                          /\ lobby'[m].connected = lobby[m].connected
                          /\ m \notin Known => lobby'[m] = lobby[m]
        OBVIOUS
    <2>2. PICK i \in Int : i = RefsAfter(m)
        BY <1>3
    <2>3. lobby[m] \in LobbyClients /\ lobby'[m] = [lobby[m] EXCEPT !.refs = i]
        BY <1>1, <2>2 DEF TypeInv
    <2>4. m \notin Known => i = lobby[m].refs
        BY <1>3, <2>2
    <2>. QED BY <2>3, <2>4 DEF LobbyClients
<1>5. \A m \in Clients : IsBack(m)' = IsBack(m)
    BY <1>4 DEF IsBack
<1>6. lobby' \in [Clients -> LobbyClients]
    BY <1>1, <1>4
<1>7. holder' \in [1 .. MaxTokens -> Clients \cup {None}]
    BY <1>1 DEF TypeInv
<1>. QED BY <1>1, <1>2, <1>4, <1>5, <1>6, <1>7, LeftKeeps

LEMMA ToleratedKeeps ==
    ASSUME TypeInv, OwnersInv, SidesInv, HolderInv, Queues, Tolerated
    PROVE  /\ TypeInv' /\ OwnersInv' /\ SidesInv' /\ HolderInv' /\ Queues'
           /\ Owner \in Known /\ ~net.alive[lobby[Owner].client]
           /\ \A t \in Tables : At(t)' = IF t \in Left THEN At(t) \ {Owner} ELSE At(t)
<1>1. /\ net.queue # << >> /\ First.op = "tolerated" /\ ~Unreachable /\ Hazard = "none"
      /\ ~IsBack(Owner)
      /\ LeaveTables(Owner) /\ net' = FreeUnused
      /\ UNCHANGED <<thread, owner, tokens, timers>>
    BY BeginIs DEF Tolerated
<1>2. Owner \in Known /\ Current(Owner) /\ Leaving
    BY <1>1, OwnerIs, LeavingIs
<1>3. PICK l \in Clients : l = Owner
    BY <1>2, KnownAre
<1>4. lobby' = [m \in Clients |->
                    IF m = l THEN [lobby[l] EXCEPT !.disconnected = TRUE, !.task = None,
                                                   !.refs = RefsAfter(l),
                                                   !.ghost = @ \/ lobby[l].revived]
                    ELSE [lobby[m] EXCEPT !.refs = RefsAfter(m)]]
    BY <1>3 DEF Tolerated
<1>5. \A m \in Clients : /\ RefsAfter(m) \in Int /\ lobby[m] \in LobbyClients
                         /\ m # l => RefsAfter(m) = lobby[m].refs
    BY <1>2, <1>3, UsesAre DEF TypeInv, RefsAfter
<1>6. \A m \in Clients : m # l => lobby'[m] = lobby[m]
    <2>1. SUFFICES ASSUME NEW m \in Clients, m # l PROVE lobby'[m] = lobby[m]
        OBVIOUS
    <2>2. lobby'[m] = [lobby[m] EXCEPT !.refs = lobby[m].refs]
        BY <1>4, <1>5, <2>1
    <2>. QED BY <1>5, <2>2 DEF LobbyClients
<1>7. /\ lobby'[l] \in LobbyClients
      /\ lobby'[l].client = lobby[l].client
      /\ lobby'[l].account = lobby[l].account
      /\ lobby'[l].tolerant = lobby[l].tolerant
      /\ lobby'[l].disconnected
    <2>1. PICK i \in Int : i = RefsAfter(l)
        BY <1>5
    <2>2. PICK g : g = (lobby[l].ghost \/ lobby[l].revived)
        OBVIOUS
    <2>3. g \in BOOLEAN
        BY <2>2, Zenon
    <2>4. lobby'[l] = [lobby[l] EXCEPT !.disconnected = TRUE, !.task = None, !.refs = i, !.ghost = g]
        BY <1>4, <2>1, <2>2
    <2>. QED BY <1>5, <2>3, <2>4 DEF LobbyClients
<1>8. \A m \in Clients : IsBack(m)' = IsBack(m)
    <2>1. ~IsBack(l) /\ ~IsBack(l)'
        BY <1>1, <1>3, <1>7 DEF IsBack
    <2>2. ASSUME NEW m \in Clients PROVE IsBack(m)' = IsBack(m)
        <3>1. CASE m = l
            BY <2>1, <3>1 DEF IsBack
        <3>2. CASE m # l
            BY <1>6, <3>2 DEF IsBack
        <3>. QED BY <3>1, <3>2
    <2>. QED BY <2>2
<1>9. lobby' \in [Clients -> LobbyClients]
    <2>1. \A m \in Clients : lobby'[m] \in LobbyClients
        BY <1>5, <1>6, <1>7
    <2>2. lobby' = [m \in Clients |-> lobby'[m]]
        BY <1>4
    <2>. QED BY <2>1, <2>2
<1>10. /\ holder' \in [1 .. MaxTokens -> Clients \cup {None}]
       /\ \A k \in 1 .. MaxTokens : holder'[k] \in {holder[k], None}
    <2>1. holder' = holder \/ holder' = [holder EXCEPT ![lobby[Owner].token] = None]
        BY DEF Tolerated
    <2>. QED BY <2>1 DEF TypeInv
<1>11. \A m \in Clients : /\ lobby'[m].client = lobby[m].client
                          /\ lobby'[m].account = lobby[m].account
                          /\ lobby'[m].tolerant = lobby[m].tolerant
                          /\ m \notin Known => lobby'[m] = lobby[m]
    BY <1>2, <1>3, <1>6, <1>7
<1>12. ~net.alive[lobby[Owner].client]
    BY <1>1, <1>2 DEF Queues, QueueInv
<1>. QED BY <1>1, <1>2, <1>8, <1>9, <1>10, <1>11, <1>12, LeftKeeps

-----------------------------------------------------------------------------
(* Both sides, and who is removed                                          *)

Places == TypeInv /\ OwnersInv /\ SidesInv /\ HolderInv /\ Queues

LEMMA InitPlaces == Init => Places
<1> SUFFICES ASSUME Init PROVE Places
    OBVIOUS
<1>1. /\ thread = [c \in Clients |-> "none"] /\ net = NetInit
      /\ owner = [c \in Clients |-> None]
      /\ lobby = [c \in Clients |-> NewLobbyClient]
      /\ entries = [c \in Clients |-> {}]
      /\ members = [t \in Tables |-> << >>]
      /\ holder = [k \in 1 .. MaxTokens |-> None]
      /\ tokens = << >> /\ timers = {}
    BY DEF Init, ClientsInit
<1>2. << >> \in Seq(Tasks) /\ << >> \in Seq(Clients) /\ << >> \in Seq(Accounts)
      /\ Members(<< >>) = {}
    <2>1. DOMAIN << >> = {}
        BY EmptySeq, LenProperties
    <2>. QED BY <2>1, EmptySeq DEF Members
<1>3. net \in Nets /\ net.queue = << >> /\ net.alive = [c \in Clients |-> FALSE]
    BY <1>1, <1>2 DEF Nets, NetInit
<1>4. NewLobbyClient \in LobbyClients /\ NewLobbyClient.client = None
    BY NoneIs DEF NewLobbyClient, LobbyClients, NoToken
<1>5. TypeInv
    BY <1>1, <1>2, <1>3, <1>4 DEF TypeInv
<1>6. Known = {}
    BY <1>1, <1>4 DEF Known
<1>7. \A t \in Tables : At(t) = {} /\ DOMAIN members[t] = {}
    BY <1>1, <1>2, EmptySeq, LenProperties DEF At
<1>8. OwnersInv
    BY <1>1, <1>4, <1>6, <1>7 DEF OwnersInv
<1>9. SidesInv
    BY <1>6, <1>7 DEF SidesInv
<1>10. HolderInv
    BY <1>1 DEF HolderInv
<1>11. Queues
    BY <1>1, <1>2, <1>3, <1>6 DEF Queues, QueueInv
<1>. QED BY <1>5, <1>8, <1>9, <1>10, <1>11 DEF Places

LEMMA HandlersKeepPlaces ==
    ASSUME Places, Handle
    PROVE  Places'
<1> USE DEF Places
<1>1. CASE Misuse
    <2>1. UNCHANGED <<net, thread, lobbyVars>> /\ net' \in Nets
          /\ thread' \in [Clients -> {"none", "started", "receiving", "gone"}]
        BY <1>1, KnownAre DEF Misuse, TypeInv
    <2>2. QueueInv(net.queue', net.alive', thread', timers)
        BY <2>1 DEF Queues
    <2>3. TypeInv' /\ Queues'
        BY <2>1, <2>2, LobbyStays, TypeStays
    <2>4. OwnersInv' /\ SidesInv'
        BY <2>1, StillKeeps DEF lobbyVars
    <2>. QED BY <2>1, <2>3, <2>4 DEF HolderInv, lobbyVars
<1>2. CASE Connected
    BY <1>2, ConnectedKeeps
<1>3. CASE Login
    BY <1>3, LoginKeeps
<1>4. CASE AuthAnswered
    <2>1. net.queue # << >> /\ net' = Popped /\ UNCHANGED <<thread, lobbyVars>>
        BY <1>4 DEF AuthAnswered, Handling
    <2>. QED BY <2>1, NothingKeeps
<1>5. CASE AuthRefused
    BY <1>5, AuthRefusedKeeps
<1>6. CASE Revive
    BY <1>6, ReviveKeeps
<1>7. CASE Enter
    BY <1>7, EnterKeeps
<1>8. CASE LeaveTable
    BY <1>8, LeaveTableKeeps
<1>9. CASE Disconnected
    BY <1>9, DisconnectedKeeps
<1>10. CASE ToleratedReturns
    <2>1. net.queue # << >> /\ net' = Popped /\ UNCHANGED <<thread, lobbyVars>>
        BY <1>10, BeginIs DEF ToleratedReturns
    <2>. QED BY <2>1, NothingKeeps
<1>11. CASE Tolerated
    BY <1>11, ToleratedKeeps
<1>. QED BY <1>1, <1>2, <1>3, <1>4, <1>5, <1>6, <1>7, <1>8, <1>9, <1>10, <1>11 DEF Handle

LEMMA StepKeepsPlaces ==
    ASSUME Orderly, Places, [Next]_vars
    PROVE  Places'
<1> USE DEF Places
<1>1. ASSUME UNCHANGED <<owner, lobby, entries, members, holder, tokens>>
      PROVE  OwnersInv' /\ SidesInv' /\ HolderInv'
    <2>1. OwnersInv' /\ SidesInv'
        BY <1>1, StillKeeps
    <2>. QED BY <1>1, <2>1 DEF HolderInv
<1>2. CASE ThreadsStep
    <2>1. PICK c \in Clients : ThreadStep(c)
        BY <1>2 DEF ThreadsStep
    <2>2. UNCHANGED lobbyVars
        BY <1>2 DEF ThreadsStep
    <2>3. TypeInv' /\ Queues'
        BY <2>1, <2>2, AcceptQueues, OverCapacityQueues, AnnounceQueues, LosingQueues
           DEF ThreadStep
    <2>. QED BY <1>1, <2>2, <2>3 DEF lobbyVars
<1>3. CASE Send
    <2>1. UNCHANGED lobbyVars
        BY <1>3 DEF Send
    <2>. QED BY <1>1, <1>3, <2>1, SendQueues DEF lobbyVars
<1>4. CASE TimersDue
    <2>1. PICK c \in Clients : TimerDue(c)
        BY <1>4 DEF TimersDue
    <2>2. UNCHANGED <<owner, lobby, entries, members, holder, tokens>>
        BY <2>1 DEF TimerDue
    <2>. QED BY <1>1, <2>1, <2>2, TimerQueues
<1>5. CASE Handle
    BY <1>5, HandlersKeepPlaces
<1>6. CASE UNCHANGED vars
    <2>1. UNCHANGED <<net, thread, lobbyVars>> /\ net' \in Nets
          /\ thread' \in [Clients -> {"none", "started", "receiving", "gone"}]
        BY <1>6, KnownAre DEF vars, TypeInv
    <2>2. QueueInv(net.queue', net.alive', thread', timers)
        BY <2>1 DEF Queues
    <2>3. TypeInv' /\ Queues'
        BY <2>1, <2>2, LobbyStays, TypeStays
    <2>. QED BY <1>1, <2>1, <2>3 DEF lobbyVars
<1>. QED BY <1>2, <1>3, <1>4, <1>5, <1>6 DEF Next

(* A table lists a lobby client exactly when the lobby client lists the    *)
(* table, as long as its connection reaches it: also when connections are  *)
(* lost, come back on another connection and are lost again.               *)
THEOREM SidesAgree ==
    ASSUME Orderly
    PROVE  Spec => []BothSidesAgree
<1>1. Places => BothSidesAgree
    BY DEF Places, BothSidesAgree, SidesInv, Current, At, Members
<1>. QED BY <1>1, InitPlaces, StepKeepsPlaces, PTL DEF Spec

(* Nobody is taken from a table but who asked for it or whose connection   *)
(* is lost: a timer that is late for one who came back removes nobody.     *)
THEOREM OnlyTheGone ==
    ASSUME Orderly
    PROVE  Spec => OnlyTheGoneAreRemoved
<1> DEFINE Step == \A l \in Clients, t \in Tables :
                      IsMember(l, t) /\ ~IsMember(l, t)' => Asked(l) \/ ~net.alive[lobby[l].client]
<1>1. \A l, t : IsMember(l, t) <=> l \in At(t)
    BY DEF IsMember, At, Members
<1>2. \A l, t : IsMember(l, t)' <=> l \in At(t)'
    BY DEF IsMember, At, Members
<1>3. ASSUME Places, [Next]_vars PROVE Step
    <2>1. SUFFICES ASSUME NEW l \in Clients, NEW t \in Tables, l \in At(t), l \notin At(t)'
                   PROVE  Asked(l) \/ ~net.alive[lobby[l].client]
        BY <1>1, <1>2
    <2>2. members' # members
        BY <2>1 DEF At
    <2>3. Enter \/ Revive \/ LeaveTable \/ Tolerated
        BY <1>3, <2>2 DEF Next, ThreadsStep, Send, TimersDue, TimerDue, Handle, Misuse, Connected,
           Login, AuthAnswered, AuthRefused, Disconnected, ToleratedReturns, vars, lobbyVars
    <2>4. CASE Enter
        BY <1>3, <2>1, <2>4, EnterKeeps DEF Places
    <2>5. CASE Revive
        BY <1>3, <2>2, <2>5, ReviveKeeps DEF Places
    <2>6. CASE LeaveTable
        <3>1. First.op = "leave" /\ l = Owner
            BY <1>3, <2>1, <2>6, LeaveTableKeeps DEF Places
        <3>. QED BY <3>1 DEF Asked
    <2>7. CASE Tolerated
        BY <1>3, <2>1, <2>7, ToleratedKeeps DEF Places
    <2>. QED BY <2>3, <2>4, <2>5, <2>6, <2>7
<1>4. ASSUME Places, Step PROVE [Step]_vars
    BY <1>4
<1> HIDE DEF Step
<1>5. Spec => [][Step]_vars
    BY <1>3, InitPlaces, StepKeepsPlaces, PTL DEF Spec
<1>. QED BY <1>5 DEF OnlyTheGoneAreRemoved, Step

-----------------------------------------------------------------------------
(* The counts                                                              *)

(* A connection has the list's and the thread's reference as long as it is *)
(* alive, and one that its lobby client drops with its own last use.       *)
Dropped(c) == owner[c] # None /\ lobby[owner[c]].client = c /\ lobby[owner[c]].refs = 0
UseOf(c) == (IF owner[c] # None THEN 1 ELSE 0) - (IF Dropped(c) THEN 1 ELSE 0)
Counted(refs, alive) == \A c \in Clients : refs[c] = (IF alive[c] THEN 2 ELSE 0) + UseOf(c)

(* A lobby client has its connection's use and one for each of its tables. *)
UsesInv == \A l \in Known : /\ lobby[l].refs \in 0 .. (1 + Cardinality(entries[l]))
                            /\ ~Current(l) => lobby[l].refs = 1
CountInv == Counted(net.refs, net.alive) /\ UsesInv

LEMMA EntriesAre ==
    ASSUME NEW S \in SUBSET Tables
    PROVE  /\ IsFiniteSet(S) /\ Cardinality(S) \in Nat /\ Cardinality(S) <= Cardinality(Tables)
           /\ Cardinality(Tables) \in Nat
           /\ \A T \in SUBSET S : IsFiniteSet(T) /\ Cardinality(T) \in Nat
                                  /\ Cardinality(S \ T) = Cardinality(S) - Cardinality(T)
           /\ \A t \in Tables : t \notin S => Cardinality(S \cup {t}) = Cardinality(S) + 1
<1>1. IsFiniteSet(S) /\ Cardinality(S) \in Nat /\ Cardinality(S) <= Cardinality(Tables)
      /\ Cardinality(Tables) \in Nat
    BY MembershipAssumption, FS_Subset, FS_CardinalityType
<1>2. ASSUME NEW T \in SUBSET S
      PROVE  IsFiniteSet(T) /\ Cardinality(T) \in Nat /\ Cardinality(S \ T) = Cardinality(S) - Cardinality(T)
    <2>1. IsFiniteSet(T) /\ Cardinality(T) \in Nat /\ S \cap T = T
        BY <1>1, FS_Subset, FS_CardinalityType
    <2>. QED BY <1>1, <2>1, FS_Difference
<1>3. \A t \in Tables : t \notin S => Cardinality(S \cup {t}) = Cardinality(S) + 1
    BY <1>1, FS_AddElement
<1>. QED BY <1>1, <1>2, <1>3

LEMMA UseOfIs ==
    ASSUME NEW c \in Clients
    PROVE  UseOf(c) \in {0, 1}
BY DEF UseOf, Dropped

(* The counts give the bounds of TypeOK.                                   *)
LEMMA CountsBound ==
    ASSUME TypeInv, OwnersInv, CountInv
    PROVE  TypeOK
<1>1. net.refs \in [Clients -> 0 .. 4]
    <2>1. net.refs \in [Clients -> Int]
        BY KnownAre
    <2>2. \A c \in Clients : net.refs[c] \in 0 .. 4
        BY UseOfIs DEF CountInv, Counted
    <2>. QED BY <2>1, <2>2
<1>2. ASSUME NEW l \in Clients PROVE lobby[l].refs \in 0 .. 1 + Cardinality(Tables)
    <2>1. entries[l] \in SUBSET Tables
        BY DEF TypeInv
    <2>2. Cardinality(entries[l]) \in Nat /\ Cardinality(entries[l]) <= Cardinality(Tables)
          /\ Cardinality(Tables) \in Nat
        BY <2>1, EntriesAre
    <2>3. CASE lobby[l].client = None
        <3>1. lobby[l].refs = 0
            BY <2>3 DEF OwnersInv, NewLobbyClient
        <3>. QED BY <2>2, <3>1
    <2>4. CASE lobby[l].client # None
        BY <2>2, <2>4 DEF CountInv, UsesInv, Known
    <2>. QED BY <2>3, <2>4
<1>3. /\ net.listed \cup net.freed \cup timers \subseteq Clients
      /\ thread \in [Clients -> {"none", "started", "receiving", "gone"}]
    BY DEF TypeInv, Nets
<1>. QED BY <1>1, <1>2, <1>3 DEF TypeOK

LEMMA DisconnectCounts ==
    ASSUME NEW n \in Nets, NEW c \in Clients, Counted(n.refs, n.alive)
    PROVE  Counted(Disconnect(n, c).refs, Disconnect(n, c).alive)
<1>1. n.refs \in [Clients -> Int] /\ n.alive \in [Clients -> BOOLEAN]
    BY DEF Nets
<1>2. CASE n.alive[c]
    <2>1. \A d \in Clients : UseOf(d) \in Int
        BY UseOfIs
    <2>2. /\ Disconnect(n, c).alive = [n.alive EXCEPT ![c] = FALSE]
          /\ Disconnect(n, c).refs = [n.refs EXCEPT ![c] = @ - 2]
        BY <1>2, DisconnectIs
    <2>3. /\ ~Disconnect(n, c).alive[c] /\ Disconnect(n, c).refs[c] = n.refs[c] - 2
          /\ \A d \in Clients : d # c => /\ Disconnect(n, c).alive[d] = n.alive[d]
                                          /\ Disconnect(n, c).refs[d] = n.refs[d]
        BY <1>1, <2>2
    <2>4. n.refs[c] = 2 + UseOf(c)
        BY <1>2 DEF Counted
    <2>5. Disconnect(n, c).refs[c] = 0 + UseOf(c)
        BY <2>1, <2>3, <2>4
    <2>. QED BY <2>3, <2>5 DEF Counted
<1>3. CASE ~n.alive[c]
    BY <1>3, DisconnectIs
<1>. QED BY <1>2, <1>3

LEMMA AnsweredCounts ==
    ASSUME TypeInv, Queues, CountInv, net.queue # << >>, NEW ok \in BOOLEAN
    PROVE  /\ Counted(Popped.refs, Popped.alive)
           /\ Counted(Answered(ok).refs, Answered(ok).alive)
<1>1. Popped \in Nets /\ Client \in Clients /\ Counted(Popped.refs, Popped.alive)
    BY PoppedIs DEF CountInv
<1>. QED BY <1>1, DisconnectCounts DEF Answered

(* As long as the lobby clients keep their uses.                           *)
LEMMA SameCounts ==
    ASSUME TypeInv, UsesInv, UNCHANGED <<owner, entries>>,
           \A m \in Clients : /\ lobby'[m].client = lobby[m].client
                              /\ lobby'[m].refs = lobby[m].refs,
           Counted(net.refs', net.alive')
    PROVE  CountInv'
<1>1. Known' = Known /\ \A m \in Known : m \in Clients /\ Current(m)' = Current(m)
    BY DEF Known, Current
<1>2. UsesInv'
    BY <1>1 DEF UsesInv
<1>3. \A c \in Clients : Dropped(c)' = Dropped(c)
    BY DEF Dropped, TypeInv
<1>4. \A c \in Clients : UseOf(c)' = UseOf(c)
    BY <1>3 DEF UseOf
<1>. QED BY <1>2, <1>4 DEF CountInv, Counted

LEMMA ThreadsCount ==
    ASSUME TypeInv, Queues, CountInv, ThreadsStep
    PROVE  CountInv'
<1>1. PICK c \in Clients : ThreadStep(c)
    BY DEF ThreadsStep
<1>2. UNCHANGED lobbyVars
    BY DEF ThreadsStep
<1>3. SUFFICES Counted(net.refs', net.alive')
    BY <1>2, SameCounts DEF lobbyVars, CountInv
<1>4. /\ net \in Nets /\ net.refs \in [Clients -> Int] /\ net.alive \in [Clients -> BOOLEAN]
      /\ \A d \in Clients : UseOf(d) \in Int
    BY KnownAre, UseOfIs
<1>5. CASE Accept(c)
    <2> DEFINE n == [net EXCEPT !.alive[c] = TRUE]
               u == UseClient(n, c)
               v == [u EXCEPT !.listed = @ \cup {c}]
    <2>1. /\ n \in Nets /\ n.alive = [net.alive EXCEPT ![c] = TRUE] /\ n.refs = net.refs
        BY <1>4 DEF Nets
    <2> HIDE DEF n
    <2>2. u \in Nets /\ u.alive = n.alive /\ u.refs = [n.refs EXCEPT ![c] = @ + 1]
        BY <2>1, UseClientIs
    <2> HIDE DEF u
    <2>3. v \in Nets /\ v.alive = u.alive /\ v.refs = u.refs
        BY <2>2 DEF Nets
    <2>4. net' = UseClient(v, c) /\ ~net.alive[c]
        BY <1>5 DEF Accept, Accepted, AddClient, Connects, Queues, QueueInv, n, u
    <2> HIDE DEF v
    <2>5. /\ net'.alive = [net.alive EXCEPT ![c] = TRUE]
          /\ net'.refs = [v.refs EXCEPT ![c] = @ + 1]
        BY <2>1, <2>2, <2>3, <2>4, UseClientIs
    <2>6. /\ net'.alive[c] /\ net'.refs[c] = net.refs[c] + 2
          /\ \A d \in Clients : d # c => /\ net'.refs[d] = net.refs[d]
                                          /\ net'.alive[d] = net.alive[d]
        BY <1>4, <2>1, <2>2, <2>3, <2>5
    <2>7. net.refs[c] = 0 + UseOf(c)
        BY <2>4 DEF CountInv, Counted
    <2>8. net'.refs[c] = 2 + UseOf(c)
        BY <1>4, <2>6, <2>7
    <2>. QED BY <2>6, <2>8 DEF CountInv, Counted
<1>6. CASE AcceptOverCapacity(c)
    <2> DEFINE u == UseClient(net, c)
               n == [u EXCEPT !.listed = @ \cup {c}]
               v == LeaveClient(n, c)
    <2>1. u \in Nets /\ u.alive = net.alive /\ u.refs = [net.refs EXCEPT ![c] = @ + 1]
        BY <1>4, UseClientIs
    <2>2. net' = [v EXCEPT !.listed = @ \ {c}]
        BY <1>6 DEF AcceptOverCapacity, RemoveClient, AddClient
    <2> HIDE DEF u
    <2>3. n \in Nets /\ n.alive = u.alive /\ n.refs = u.refs
        BY <2>1 DEF Nets
    <2> HIDE DEF n
    <2>4. v \in Nets /\ v.alive = n.alive /\ v.refs = [n.refs EXCEPT ![c] = @ - 1]
        BY <2>3, LeaveClientIs
    <2> HIDE DEF v
    <2>5. net'.alive = v.alive /\ net'.refs = v.refs
        BY <2>2, <2>4 DEF Nets
    <2>6. \A d \in Clients : /\ net'.refs[d] = net.refs[d]
                             /\ net'.alive[d] = net.alive[d]
        BY <1>4, <2>1, <2>3, <2>4, <2>5
    <2>. QED BY <2>6 DEF CountInv, Counted
<1>7. CASE Announce(c)
    <2>1. PICK x \in Tasks : net' = Call(net, x)
        BY <1>7, TaskIs, NoneIs DEF Announce
    <2>2. net'.alive = net.alive /\ net'.refs = net.refs
        BY <1>4, <2>1, CallIs
    <2>. QED BY <2>2 DEF CountInv
<1>8. CASE ReadFails(c) \/ WriteFails(c)
    <2>1. net' = net \/ net' = Disconnect(net, c)
        BY <1>8 DEF ReadFails, WriteFails
    <2>. QED BY <1>4, <2>1, DisconnectCounts DEF CountInv
<1>. QED BY <1>1, <1>5, <1>6, <1>7, <1>8 DEF ThreadStep

LEMMA CallsCount ==
    ASSUME TypeInv, CountInv, Send \/ TimersDue, TypeInv'
    PROVE  CountInv'
<1>1. /\ UNCHANGED <<owner, lobby, entries>>
      /\ \E x : net' = Call(net, x)
    BY DEF Send, SendLogin, SendToken, SendEnter, SendLeave, Receive, TimersDue, TimerDue, lobbyVars
<1>2. net'.refs = net.refs /\ net'.alive = net.alive
    BY <1>1, KnownAre DEF Call, Nets
<1>. QED BY <1>1, <1>2, SameCounts DEF CountInv

LEMMA RefsAre ==
    ASSUME TypeInv, UsesInv
    PROVE  /\ \A m \in Clients : /\ entries[m] \in SUBSET Tables /\ Cardinality(entries[m]) \in Nat
                                 /\ IsFiniteSet(entries[m]) /\ lobby[m].refs \in Int
           /\ \A m \in Known : lobby[m].refs \in Nat
<1>1. \A m \in Clients : entries[m] \in SUBSET Tables /\ lobby[m].refs \in Int
    BY DEF TypeInv, LobbyClients
<1>2. \A m \in Clients : Cardinality(entries[m]) \in Nat /\ IsFiniteSet(entries[m])
    BY <1>1, EntriesAre
<1>3. \A m \in Known : m \in Clients
    BY KnownAre
<1>. QED BY <1>1, <1>2, <1>3 DEF UsesInv

(* A new lobby client, in use by its connection.                           *)
LEMMA ConnectedIs ==
    ASSUME Places, Connected
    PROVE  /\ net.queue # << >> /\ First.op = "connected" /\ Client \notin net.freed
           /\ UNCHANGED <<thread, entries, members, holder, tokens, timers>>
           /\ net'.queue = Popped.queue /\ net'.alive = net.alive /\ net'.freed = net.freed
           /\ \E c \in Clients :
                 /\ c = Client /\ c # None /\ net'.refs = [net.refs EXCEPT ![c] = @ + 1]
                 /\ owner[c] = None /\ lobby[c] = NewLobbyClient /\ entries[c] = {}
                 /\ lobby'[c].client = c /\ lobby'[c].refs = 1
                 /\ lobby'[c].account = None /\ ~lobby'[c].revived /\ ~lobby'[c].ghost
                 /\ IsBack(c)' /\ Current(c)'
                 /\ \A m \in Clients : m # c => lobby'[m] = lobby[m]
                 /\ owner'[c] = c /\ \A d \in Clients : d # c => owner'[d] = owner[d]
                 /\ \A d \in Clients : d # c /\ owner[d] # None => owner[d] # c /\ owner[d] \in Clients
                 /\ Known' = Known \cup {c} /\ c \notin Known
                 /\ \A m \in Known : /\ m \in Clients /\ Current(m)' = Current(m)
                                      /\ IsBack(m)' = IsBack(m)
<1> USE DEF Places
<1>1. net.queue # << >> /\ First.op = "connected" /\ Client \notin net.freed
    BY BeginIs DEF Connected
<1>2. PICK c \in Clients : c = Client
    BY <1>1, PoppedIs
<1>3. /\ net' = UseClient(Popped, c)
      /\ lobby' = [lobby EXCEPT ![c].client = c, ![c].refs = 1]
      /\ owner' = [owner EXCEPT ![c] = c]
      /\ UNCHANGED <<thread, entries, members, holder, tokens, timers>>
    BY <1>2 DEF Connected
<1>4. /\ owner[c] = None /\ lobby[c].client = None /\ lobby[c] = NewLobbyClient /\ entries[c] = {}
      /\ Popped \in Nets /\ Popped.refs = net.refs /\ Popped.alive = net.alive
      /\ Popped.freed = net.freed
      /\ c # None
    BY <1>1, <1>2, PoppedIs, NoneIs DEF Finds, OwnersInv, Client
<1>5. /\ net'.alive = net.alive /\ net'.refs = [net.refs EXCEPT ![c] = @ + 1]
      /\ net'.queue = Popped.queue /\ net'.freed = net.freed
    <2>1. PICK n \in Nets : n = Popped
        BY <1>4
    <2>2. /\ UseClient(n, c).alive = n.alive /\ UseClient(n, c).queue = n.queue
          /\ UseClient(n, c).freed = n.freed
          /\ UseClient(n, c).refs = [n.refs EXCEPT ![c] = @ + 1]
        BY <2>1, UseClientIs
    <2>. QED BY <1>3, <1>4, <2>1, <2>2
<1>6. /\ lobby'[c].client = c /\ lobby'[c].refs = 1
      /\ lobby'[c].account = None /\ ~lobby'[c].revived /\ ~lobby'[c].ghost /\ IsBack(c)'
      /\ \A m \in Clients : m # c => lobby'[m] = lobby[m]
      /\ owner'[c] = c /\ \A d \in Clients : d # c => owner'[d] = owner[d]
    <2>1. lobby[c] \in LobbyClients
        BY DEF TypeInv
    <2>2. lobby'[c] = [lobby[c] EXCEPT !.client = c, !.refs = 1]
        BY <1>3 DEF TypeInv
    <2>3. lobby'[c].client = c /\ lobby'[c].refs = 1
        BY <2>1, <2>2 DEF LobbyClients
    <2>4. lobby'[c].account = None /\ ~lobby'[c].revived /\ ~lobby'[c].ghost /\ IsBack(c)'
        BY <1>4, <2>2 DEF NewLobbyClient, IsBack
    <2>. QED BY <1>3, <2>3, <2>4 DEF TypeInv
<1>7. \A d \in Clients : d # c /\ owner[d] # None => owner[d] # c /\ owner[d] \in Clients
    BY <1>4 DEF OwnersInv, TypeInv
<1>8. Known' = Known \cup {c} /\ c \notin Known /\ Current(c)'
    BY <1>4, <1>6 DEF Known, Current
<1>9. ASSUME NEW m \in Known
      PROVE  m \in Clients /\ Current(m)' = Current(m) /\ IsBack(m)' = IsBack(m)
    <2>1. m \in Clients /\ m # c /\ lobby'[m] = lobby[m] /\ lobby[m].client \in Clients
        BY <1>6, <1>8, <1>9, KnownAre
    <2>2. lobby[m].client # c
        BY <1>4, <1>9, <2>1, NoneIs DEF OwnersInv, Current
    <2>. QED BY <1>6, <2>1, <2>2 DEF Current, IsBack
<1>. QED BY <1>1, <1>2, <1>3, <1>4, <1>5, <1>6, <1>7, <1>8, <1>9

LEMMA ConnectedCounts ==
    ASSUME Places, CountInv, Connected
    PROVE  CountInv'
<1> USE DEF Places
<1>1. net'.alive = net.alive /\ entries' = entries
    BY ConnectedIs
<1>2. PICK c \in Clients :
          /\ c # None /\ net'.refs = [net.refs EXCEPT ![c] = @ + 1]
          /\ owner[c] = None /\ lobby[c] = NewLobbyClient /\ entries[c] = {}
          /\ lobby'[c].client = c /\ lobby'[c].refs = 1 /\ Current(c)'
          /\ \A m \in Clients : m # c => lobby'[m] = lobby[m]
          /\ owner'[c] = c /\ \A d \in Clients : d # c => owner'[d] = owner[d]
          /\ \A d \in Clients : d # c /\ owner[d] # None => owner[d] # c /\ owner[d] \in Clients
          /\ Known' = Known \cup {c} /\ c \notin Known
          /\ \A m \in Known : m \in Clients /\ Current(m)' = Current(m)
    BY ConnectedIs
<1>3. \A d \in Clients : d # c => UseOf(d)' = UseOf(d)
    <2>1. \A d \in Clients : d # c => Dropped(d)' = Dropped(d)
        BY <1>2 DEF Dropped
    <2>. QED BY <1>2, <2>1 DEF UseOf
<1>4. UseOf(c) = 0 /\ UseOf(c)' = 1
    BY <1>2 DEF UseOf, Dropped
<1>5. Counted(net.refs, net.alive)'
    <2>1. /\ \A d \in Clients : d # c => net'.refs[d] = net.refs[d]
          /\ net'.refs[c] = net.refs[c] + 1
        BY <1>2, KnownAre
    <2>2. ASSUME NEW d \in Clients PROVE net'.refs[d] = (IF net'.alive[d] THEN 2 ELSE 0) + UseOf(d)'
        <3>1. net.refs[d] = (IF net.alive[d] THEN 2 ELSE 0) + UseOf(d)
            BY DEF CountInv, Counted
        <3>2. CASE d = c
            BY <1>1, <1>4, <2>1, <3>1, <3>2 DEF UseOf, Dropped
        <3>3. CASE d # c
            BY <1>1, <1>3, <2>1, <3>1, <3>3
        <3>. QED BY <3>2, <3>3
    <2>. QED BY <2>2 DEF Counted
<1>6. UsesInv'
    <2>1. SUFFICES ASSUME NEW m \in Known'
                   PROVE  /\ lobby'[m].refs \in 0 .. (1 + Cardinality(entries'[m]))
                          /\ ~Current(m)' => lobby'[m].refs = 1
        BY DEF UsesInv
    <2>2. CASE m = c
        <3>1. entries'[m] = {} /\ Cardinality(entries'[m]) = 0
            BY <1>1, <1>2, <2>2, FS_EmptySet
        <3>. QED BY <1>2, <2>2, <3>1
    <2>3. CASE m # c
        <3>1. m \in Known /\ lobby'[m] = lobby[m] /\ m \in Clients /\ Current(m)' = Current(m)
            BY <1>2, <2>1, <2>3
        <3>. QED BY <1>1, <3>1 DEF CountInv, UsesInv
    <2>. QED BY <2>2, <2>3
<1>. QED BY <1>5, <1>6 DEF CountInv

LEMMA QuietCounts ==
    ASSUME Places, CountInv,
           Login \/ AuthAnswered \/ AuthRefused \/ Disconnected \/ ToleratedReturns
    PROVE  CountInv'
<1> USE DEF Places
<1>1. net.queue # << >> /\ UNCHANGED <<owner, entries>>
    BY BeginIs DEF Login, AuthAnswered, AuthRefused, Disconnected, ToleratedReturns, Handling, lobbyVars
<1>2. \A m \in Clients : lobby'[m].client = lobby[m].client /\ lobby'[m].refs = lobby[m].refs
    <2>1. \A m \in Clients : lobby[m] \in LobbyClients
        BY DEF TypeInv
    <2>2. CASE UNCHANGED lobby
        BY <2>2
    <2>3. CASE Login
        BY <2>1, <2>3 DEF Login, TypeInv, LobbyClients
    <2>4. CASE AuthRefused
        BY <2>1, <2>4 DEF AuthRefused, TypeInv, LobbyClients
    <2>5. CASE Disconnected
        BY <2>1, <2>5 DEF Disconnected, TypeInv, LobbyClients
    <2>. QED BY <2>2, <2>3, <2>4, <2>5 DEF AuthAnswered, ToleratedReturns, lobbyVars
<1>3. Counted(net.refs', net.alive')
    <2>1. CASE net' = Popped
        BY <1>1, <2>1, AnsweredCounts
    <2>2. CASE \E ok \in BOOLEAN : net' = Answered(ok)
        BY <1>1, <2>2, AnsweredCounts
    <2>3. CASE Disconnected
        <3>1. Popped \in Nets
            BY <1>1, PoppedIs
        <3>2. net'.refs = Popped.refs /\ net'.alive = Popped.alive
            BY <2>3, <3>1 DEF Disconnected, Cancelled, Nets
        <3>. QED BY <1>1, <3>2, AnsweredCounts
    <2>. QED BY <2>1, <2>2, <2>3 DEF Login, AuthAnswered, AuthRefused, ToleratedReturns
<1>. QED BY <1>1, <1>2, <1>3, SameCounts DEF CountInv

(* Who enters a table that his account finds him not at gets a use for it. *)
LEMMA EnterIs ==
    ASSUME Places, CountInv, Enter
    PROVE  /\ net.queue # << >> /\ First.op = "enter" /\ ~Unreachable /\ net' = Popped
           /\ UNCHANGED <<thread, owner, holder, tokens, timers>>
           /\ \E l \in Clients :
                 /\ l = Owner /\ l \in Known /\ Current(l) /\ lobby[l].refs \in Nat \ {0}
                 /\ \/ UNCHANGED <<entries, lobby>>
                    \/ \E t \in Tables :
                          /\ t \notin entries[l] /\ entries'[l] = entries[l] \cup {t}
                          /\ Cardinality(entries'[l]) = Cardinality(entries[l]) + 1
                          /\ lobby'[l] = [lobby[l] EXCEPT !.refs = @ + 1]
                          /\ \A m \in Clients : m # l => /\ lobby'[m] = lobby[m]
                                                         /\ entries'[m] = entries[m]
<1> USE DEF Places
<1>1. /\ net.queue # << >> /\ First.op = "enter" /\ ~Unreachable /\ net' = Popped
      /\ UNCHANGED <<thread, owner, holder, tokens, timers>>
    BY BeginIs DEF Enter
<1>2. PICK l \in Clients : l = Owner
    BY <1>1, OwnerIs
<1>3. l \in Known /\ Current(l) /\ lobby[l].refs \in Nat \ {0}
    BY <1>1, <1>2, OwnerIs, RefsAre DEF CountInv
<1>4. PICK t \in Tables : t = First.arg
    BY <1>1, PoppedIs DEF Finds
<1>5. PICK a : a = lobby[l].account
    OBVIOUS
<1>6. CASE UNCHANGED <<members, entries, lobby>>
    BY <1>1, <1>2, <1>3, <1>6
<1>7. CASE /\ ~Reaches(t, a)
           /\ entries' = [entries EXCEPT ![l] = @ \cup {t}]
           /\ lobby' = [lobby EXCEPT ![l].refs = @ + 1]
    <2>1. /\ lobby'[l] = [lobby[l] EXCEPT !.refs = @ + 1] /\ entries'[l] = entries[l] \cup {t}
          /\ \A m \in Clients : m # l => lobby'[m] = lobby[m] /\ entries'[m] = entries[m]
        BY <1>7 DEF TypeInv
    <2>2. t \notin entries[l]
        <3>1. \A i \in DOMAIN members[t] : lobby[members[t][i]].account # a
            BY <1>7, NotReachedIs
        <3>2. l \notin At(t)
            BY <1>5, <3>1 DEF At, Members
        <3>. QED BY <1>3, <3>2 DEF SidesInv
    <2>3. Cardinality(entries'[l]) = Cardinality(entries[l]) + 1
        BY <2>1, <2>2, RefsAre, EntriesAre DEF CountInv
    <2>. QED BY <1>1, <1>2, <1>3, <2>1, <2>2, <2>3
<1>. QED BY <1>2, <1>4, <1>5, <1>6, <1>7 DEF Enter

LEMMA EnterCounts ==
    ASSUME Places, CountInv, Enter
    PROVE  CountInv'
<1> USE DEF Places
<1>1. net.queue # << >> /\ net' = Popped /\ owner' = owner
    BY EnterIs
<1>2. PICK l \in Clients :
          /\ l \in Known /\ Current(l) /\ lobby[l].refs \in Nat \ {0}
          /\ \/ UNCHANGED <<entries, lobby>>
             \/ /\ Cardinality(entries'[l]) = Cardinality(entries[l]) + 1
                /\ lobby'[l] = [lobby[l] EXCEPT !.refs = @ + 1]
                /\ \A m \in Clients : m # l => lobby'[m] = lobby[m] /\ entries'[m] = entries[m]
    BY EnterIs
<1>3. Counted(net.refs', net.alive')
    BY <1>1, AnsweredCounts
<1>4. CASE UNCHANGED <<entries, lobby>>
    BY <1>1, <1>3, <1>4, SameCounts DEF CountInv
<1>5. CASE ~UNCHANGED <<entries, lobby>>
    <2>1. /\ lobby'[l].refs = lobby[l].refs + 1
          /\ \A m \in Clients : lobby'[m].client = lobby[m].client
        <3>1. lobby[l] \in LobbyClients
            BY DEF TypeInv
        <3>2. lobby'[l].refs = lobby[l].refs + 1 /\ lobby'[l].client = lobby[l].client
            BY <1>2, <1>5, <3>1 DEF LobbyClients
        <3>. QED BY <1>2, <1>5, <3>2
    <2>2. Cardinality(entries[l]) \in Nat
        BY RefsAre DEF CountInv
    <2>3. Known' = Known /\ \A m \in Known : m \in Clients /\ Current(m)' = Current(m)
        BY <1>1, <2>1 DEF Known, Current
    <2>4. UsesInv'
        <3>1. SUFFICES ASSUME NEW m \in Known
                       PROVE  /\ lobby'[m].refs \in 0 .. (1 + Cardinality(entries'[m]))
                              /\ ~Current(m)' => lobby'[m].refs = 1
            BY <2>3 DEF UsesInv
        <3>2. /\ lobby[m].refs \in 0 .. (1 + Cardinality(entries[m]))
              /\ ~Current(m) => lobby[m].refs = 1
            BY DEF CountInv, UsesInv
        <3>3. CASE m = l
            BY <1>2, <1>5, <2>1, <2>2, <2>3, <3>2, <3>3
        <3>4. CASE m # l
            BY <1>2, <1>5, <2>3, <3>2, <3>4
        <3>. QED BY <3>3, <3>4
    <2>5. \A c \in Clients : Dropped(c)' = Dropped(c)
        <3>1. \A c \in Clients : owner[c] # None => owner[c] \in Clients
            BY DEF TypeInv
        <3>2. lobby'[l].refs # 0
            BY <1>2, <2>1
        <3>3. ASSUME NEW c \in Clients PROVE Dropped(c)' = Dropped(c)
            <4>1. CASE owner[c] = l
                BY <1>1, <1>2, <3>2, <4>1 DEF Dropped
            <4>2. CASE owner[c] # l
                BY <1>1, <1>2, <1>5, <3>1, <4>2 DEF Dropped
            <4>. QED BY <4>1, <4>2
        <3>. QED BY <3>3
    <2>6. \A c \in Clients : UseOf(c)' = UseOf(c)
        BY <1>1, <2>5 DEF UseOf
    <2>. QED BY <1>3, <2>4, <2>6 DEF CountInv, Counted
<1>. QED BY <1>4, <1>5

(* The token's lobby client r takes the place of the connection's own, c.  *)
Revives(c, r, k, ok) ==
    /\ c = Client /\ owner[c] = c /\ c \in Known /\ c # None /\ lobby[c].client = c
    /\ lobby[c].account = None /\ entries[c] = {} /\ lobby[c].refs = 1
    /\ k = First.arg /\ k \in DOMAIN holder
    /\ r = holder[k] /\ r # None /\ r # c /\ r \in Known /\ Current(r)
    /\ lobby[r].account # None /\ lobby[r].refs # 0
    /\ net' = Answered(ok)
    /\ lobby'[c] = [lobby[c] EXCEPT !.token = k]
    /\ lobby'[r] = [lobby[r] EXCEPT !.client = c, !.tolerant = FALSE,
                          !.disconnected = FALSE, !.connected = TRUE,
                          !.revived = ~ok, !.token = Len(tokens) + 1]
    /\ \A m \in Clients : m # c /\ m # r => lobby'[m] = lobby[m]
    /\ \A m \in Clients : /\ lobby'[m].refs = lobby[m].refs
                          /\ lobby'[m].task = lobby[m].task
                          /\ lobby'[m].account = lobby[m].account
    /\ lobby'[r].client = c /\ IsBack(r)'
    /\ \A m \in Clients : m # r => lobby'[m].client = lobby[m].client
    /\ \A d \in Clients : owner'[d] = IF d = c THEN r ELSE owner[d]
    /\ \A m \in Clients : entries'[m] = IF m = c THEN entries[r] ELSE entries[m]
    /\ Known' = Known /\ \A m \in Known : m \in Clients
    /\ Current(r)' /\ ~Current(c)'
    /\ \A m \in Known : m # c /\ m # r => /\ Current(m)' = Current(m)
                                          /\ IsBack(m)' = IsBack(m)

LEMMA ReviveIs ==
    ASSUME Places, CountInv, Revive
    PROVE  /\ net.queue # << >> /\ First.op = "auth" /\ ~Unreachable
           /\ UNCHANGED <<thread, holder, timers>>
           /\ \E c, r \in Clients, k \in 1 .. Len(tokens), ok \in BOOLEAN : Revives(c, r, k, ok)
<1> USE DEF Places
<1>1. /\ net.queue # << >> /\ First.op = "auth" /\ First.op \in Asking
      /\ Hazard = "none" /\ ~Unreachable /\ ~Answers
    BY BeginIs DEF Revive, Asking
<1>2. PICK c \in Clients : c = Client
    BY <1>1, PoppedIs
<1>3. /\ Owner = c /\ owner[c] = c /\ c \in Known /\ c # None /\ lobby[c].client = c
      /\ lobby[c].account = None /\ entries[c] = {} /\ lobby[c].refs # 0
    BY <1>1, <1>2, AskingIs, OwnerIs DEF Owner
<1>4. PICK k \in 1 .. Len(tokens) : k = First.arg /\ k \in DOMAIN holder
    BY <1>1, PoppedIs, TokensAre, MembershipAssumption DEF Finds
<1>5. PICK r \in Clients : r = holder[k] /\ r # None /\ lobby[r].account = tokens[k]
    BY <1>4, TokensAre DEF Revive
<1>6. PICK ok \in BOOLEAN : /\ net' = Answered(ok)
                            /\ lobby' = [lobby EXCEPT ![c].token = k, ![r] = Revived(r, ok)]
    BY <1>3, <1>4, <1>5 DEF Revive
<1>7. /\ owner' = [owner EXCEPT ![c] = r]
      /\ entries' = [entries EXCEPT ![c] = entries[r]]
      /\ UNCHANGED <<thread, holder, timers>>
    BY <1>3, <1>4, <1>5 DEF Revive
<1>8. /\ r # c /\ lobby[r].client # None /\ r \in Known /\ Current(r)
    <2>1. lobby[r].account # None
        BY <1>5, TokensAre
    <2>2. lobby[r].client # None
        BY <2>1 DEF OwnersInv, NewLobbyClient
    <2>. QED BY <1>3, <2>1, <2>2 DEF OwnersInv, Known
<1>9. lobby[r].refs # 0
    <2>1. AuthHazard = "none"
        BY <1>1 DEF Hazard
    <2>2. ~FreedLobbyClient(r)
        BY <1>1, <1>4, <1>5, <2>1 DEF AuthHazard
    <2>. QED BY <1>8, <2>2 DEF FreedLobbyClient
<1>10. /\ \A m \in Clients : lobby[m] \in LobbyClients
       /\ lobby'[c] = [lobby[c] EXCEPT !.token = k] /\ lobby'[r] = Revived(r, ok)
       /\ \A m \in Clients : m # c /\ m # r => lobby'[m] = lobby[m]
    BY <1>6, <1>8 DEF TypeInv
<1>11. /\ lobby'[r] = [lobby[r] EXCEPT !.client = c, !.tolerant = FALSE,
                                       !.disconnected = FALSE, !.connected = TRUE,
                                       !.revived = ~ok, !.token = Len(tokens) + 1]
       /\ lobby'[r].client = c /\ lobby'[r].refs = lobby[r].refs /\ lobby'[r].task = lobby[r].task
       /\ lobby'[r].account = lobby[r].account /\ IsBack(r)'
    <2>1. lobby'[r] = [lobby[r] EXCEPT !.client = c,
                          !.tolerant = FALSE, !.disconnected = FALSE, !.connected = TRUE,
                          !.revived = ~ok, !.token = Len(tokens) + 1]
        BY <1>3, <1>8, <1>10 DEF Revived
    <2>. QED BY <1>10, <2>1 DEF LobbyClients, IsBack
<1>12. /\ lobby'[c].client = c /\ lobby'[c].refs = lobby[c].refs
       /\ lobby'[c].task = lobby[c].task /\ lobby'[c].account = lobby[c].account
    BY <1>3, <1>10 DEF LobbyClients
<1>13. /\ \A m \in Clients : /\ lobby'[m].refs = lobby[m].refs
                             /\ lobby'[m].task = lobby[m].task
                             /\ lobby'[m].account = lobby[m].account
       /\ \A m \in Clients : m # r => lobby'[m].client = lobby[m].client
       /\ \A d \in Clients : owner'[d] = IF d = c THEN r ELSE owner[d]
       /\ \A m \in Clients : entries'[m] = IF m = c THEN entries[r] ELSE entries[m]
    BY <1>3, <1>7, <1>10, <1>11, <1>12 DEF TypeInv
<1>14. /\ Known' = Known /\ \A m \in Known : m \in Clients
       /\ Current(r)' /\ ~Current(c)'
       /\ \A m \in Known : m # c /\ m # r => Current(m)' = Current(m) /\ IsBack(m)' = IsBack(m)
    <2>1. Known' = Known
        BY <1>3, <1>8, <1>11, <1>13 DEF Known
    <2>2. \A m \in Known : m \in Clients /\ lobby[m].client \in Clients
        BY KnownAre
    <2>3. Current(r)' /\ ~Current(c)'
        BY <1>8, <1>11, <1>12, <1>13 DEF Current
    <2>4. ASSUME NEW m \in Known, m # c, m # r PROVE Current(m)' = Current(m)
        <3>1. CASE lobby[m].client = c
            BY <1>3, <1>13, <2>2, <2>4, <3>1 DEF Current
        <3>2. CASE lobby[m].client # c
            BY <1>13, <2>2, <2>4, <3>2 DEF Current
        <3>. QED BY <3>1, <3>2
    <2>5. \A m \in Known : m # c /\ m # r => IsBack(m)' = IsBack(m)
        BY <1>10, <2>2 DEF IsBack
    <2>. QED BY <2>1, <2>2, <2>3, <2>4, <2>5
<1>15. /\ \A m \in Known : /\ lobby[m].refs \in 0 .. (1 + Cardinality(entries[m]))
                           /\ ~Current(m) => lobby[m].refs = 1
       /\ \A m \in Clients : Cardinality(entries[m]) \in Nat
    BY RefsAre DEF CountInv, UsesInv
<1>16. lobby[c].refs = 1
    <2>1. Cardinality(entries[c]) = 0
        BY <1>3, FS_EmptySet
    <2>2. lobby[c].refs \in 0 .. (1 + 0)
        BY <1>3, <1>15, <2>1
    <2>. QED BY <1>3, <2>2
<1>17. lobby[r].account # None
    BY <1>5, TokensAre
<1>18. UNCHANGED <<thread, holder, timers>>
    BY <1>7
<1>19. /\ c = Client /\ owner[c] = c /\ c \in Known /\ c # None /\ lobby[c].client = c
       /\ lobby[c].account = None /\ entries[c] = {} /\ lobby[c].refs = 1
       /\ k = First.arg /\ k \in DOMAIN holder
    BY <1>2, <1>3, <1>4, <1>16
<1>20. /\ r = holder[k] /\ r # None /\ r # c /\ r \in Known /\ Current(r)
       /\ lobby[r].account # None /\ lobby[r].refs # 0
       /\ net' = Answered(ok) /\ lobby'[c] = [lobby[c] EXCEPT !.token = k]
    BY <1>5, <1>6, <1>8, <1>9, <1>10, <1>17
<1>21. \A m \in Clients : m # c /\ m # r => lobby'[m] = lobby[m]
    BY <1>10
<1>22. Revives(c, r, k, ok)
    BY <1>11, <1>13, <1>14, <1>19, <1>20, <1>21 DEF Revives
<1>. QED BY <1>1, <1>18, <1>22

LEMMA ReviveCounts ==
    ASSUME Places, CountInv, Revive
    PROVE  CountInv'
<1> USE DEF Places
<1>1. net.queue # << >>
    BY ReviveIs
<1>0. PICK c, r \in Clients, k \in 1 .. Len(tokens), ok \in BOOLEAN : Revives(c, r, k, ok)
    BY ReviveIs
<1>2. /\ owner[c] = c /\ c \in Known /\ c # None /\ lobby[c].client = c /\ lobby[c].refs = 1
      /\ r # None /\ r # c /\ lobby[r].refs # 0 /\ net' = Answered(ok)
      /\ \A m \in Clients : lobby'[m].refs = lobby[m].refs
      /\ \A m \in Clients : m # r => lobby'[m].client = lobby[m].client
      /\ \A d \in Clients : owner'[d] = IF d = c THEN r ELSE owner[d]
      /\ \A m \in Clients : entries'[m] = IF m = c THEN entries[r] ELSE entries[m]
      /\ Known' = Known /\ \A m \in Known : m \in Clients
      /\ Current(r)' /\ ~Current(c)'
      /\ \A m \in Known : m # c /\ m # r => Current(m)' = Current(m)
    BY <1>0 DEF Revives
<1>3. /\ \A m \in Known : /\ lobby[m].refs \in 0 .. (1 + Cardinality(entries[m]))
                          /\ ~Current(m) => lobby[m].refs = 1
      /\ \A m \in Clients : Cardinality(entries[m]) \in Nat
    BY RefsAre DEF CountInv, UsesInv
<1>4. UsesInv'
    <2>1. SUFFICES ASSUME NEW m \in Known
                   PROVE  /\ lobby'[m].refs \in 0 .. (1 + Cardinality(entries'[m]))
                          /\ ~Current(m)' => lobby'[m].refs = 1
        BY <1>2 DEF UsesInv
    <2>2. CASE m = c
        <3>1. entries'[m] = entries[r] /\ lobby'[m].refs = 1 /\ Cardinality(entries[r]) \in Nat
            BY <1>2, <1>3, <2>2
        <3>. QED BY <3>1
    <2>3. CASE m # c
        <3>1. entries'[m] = entries[m] /\ lobby'[m].refs = lobby[m].refs
            BY <1>2, <2>3
        <3>2. ~Current(m)' => ~Current(m)
            BY <1>2, <2>3
        <3>. QED BY <1>3, <3>1, <3>2
    <2>. QED BY <2>2, <2>3
<1>5. ASSUME NEW d \in Clients PROVE UseOf(d)' = UseOf(d)
    <2>1. owner[d] # None => owner[d] \in Clients
        BY DEF TypeInv
    <2>2. CASE d = c
        <3>1. ~Dropped(d) /\ ~Dropped(d)'
            BY <1>2, <2>2 DEF Dropped
        <3>. QED BY <1>2, <2>2, <3>1 DEF UseOf
    <2>3. CASE d # c
        <3>1. owner'[d] = owner[d]
            BY <1>2, <2>3
        <3>2. CASE owner[d] = r
            <4>1. ~Dropped(d) /\ ~Dropped(d)'
                BY <1>2, <3>1, <3>2 DEF Dropped
            <4>. QED BY <3>1, <4>1 DEF UseOf
        <3>3. CASE owner[d] # r
            <4>1. Dropped(d)' = Dropped(d)
                BY <1>2, <2>1, <3>1, <3>3 DEF Dropped
            <4>. QED BY <3>1, <4>1 DEF UseOf
        <3>. QED BY <3>2, <3>3
    <2>. QED BY <2>2, <2>3
<1>6. Counted(net.refs', net.alive')
    BY <1>1, <1>2, AnsweredCounts
<1>. QED BY <1>4, <1>5, <1>6 DEF CountInv, Counted

(* What a lobby client keeps of its uses it had; with the last its         *)
(* connection loses one.                                                   *)
LEMMA LeftCounts ==
    ASSUME Places, CountInv, net.queue # << >>, NEW l \in Clients, l = Owner,
           l \in Known, Current(l), lobby[l].refs # 0, Leaving, RefsAfter(l) \in Nat,
           net' = FreeUnused, owner' = owner,
           entries' = [entries EXCEPT ![l] = @ \ Left],
           \A m \in Clients : /\ lobby'[m].client = lobby[m].client
                              /\ lobby'[m].refs = RefsAfter(m)
    PROVE  CountInv'
<1> USE DEF Places
<1>1. /\ Left \subseteq entries[l] /\ Cardinality(Left) \in Nat
      /\ \A m \in Clients : m # l => RefsAfter(m) = lobby[m].refs
      /\ RefsAfter(l) = lobby[l].refs - Cardinality(Left) - IF First.op = "tolerated" THEN 1 ELSE 0
      /\ Unused \in SUBSET {l}
    BY UsesAre DEF Leaving
<1>2. /\ \A m \in Clients : entries[m] \in SUBSET Tables /\ Cardinality(entries[m]) \in Nat
      /\ lobby[l].refs \in Nat
      /\ lobby[l].refs \in 0 .. (1 + Cardinality(entries[l]))
    BY RefsAre DEF CountInv, UsesInv
<1>3. /\ entries'[l] = entries[l] \ Left
      /\ \A m \in Clients : m # l => entries'[m] = entries[m]
    BY DEF TypeInv
<1>4. Cardinality(entries'[l]) = Cardinality(entries[l]) - Cardinality(Left)
    <2>1. PICK S \in SUBSET Tables : S = entries[l]
        BY <1>2
    <2>2. PICK T \in SUBSET S : T = Left
        BY <1>1, <2>1
    <2>3. Cardinality(S \ T) = Cardinality(S) - Cardinality(T)
        BY EntriesAre
    <2>. QED BY <1>3, <2>1, <2>2, <2>3
<1>5. Known' = Known /\ \A m \in Known : m \in Clients /\ Current(m)' = Current(m)
    BY DEF Known, Current
<1>6. UsesInv'
    <2>1. SUFFICES ASSUME NEW m \in Known
                   PROVE  /\ lobby'[m].refs \in 0 .. (1 + Cardinality(entries'[m]))
                          /\ ~Current(m)' => lobby'[m].refs = 1
        BY <1>5 DEF UsesInv
    <2>2. CASE m = l
        <3>1. PICK a \in Nat : a = Cardinality(entries[l])
            BY <1>2
        <3>2. PICK b \in Nat : b = Cardinality(Left)
            BY <1>1
        <3>3. RefsAfter(l) \in 0 .. (1 + (a - b))
            BY <1>1, <1>2, <3>1, <3>2
        <3>. QED BY <1>4, <1>5, <2>2, <3>1, <3>2, <3>3
    <2>3. CASE m # l
        BY <1>1, <1>3, <1>5, <2>3 DEF CountInv, UsesInv
    <2>. QED BY <2>2, <2>3
<1>7. PICK d \in Clients : d = lobby[l].client /\ owner[d] = l
    BY KnownAre DEF Current
<1>8. \A c \in Clients : c # d => UseOf(c)' = UseOf(c)
    <2>1. ASSUME NEW c \in Clients, c # d PROVE Dropped(c)' = Dropped(c)
        <3>1. owner[c] # None => owner[c] \in Clients
            BY DEF TypeInv
        <3>2. CASE owner[c] = l
            BY <1>7, <2>1, <3>2 DEF Dropped
        <3>3. CASE owner[c] # l
            BY <1>1, <3>1, <3>3 DEF Dropped
        <3>. QED BY <3>2, <3>3
    <2>. QED BY <2>1 DEF UseOf
<1>9. /\ l # None /\ UseOf(d) = 1
      /\ UseOf(d)' = IF RefsAfter(l) = 0 THEN 0 ELSE 1
    BY <1>7, KnownAre, NoneIs DEF UseOf, Dropped
<1>10. Unused = IF RefsAfter(l) = 0 THEN {l} ELSE {}
    <2>1. lobby[l].refs > 0
        BY <1>2
    <2>. QED BY <1>1, <2>1 DEF Unused
<1>11. /\ FreeUnused = IF Unused = {} THEN Popped ELSE LeaveClient(Popped, d)
       /\ Popped \in Nets /\ Counted(Popped.refs, Popped.alive)
    BY <1>7, FreedIs, PoppedIs, AnsweredCounts
<1>12. CASE RefsAfter(l) # 0
    BY <1>6, <1>8, <1>9, <1>10, <1>11, <1>12 DEF CountInv, Counted
<1>13. CASE RefsAfter(l) = 0
    <2>1. PICK n \in Nets : n = Popped
        BY <1>11
    <2>2. /\ net'.alive = n.alive /\ net'.refs = [n.refs EXCEPT ![d] = @ - 1]
          /\ n.refs \in [Clients -> Int]
        <3>1. net' = LeaveClient(n, d)
            BY <1>10, <1>11, <1>13, <2>1
        <3>2. /\ LeaveClient(n, d).alive = n.alive
              /\ LeaveClient(n, d).refs = [n.refs EXCEPT ![d] = @ - 1]
            BY LeaveClientIs
        <3>. QED BY <3>1, <3>2 DEF Nets
    <2>3. n.refs[d] = (IF n.alive[d] THEN 2 ELSE 0) + 1
        BY <1>9, <1>11, <2>1 DEF Counted
    <2>4. net'.refs[d] = (IF net'.alive[d] THEN 2 ELSE 0) + 0
        BY <2>2, <2>3
    <2>5. \A c \in Clients : c # d => net'.refs[c] = (IF net'.alive[c] THEN 2 ELSE 0) + UseOf(c)'
        BY <1>8, <1>11, <2>1, <2>2 DEF Counted
    <2>6. UseOf(d)' = 0
        BY <1>9, <1>13
    <2>7. Counted(net.refs, net.alive)'
        BY <2>4, <2>5, <2>6 DEF Counted
    <2>. QED BY <1>6, <2>7 DEF CountInv
<1>. QED BY <1>12, <1>13

(* A table that is left takes its use with it.                             *)
LEMMA LeaveTableIs ==
    ASSUME Places, CountInv, LeaveTable
    PROVE  /\ net.queue # << >> /\ First.op = "leave" /\ ~Unreachable /\ net' = FreeUnused
           /\ UNCHANGED <<thread, owner, holder, tokens, timers>>
           /\ \E l \in Clients :
                 /\ l = Owner /\ l \in Known /\ Current(l) /\ lobby[l].refs # 0 /\ Leaving
                 /\ RefsAfter(l) \in Nat /\ entries' = [entries EXCEPT ![l] = @ \ Left]
           /\ \A m \in Clients : /\ lobby'[m].client = lobby[m].client
                                 /\ lobby'[m].account = lobby[m].account
                                 /\ lobby'[m].token = lobby[m].token
                                 /\ lobby'[m].task = lobby[m].task
                                 /\ lobby'[m].revived = lobby[m].revived
                                 /\ IsBack(m)' = IsBack(m)
                                 /\ lobby'[m].refs = RefsAfter(m)
<1> USE DEF Places
<1>1. /\ net.queue # << >> /\ First.op = "leave" /\ ~Unreachable /\ Hazard = "none"
      /\ LeaveTables(Owner) /\ net' = FreeUnused
      /\ UNCHANGED <<thread, owner, holder, tokens, timers>>
      /\ lobby' = [m \in Clients |-> [lobby[m] EXCEPT !.refs = RefsAfter(m)]]
    BY BeginIs DEF LeaveTable
<1>2. PICK l \in Clients : l = Owner
    BY <1>1, OwnerIs
<1>3. l \in Known /\ Current(l) /\ lobby[l].refs # 0 /\ Leaving
    BY <1>1, <1>2, OwnerIs, LeavingIs
<1>4. /\ entries' = [entries EXCEPT ![l] = @ \ Left]
      /\ \A m \in Clients : lobby[m] \in LobbyClients
    BY <1>1, <1>2 DEF LeaveTables, TypeInv
<1>5. \A m \in Clients : /\ lobby'[m].client = lobby[m].client
                         /\ lobby'[m].account = lobby[m].account
                         /\ lobby'[m].token = lobby[m].token
                         /\ lobby'[m].task = lobby[m].task
                         /\ lobby'[m].revived = lobby[m].revived
                         /\ IsBack(m)' = IsBack(m)
                         /\ lobby'[m].refs = RefsAfter(m)
    BY <1>1, <1>4 DEF LobbyClients, IsBack
<1>6. RefsAfter(l) \in Nat
    <2>1. Cardinality(Left) <= 1 /\ Cardinality(Left) \in Nat
        <3>1. Left \subseteq {First.arg}
            BY <1>1 DEF Left
        <3>2. Left = {} \/ Left = {First.arg}
            BY <3>1
        <3>3. Cardinality({}) = 0 /\ Cardinality({First.arg}) = 1
            BY FS_EmptySet, FS_Singleton
        <3>. QED BY <3>2, <3>3
    <2>2. RefsAfter(l) = lobby[l].refs - Cardinality(Left) - 0
        BY <1>1, <1>2, <1>3, UsesAre
    <2>3. lobby[l].refs \in Nat
        BY <1>3, RefsAre DEF CountInv
    <2>. QED BY <1>3, <2>1, <2>2, <2>3
<1>. QED BY <1>1, <1>2, <1>3, <1>4, <1>5, <1>6

LEMMA LeaveTableCounts ==
    ASSUME Places, CountInv, LeaveTable
    PROVE  CountInv'
BY LeaveTableIs, LeftCounts

(* So does the connection that is lost, with all that is not revived.      *)
LEMMA ToleratedIs ==
    ASSUME Places, CountInv, Tolerated
    PROVE  /\ net.queue # << >> /\ First.op = "tolerated" /\ ~Unreachable /\ net' = FreeUnused
           /\ UNCHANGED <<thread, owner, tokens, timers>>
           /\ \E l \in Clients :
                 /\ l = Owner /\ l \in Known /\ Current(l) /\ lobby[l].refs # 0 /\ Leaving
                 /\ ~IsBack(l) /\ RefsAfter(l) \in Nat
                 /\ entries' = [entries EXCEPT ![l] = @ \ Left]
                 /\ lobby'[l].ghost = (lobby[l].ghost \/ lobby[l].revived)
                 /\ lobby'[l].token = lobby[l].token /\ lobby'[l].revived = lobby[l].revived
                 /\ \A m \in Clients : m # l => lobby'[m] = lobby[m]
                 /\ holder' = IF lobby[l].token # NoToken /\ ~lobby[l].revived
                                THEN [holder EXCEPT ![lobby[l].token] = None] ELSE holder
           /\ \A m \in Clients : /\ lobby'[m].client = lobby[m].client
                                 /\ lobby'[m].account = lobby[m].account
                                 /\ lobby'[m].refs = RefsAfter(m)
<1> USE DEF Places
<1>1. /\ net.queue # << >> /\ First.op = "tolerated" /\ ~Unreachable /\ Hazard = "none"
      /\ ~IsBack(Owner)
      /\ LeaveTables(Owner) /\ net' = FreeUnused
      /\ UNCHANGED <<thread, owner, tokens, timers>>
    BY BeginIs DEF Tolerated
<1>2. PICK l \in Clients : l = Owner
    BY <1>1, OwnerIs
<1>3. l \in Known /\ Current(l) /\ lobby[l].refs # 0 /\ Leaving
    BY <1>1, <1>2, OwnerIs, LeavingIs
<1>4. /\ entries' = [entries EXCEPT ![l] = @ \ Left]
      /\ \A m \in Clients : lobby[m] \in LobbyClients
      /\ holder' = IF lobby[l].token # NoToken /\ ~lobby[l].revived
                     THEN [holder EXCEPT ![lobby[l].token] = None] ELSE holder
    BY <1>1, <1>2 DEF LeaveTables, TypeInv, Tolerated
<1>5. lobby' = [m \in Clients |->
                    IF m = l THEN [lobby[l] EXCEPT !.disconnected = TRUE, !.task = None,
                                                   !.refs = RefsAfter(l),
                                                   !.ghost = @ \/ lobby[l].revived]
                    ELSE [lobby[m] EXCEPT !.refs = RefsAfter(m)]]
    BY <1>2 DEF Tolerated
<1>6. /\ lobby'[l].client = lobby[l].client /\ lobby'[l].account = lobby[l].account
      /\ lobby'[l].refs = RefsAfter(l)
      /\ lobby'[l].ghost = (lobby[l].ghost \/ lobby[l].revived)
      /\ lobby'[l].token = lobby[l].token /\ lobby'[l].revived = lobby[l].revived
    <2>1. PICK g : g = (lobby[l].ghost \/ lobby[l].revived)
        OBVIOUS
    <2>2. lobby'[l] = [lobby[l] EXCEPT !.disconnected = TRUE, !.task = None,
                                       !.refs = RefsAfter(l), !.ghost = g]
        BY <1>5, <2>1
    <2>3. /\ lobby'[l].client = lobby[l].client /\ lobby'[l].account = lobby[l].account
          /\ lobby'[l].refs = RefsAfter(l) /\ lobby'[l].ghost = g
          /\ lobby'[l].token = lobby[l].token /\ lobby'[l].revived = lobby[l].revived
        BY <1>4, <2>2 DEF LobbyClients
    <2>. QED BY <2>1, <2>3
<1>7. \A m \in Clients : m # l => lobby'[m] = lobby[m] /\ lobby'[m].refs = RefsAfter(m)
    <2>1. SUFFICES ASSUME NEW m \in Clients, m # l
                   PROVE  lobby'[m] = lobby[m] /\ lobby'[m].refs = RefsAfter(m)
        OBVIOUS
    <2>2. RefsAfter(m) = lobby[m].refs
        BY <1>2, <1>3, <2>1, UsesAre
    <2>3. lobby'[m] = [lobby[m] EXCEPT !.refs = lobby[m].refs]
        BY <1>5, <2>1, <2>2
    <2>. QED BY <1>4, <2>2, <2>3 DEF LobbyClients
<1>8. RefsAfter(l) \in Nat
    <2>1. Cardinality(Left) \in Nat /\ ~(Cardinality(Left) >= lobby[l].refs)
        BY <1>1, <1>2, <1>3, UsesAre, LeavingIs
    <2>2. RefsAfter(l) = lobby[l].refs - Cardinality(Left) - 1
        BY <1>1, <1>2, <1>3, UsesAre
    <2>3. lobby[l].refs \in Nat
        BY <1>3, RefsAre DEF CountInv
    <2>. QED BY <2>1, <2>2, <2>3
<1>9. \A m \in Clients : /\ lobby'[m].client = lobby[m].client
                         /\ lobby'[m].account = lobby[m].account
                         /\ lobby'[m].refs = RefsAfter(m)
    BY <1>6, <1>7
<1>. QED BY <1>1, <1>2, <1>3, <1>4, <1>6, <1>7, <1>8, <1>9

LEMMA ToleratedCounts ==
    ASSUME Places, CountInv, Tolerated
    PROVE  CountInv'
BY ToleratedIs, LeftCounts

LEMMA InitCounts == Init => CountInv
<1> SUFFICES ASSUME Init PROVE CountInv
    OBVIOUS
<1>1. /\ net = NetInit /\ owner = [c \in Clients |-> None]
      /\ lobby = [c \in Clients |-> NewLobbyClient]
    BY DEF Init, ClientsInit
<1>2. /\ \A c \in Clients : net.refs[c] = 0 /\ ~net.alive[c]
      /\ NewLobbyClient.client = None
    BY <1>1 DEF NetInit, NewLobbyClient
<1>3. Known = {}
    BY <1>1, <1>2 DEF Known
<1>4. \A c \in Clients : UseOf(c) = 0
    BY <1>1 DEF UseOf, Dropped
<1>. QED BY <1>2, <1>3, <1>4 DEF CountInv, Counted, UsesInv

LEMMA StepKeepsCounts ==
    ASSUME Places, CountInv, Places', [Next]_vars
    PROVE  CountInv'
<1>1. CASE ThreadsStep
    BY <1>1, ThreadsCount DEF Places
<1>2. CASE Send \/ TimersDue
    BY <1>2, CallsCount DEF Places
<1>3. CASE Misuse \/ UNCHANGED vars
    <2>1. UNCHANGED <<net, owner, lobby, entries>>
        BY <1>3 DEF Misuse, vars, lobbyVars
    <2>. QED BY <2>1, SameCounts DEF Places, CountInv
<1>4. CASE Handle /\ ~Misuse
    BY <1>4, ConnectedCounts, QuietCounts, ReviveCounts, EnterCounts, LeaveTableCounts,
       ToleratedCounts DEF Handle
<1>. QED BY <1>1, <1>2, <1>3, <1>4 DEF Next

(* The counts go by the uses they stand for: a connection's reference      *)
(* count never passes its list's, its thread's and its lobby client's use, *)
(* and a lobby client's never its connection's and one for each table.     *)
THEOREM CountsAre ==
    ASSUME Orderly
    PROVE  Spec => []TypeOK
<1>1. Places /\ CountInv => TypeOK
    BY CountsBound DEF Places
<1>2. Init => Places /\ CountInv
    BY InitPlaces, InitCounts
<1>3. Places /\ CountInv /\ [Next]_vars => (Places /\ CountInv)'
    BY StepKeepsPlaces, StepKeepsCounts
<1>. QED BY <1>1, <1>2, <1>3, PTL DEF Spec

-----------------------------------------------------------------------------
(* What is freed                                                           *)

(* A lobby client whose last use is gone.                                  *)
Spent(lob, l) == lob[l].client # None /\ lob[l].refs = 0

(* What waits and whose thread lives is of no spent lobby client; of a     *)
(* connection that another took over only its delayed disconnection waits; *)
(* a lobby client knows the one delay it has; and once a token waits, no   *)
(* other task of who holds it comes after it.                              *)
WaitInv(queue, threads, delayed, own, lob, hold) ==
    /\ \A x \in Members(queue) : own[x.client] # None =>
          /\ ~Spent(lob, own[x.client])
          /\ lob[own[x.client]].client # x.client => x.op = "tolerated"
          /\ x.op = "tolerated" => lob[own[x.client]].task = x.client
    /\ \A x \in Members(queue) : x.op = "tolerated" => x.arg = None
    /\ \A c \in delayed : own[c] # None => ~Spent(lob, own[c]) /\ lob[own[c]].task = c
    /\ \A c \in Clients : own[c] # None /\ Spent(lob, own[c]) => threads[c] = "gone"
    /\ \A x, y \in Members(queue) :
          Precedes(queue, x, y) /\ x.op = "auth" /\ hold[x.arg] # None
             /\ own[y.client] = hold[x.arg] => y.op = "tolerated"

(* Who has a thread but no lobby client yet is alive and waits for it.     *)
AwaitInv(queue, alive, threads, own) ==
    \A c \in Clients : threads[c] # "none" /\ own[c] = None =>
       /\ alive[c]
       /\ threads[c] # "started" => \E x \in Members(queue) : x.client = c /\ x.op = "connected"

(* A lobby client that is reached has all its uses or none.                *)
WholeInv == \A l \in Known : Current(l) =>
               IF lobby[l].refs = 0 THEN entries[l] = {}
               ELSE lobby[l].refs = 1 + Cardinality(entries[l])
DelayInv == \A l \in Known : Current(l) /\ ~IsBack(l) /\ lobby[l].refs # 0 =>
               lobby[l].task = lobby[l].client
FreedInv(freed) == \A c \in freed : Dropped(c)

FreeInv == /\ WaitInv(net.queue, thread, timers, owner, lobby, holder)
           /\ AwaitInv(net.queue, net.alive, thread, owner)
           /\ FreedInv(net.freed) /\ WholeInv /\ DelayInv

NoGhost == \A l \in Known : ~lobby[l].ghost

(* A token that finds a lobby client and is still its own finds it whole.  *)
HeldInv ==
    /\ \A l \in Known : lobby[l].account = None => ~lobby[l].revived
    /\ \A k \in DOMAIN holder : holder[k] # None /\ lobby[holder[k]].token = k =>
          /\ ~lobby[holder[k]].revived
          /\ lobby[holder[k]].refs = 1 + Cardinality(entries[holder[k]])

LEMMA FewerWait ==
    ASSUME NEW q, NEW threads, NEW delayed, NEW own, NEW lob, NEW hold,
           WaitInv(q, threads, delayed, own, lob, hold),
           NEW r, Members(r) \subseteq Members(q),
           \A x, y : Precedes(r, x, y) => Precedes(q, x, y),
           NEW rest \in SUBSET delayed
    PROVE  WaitInv(r, threads, rest, own, lob, hold)
BY DEF WaitInv

LEMMA CalledWaits ==
    ASSUME NEW q \in Seq(Tasks), NEW threads, NEW delayed, NEW own, NEW lob, NEW hold,
           WaitInv(q, threads, delayed, own, lob, hold), NEW x \in Tasks,
           own[x.client] # None =>
              /\ ~Spent(lob, own[x.client])
              /\ lob[own[x.client]].client # x.client => x.op = "tolerated"
              /\ x.op = "tolerated" => lob[own[x.client]].task = x.client,
           x.op = "tolerated" => x.arg = None,
           \A y \in Members(q) : y.op = "auth" /\ hold[y.arg] # None /\ hold[y.arg] = own[x.client]
              => x.op = "tolerated"
    PROVE  WaitInv(Append(q, x), threads, delayed, own, lob, hold)
<1>1. /\ Members(Append(q, x)) = Members(q) \cup {x}
      /\ \A y, z : Precedes(Append(q, x), y, z) =>
                 Precedes(q, y, z) \/ (y \in Members(q) /\ z = x)
    BY AppendOrder
<1>2. \A y, z : Precedes(q, y, z) => y \in Members(q) /\ z \in Members(q)
    <2>1. SUFFICES ASSUME NEW y, NEW z, Precedes(q, y, z) PROVE y \in Members(q) /\ z \in Members(q)
        OBVIOUS
    <2>2. PICK j \in DOMAIN q : \E i \in 1 .. (j - 1) : q[i] = y /\ q[j] = z
        BY <2>1 DEF Precedes
    <2>3. PICK i \in 1 .. (j - 1) : q[i] = y /\ q[j] = z
        BY <2>2
    <2>4. i \in DOMAIN q
        BY <2>3, LenProperties
    <2>. QED BY <2>3, <2>4 DEF Members
<1>3. ASSUME NEW y, NEW z, Precedes(Append(q, x), y, z), y.op = "auth", hold[y.arg] # None,
             own[z.client] = hold[y.arg]
      PROVE  z.op = "tolerated"
    <2>1. CASE Precedes(q, y, z)
        BY <1>2, <1>3, <2>1 DEF WaitInv
    <2>2. CASE y \in Members(q) /\ z = x
        BY <1>3, <2>2
    <2>. QED BY <1>1, <1>3, <2>1, <2>2
<1>. QED BY <1>1, <1>3 DEF WaitInv

(* As long as who owns what, and what is spent, stay as they are.          *)
LEMMA StillWaits ==
    ASSUME NEW q \in Seq(Tasks), NEW threads, NEW delayed \in SUBSET Clients,
           NEW own \in [Clients -> Clients \cup {None}], NEW lob, NEW hold,
           WaitInv(q, threads, delayed, own, lob, hold),
           NEW lob2, NEW hold2,
           \A m \in Clients : /\ lob2[m].client = lob[m].client
                              /\ lob2[m].task = lob[m].task
                              /\ Spent(lob2, m) <=> Spent(lob, m),
           \A x \in Members(q) : x.op = "auth" => hold2[x.arg] \in {hold[x.arg], None}
    PROVE  WaitInv(q, threads, delayed, own, lob2, hold2)
<1>1. \A x \in Members(q) : x.client \in Clients
    <2>1. Members(q) \subseteq Tasks
        BY MembersByIndex
    <2>2. \A x \in Tasks : x.client \in Clients
        BY DEF Tasks
    <2>. QED BY <2>1, <2>2
<1>2. \A c \in Clients : own[c] # None => own[c] \in Clients
    OBVIOUS
<1>. QED BY <1>1, <1>2 DEF WaitInv

(* The disconnection of a connection whose thread goes on.                 *)
LEMMA LostWaits ==
    ASSUME NEW q \in Seq(Tasks), NEW threads, NEW delayed, NEW own, NEW lob, NEW hold,
           WaitInv(q, threads, delayed, own, lob, hold),
           NEW c \in Clients, threads[c] # "gone",
           own[c] # None => lob[own[c]].client = c,
           \A y \in Members(q) : y.op = "auth" /\ hold[y.arg] # None => hold[y.arg] # own[c]
    PROVE  WaitInv(Append(q, Task("disconnected", c, None)), threads, delayed, own, lob, hold)
<1>1. PICK x \in Tasks : /\ x = Task("disconnected", c, None)
                         /\ x.op = "disconnected" /\ x.client = c /\ x.arg = None
    BY TaskIs, NoneIs
<1>2. own[c] # None => ~Spent(lob, own[c])
    BY DEF WaitInv
<1>. QED BY <1>1, <1>2, CalledWaits

LEMMA LostIsDropped ==
    ASSUME NEW n \in Nets, Counted(n.refs, n.alive), NEW c \in Clients, n.alive[c],
           owner[c] # None, FreedInv(n.freed)
    PROVE  FreedInv(Disconnect(n, c).freed)
<1>1. n.refs[c] = 2 + UseOf(c)
    BY DEF Counted
<1>2. Disconnect(n, c).freed = IF n.refs[c] \in {1, 2} THEN n.freed \cup {c} ELSE n.freed
    BY DisconnectIs
<1>3. n.refs[c] \in {1, 2} => Dropped(c)
    BY <1>1 DEF UseOf
<1>. QED BY <1>2, <1>3 DEF FreedInv

(* Threads, packets and timers                                             *)
LEMMA CalledFree ==
    ASSUME FreeInv, UNCHANGED <<owner, lobby, entries, holder>>,
           WaitInv(net.queue', thread', timers', owner, lobby, holder),
           AwaitInv(net.queue', net.alive', thread', owner),
           FreedInv(net.freed')
    PROVE  FreeInv'
<1>1. /\ Known' = Known /\ \A l \in Known : Current(l)' = Current(l) /\ IsBack(l)' = IsBack(l)
      /\ \A c : Dropped(c)' = Dropped(c)
    BY DEF Known, Current, IsBack, Dropped
<1>2. WholeInv' /\ DelayInv'
    BY <1>1 DEF FreeInv, WholeInv, DelayInv
<1>3. FreedInv(net.freed)'
    BY <1>1 DEF FreedInv
<1>. QED BY <1>2, <1>3 DEF FreeInv

LEMMA AcceptedIs ==
    ASSUME TypeInv, NEW c \in Clients
    PROVE  /\ Accepted(c).queue = net.queue /\ Accepted(c).freed = net.freed
           /\ Accepted(c).alive = [net.alive EXCEPT ![c] = TRUE]
<1> DEFINE n == [net EXCEPT !.alive[c] = TRUE]
           u == UseClient(n, c)
           v == [u EXCEPT !.listed = @ \cup {c}]
<1>1. net \in Nets /\ net.alive \in [Clients -> BOOLEAN]
    BY KnownAre
<1>2. /\ n \in Nets /\ n.alive = [net.alive EXCEPT ![c] = TRUE]
      /\ n.queue = net.queue /\ n.freed = net.freed
    BY <1>1 DEF Nets
<1> HIDE DEF n
<1>3. u \in Nets /\ u.alive = n.alive /\ u.queue = n.queue /\ u.freed = n.freed
    BY <1>2, UseClientIs
<1> HIDE DEF u
<1>4. v \in Nets /\ v.alive = u.alive /\ v.queue = u.queue /\ v.freed = u.freed
    BY <1>3 DEF Nets
<1>5. Accepted(c) = UseClient(v, c)
    BY DEF Accepted, AddClient, n, u
<1> HIDE DEF v
<1>6. /\ UseClient(v, c).queue = v.queue /\ UseClient(v, c).freed = v.freed
      /\ UseClient(v, c).alive = v.alive
    BY <1>4, UseClientIs
<1>. QED BY <1>2, <1>3, <1>4, <1>5, <1>6

(* Somebody who is alive and whose thread reads is no one's old connection.*)
LEMMA ReadingIs ==
    ASSUME Places, FreeInv, NEW c \in Clients, thread[c] # "gone"
    PROVE  /\ owner[c] # None => lobby[owner[c]].client = c /\ ~Spent(lobby, owner[c])
           /\ \A y \in Members(net.queue) :
                 y.op = "auth" /\ holder[y.arg] # None => holder[y.arg] # owner[c]
<1>1. owner[c] # None => lobby[owner[c]].client = c
    BY DEF Places, Queues, QueueInv
<1>2. owner[c] # None => ~Spent(lobby, owner[c])
    BY DEF FreeInv, WaitInv
<1>3. \A y \in Members(net.queue) :
         y.op = "auth" /\ holder[y.arg] # None => holder[y.arg] # owner[c]
    BY DEF Places, Queues, QueueInv, Finds
<1>. QED BY <1>1, <1>2, <1>3

LEMMA ThreadsFree ==
    ASSUME Orderly, Places, CountInv, FreeInv, ThreadsStep, Sound'
    PROVE  FreeInv'
<1> USE DEF Places
<1>1. PICK c \in Clients : ThreadStep(c)
    BY DEF ThreadsStep
<1>2. UNCHANGED <<owner, lobby, entries, holder>> /\ timers' = timers
    BY DEF ThreadsStep, lobbyVars
<1>3. /\ WaitInv(net.queue, thread, timers, owner, lobby, holder)
      /\ AwaitInv(net.queue, net.alive, thread, owner) /\ FreedInv(net.freed)
      /\ net \in Nets /\ net.queue \in Seq(Tasks)
      /\ net.alive \in [Clients -> BOOLEAN]
      /\ thread \in [Clients -> {"none", "started", "receiving", "gone"}]
    BY KnownAre DEF FreeInv
<1>4. SUFFICES /\ WaitInv(net.queue', thread', timers, owner, lobby, holder)
               /\ AwaitInv(net.queue', net.alive', thread', owner)
               /\ FreedInv(net.freed')
    BY <1>2, CalledFree
<1>5. CASE Accept(c)
    <2>1. /\ net'.queue = net.queue /\ net'.freed = net.freed
          /\ net'.alive = [net.alive EXCEPT ![c] = TRUE]
          /\ thread' = [thread EXCEPT ![c] = "started"] /\ thread[c] = "none"
        BY <1>5, AcceptedIs DEF Accept, Connects
    <2>2. owner[c] = None
        BY <2>1 DEF Queues, QueueInv
    <2>3. WaitInv(net.queue', thread', timers, owner, lobby, holder)
        <3>1. \A d \in Clients : owner[d] # None => thread'[d] = thread[d]
            BY <1>3, <2>1, <2>2
        <3>. QED BY <1>3, <2>1, <3>1 DEF WaitInv
    <2>4. AwaitInv(net.queue', net.alive', thread', owner)
        <3>1. net'.alive[c] /\ \A d \in Clients : d # c => /\ net'.alive[d] = net.alive[d]
                                                         /\ thread'[d] = thread[d]
            BY <1>3, <2>1
        <3>2. thread'[c] = "started"
            BY <1>3, <2>1
        <3>. QED BY <1>3, <2>1, <3>1, <3>2 DEF AwaitInv
    <2>. QED BY <1>3, <2>1, <2>3, <2>4
<1>6. CASE AcceptOverCapacity(c)
    BY <1>6 DEF AcceptOverCapacity, Sound
<1>7. CASE Announce(c)
    <2>1. PICK x \in Tasks : /\ x = Task("connected", c, None)
                             /\ x.op = "connected" /\ x.client = c /\ x.arg = None
        BY TaskIs, NoneIs
    <2>2. /\ net'.queue = Append(net.queue, x) /\ net'.freed = net.freed /\ net'.alive = net.alive
          /\ thread' = [thread EXCEPT ![c] = "receiving"] /\ thread[c] = "started"
        BY <1>3, <1>7, <2>1, CallIs DEF Announce
    <2>3. owner[c] = None
        BY <2>2 DEF Queues, QueueInv
    <2>4. WaitInv(Append(net.queue, x), thread, timers, owner, lobby, holder)
        BY <1>3, <2>1, <2>3, CalledWaits
    <2>5. WaitInv(net.queue', thread', timers, owner, lobby, holder)
        <3>1. \A d \in Clients : owner[d] # None => thread'[d] = thread[d]
            BY <1>3, <2>2, <2>3
        <3>. QED BY <2>2, <2>4, <3>1 DEF WaitInv
    <2>6. AwaitInv(net.queue', net.alive', thread', owner)
        <3>1. Members(net'.queue) = Members(net.queue) \cup {x}
            BY <1>3, <2>2, AppendOrder
        <3>2. net.alive[c]
            BY <1>3, <2>2, <2>3 DEF AwaitInv
        <3>. QED BY <1>3, <2>1, <2>2, <3>1, <3>2 DEF AwaitInv
    <2>. QED BY <1>3, <2>2, <2>5, <2>6
<1>8. CASE ReadFails(c) \/ WriteFails(c)
    <2>1. /\ thread[c] = "receiving" /\ ~Queued(c, {"connected"})
          /\ net' = Disconnect(net, c)
          /\ thread' = thread \/ thread' = [thread EXCEPT ![c] = "gone"]
        BY <1>3, <1>8 DEF ReadFails, WriteFails, Sound
    <2>2. owner[c] # None
        BY <1>3, <2>1, QueuedIs DEF AwaitInv
    <2>3. CASE ~net.alive[c]
        <3>1. net' = net
            BY <1>3, <2>1, <2>3, DisconnectIs
        <3>2. WaitInv(net.queue, thread', timers, owner, lobby, holder)
            BY <1>3, <2>1 DEF WaitInv
        <3>3. AwaitInv(net.queue, net.alive, thread', owner)
            BY <1>3, <2>1, <2>2 DEF AwaitInv
        <3>. QED BY <1>3, <3>1, <3>2, <3>3
    <2>4. CASE net.alive[c]
        <3>1. /\ net'.queue = Append(net.queue, Task("disconnected", c, None))
              /\ net'.alive = [net.alive EXCEPT ![c] = FALSE]
              /\ Members(net.queue) \subseteq Members(net'.queue)
            <4>1. PICK x \in Tasks : x = Task("disconnected", c, None)
                BY TaskIs, NoneIs
            <4>2. Members(Append(net.queue, x)) = Members(net.queue) \cup {x}
                BY <1>3, AppendOrder
            <4>3. /\ Disconnect(net, c).queue = Append(net.queue, Task("disconnected", c, None))
                  /\ Disconnect(net, c).alive = [net.alive EXCEPT ![c] = FALSE]
                BY <1>3, <2>4, DisconnectIs
            <4>. QED BY <2>1, <4>1, <4>2, <4>3
        <3>2. WaitInv(net'.queue, thread, timers, owner, lobby, holder)
            BY <1>3, <2>1, <3>1, ReadingIs, LostWaits
        <3>3. WaitInv(net'.queue, thread', timers, owner, lobby, holder)
            BY <1>3, <2>1, <3>2 DEF WaitInv
        <3>4. AwaitInv(net.queue', net.alive', thread', owner)
            BY <1>3, <2>1, <2>2, <3>1 DEF AwaitInv
        <3>5. FreedInv(net.freed')
            BY <1>3, <2>1, <2>2, <2>4, LostIsDropped DEF CountInv
        <3>. QED BY <3>3, <3>4, <3>5
    <2>. QED BY <2>3, <2>4
<1>. QED BY <1>1, <1>5, <1>6, <1>7, <1>8 DEF ThreadStep

LEMMA CallAwaits ==
    ASSUME NEW q \in Seq(Tasks), NEW alive, NEW threads, AwaitInv(q, alive, threads, owner),
           NEW x \in Tasks
    PROVE  AwaitInv(Append(q, x), alive, threads, owner)
<1>1. Members(Append(q, x)) = Members(q) \cup {x}
    BY AppendOrder
<1>. QED BY <1>1 DEF AwaitInv

LEMMA SendFree ==
    ASSUME Places, FreeInv, Send
    PROVE  FreeInv'
<1> USE DEF Places
<1>1. UNCHANGED <<owner, lobby, entries, holder, timers>>
    BY DEF Send, lobbyVars
<1>2. PICK c \in Clients, op \in Asking \cup {"enter", "leave"},
           arg \in Accounts \cup Tables \cup Nat : Receive(c, op, arg)
    <2>1. PICK c \in Clients : SendLogin(c) \/ SendToken(c) \/ SendEnter(c) \/ SendLeave(c)
        BY DEF Send
    <2>2. \A k \in DOMAIN tokens : k \in Nat
        BY TokensAre
    <2>. QED BY <2>1, <2>2 DEF SendLogin, SendToken, SendEnter, SendLeave, Asking
<1>3. PICK x \in Tasks : x = Task(op, c, arg) /\ x.op = op /\ x.client = c
    BY TaskIs
<1>4. net \in Nets /\ net.queue \in Seq(Tasks)
    BY KnownAre
<1>5. /\ net'.queue = Append(net.queue, x) /\ net'.alive = net.alive /\ net'.freed = net.freed
      /\ thread' = thread /\ thread[c] = "receiving"
    BY <1>2, <1>3, <1>4, CallIs DEF Receive
<1>6. /\ WaitInv(net.queue, thread, timers, owner, lobby, holder)
      /\ AwaitInv(net.queue, net.alive, thread, owner) /\ FreedInv(net.freed)
    BY DEF FreeInv
<1>7. x.op # "tolerated"
    BY <1>3 DEF Asking
<1>8. WaitInv(Append(net.queue, x), thread, timers, owner, lobby, holder)
    BY <1>3, <1>4, <1>5, <1>6, <1>7, ReadingIs, CalledWaits
<1>9. AwaitInv(Append(net.queue, x), net.alive, thread, owner)
    BY <1>4, <1>6, CallAwaits
<1>. QED BY <1>1, <1>5, <1>6, <1>8, <1>9, CalledFree

LEMMA TimersFree ==
    ASSUME Places, FreeInv, TimersDue
    PROVE  FreeInv'
<1> USE DEF Places
<1>1. PICK c \in Clients : TimerDue(c)
    BY DEF TimersDue
<1>2. /\ c \in timers /\ timers' = timers \ {c} /\ UNCHANGED <<owner, lobby, entries, holder>>
      /\ net' = Call(net, Task("tolerated", c, None)) /\ thread' = thread
    BY <1>1 DEF TimerDue
<1>3. PICK x \in Tasks : /\ x = Task("tolerated", c, None)
                         /\ x.op = "tolerated" /\ x.client = c /\ x.arg = None
    BY TaskIs, NoneIs
<1>4. net \in Nets /\ net.queue \in Seq(Tasks)
    BY KnownAre
<1>5. net'.queue = Append(net.queue, x) /\ net'.alive = net.alive /\ net'.freed = net.freed
    BY <1>2, <1>3, <1>4, CallIs
<1>6. /\ WaitInv(net.queue, thread, timers, owner, lobby, holder)
      /\ AwaitInv(net.queue, net.alive, thread, owner) /\ FreedInv(net.freed)
    BY DEF FreeInv
<1>7. owner[c] # None => ~Spent(lobby, owner[c]) /\ lobby[owner[c]].task = c
    BY <1>2, <1>6 DEF WaitInv
<1>8. WaitInv(Append(net.queue, x), thread, timers, owner, lobby, holder)
    BY <1>3, <1>4, <1>6, <1>7, CalledWaits
<1>9. WaitInv(Append(net.queue, x), thread, timers', owner, lobby, holder)
    BY <1>2, <1>8 DEF WaitInv
<1>10. AwaitInv(Append(net.queue, x), net.alive, thread, owner)
    BY <1>4, <1>6, CallAwaits
<1>. QED BY <1>2, <1>5, <1>6, <1>9, <1>10, CalledFree

-----------------------------------------------------------------------------
(* Handlers                                                                *)

LEMMA PoppedWaits ==
    ASSUME Places, FreeInv, net.queue # << >>
    PROVE  /\ WaitInv(Popped.queue, thread, timers, owner, lobby, holder)
           /\ \A c \in Clients : thread[c] # "none" /\ owner[c] = None =>
                 /\ net.alive[c]
                 /\ thread[c] # "started" => 
                       \/ First.op = "connected" /\ c = Client
                       \/ \E x \in Members(Popped.queue) : x.client = c /\ x.op = "connected"
           /\ \A y \in Members(Popped.queue) :
                 First.op = "auth" /\ holder[First.arg] # None /\ owner[y.client] = holder[First.arg]
                    => y.op = "tolerated"
           /\ Popped.queue \in Seq(Tasks)
<1> USE DEF Places
<1>1. net \in Nets /\ net.queue \in Seq(Tasks) /\ Popped.queue = Tail(net.queue)
    BY KnownAre, PoppedIs
<1>2. /\ Tail(net.queue) \in Seq(Tasks)
      /\ Members(net.queue) = Members(Tail(net.queue)) \cup {First}
      /\ \A y \in Members(Tail(net.queue)) : Precedes(net.queue, First, y)
      /\ \A x, y : Precedes(Tail(net.queue), x, y) => Precedes(net.queue, x, y)
    BY <1>1, TailOrder DEF First
<1>3. /\ WaitInv(net.queue, thread, timers, owner, lobby, holder)
      /\ AwaitInv(net.queue, net.alive, thread, owner)
    BY DEF FreeInv
<1>4. WaitInv(Popped.queue, thread, timers, owner, lobby, holder)
    BY <1>1, <1>2, <1>3, FewerWait
<1>5. \A y \in Members(Popped.queue) :
         First.op = "auth" /\ holder[First.arg] # None /\ owner[y.client] = holder[First.arg]
            => y.op = "tolerated"
    BY <1>1, <1>2, <1>3 DEF WaitInv
<1>6. \A c \in Clients : thread[c] # "none" /\ owner[c] = None =>
         /\ net.alive[c]
         /\ thread[c] # "started" => 
               \/ First.op = "connected" /\ c = Client
               \/ \E x \in Members(Popped.queue) : x.client = c /\ x.op = "connected"
    <2>1. ASSUME NEW c \in Clients, thread[c] # "none", owner[c] = None, thread[c] # "started"
          PROVE  \/ First.op = "connected" /\ c = Client
                 \/ \E x \in Members(Popped.queue) : x.client = c /\ x.op = "connected"
        <3>1. PICK x \in Members(net.queue) : x.client = c /\ x.op = "connected"
            BY <1>3, <2>1 DEF AwaitInv
        <3>. QED BY <1>1, <1>2, <3>1 DEF Client
    <2>. QED BY <1>3, <2>1 DEF AwaitInv
<1>. QED BY <1>1, <1>2, <1>4, <1>5, <1>6

LEMMA AnsweredWaits ==
    ASSUME Places, CountInv, FreeInv, net.queue # << >>, First.op # "connected",
           owner[Client] # None, NEW ok \in BOOLEAN
    PROVE  LET n == Answered(ok)
           IN  /\ WaitInv(n.queue, thread, timers, owner, lobby, holder)
               /\ AwaitInv(n.queue, n.alive, thread, owner)
               /\ FreedInv(n.freed)
               /\ n.queue \in Seq(Tasks)
               /\ \A x \in Members(n.queue) : x.op = "auth" => x \in Members(net.queue)
<1> USE DEF Places
<1>1. PICK n \in Nets : n = Popped
    BY PoppedIs
<1>2. /\ n.alive = net.alive /\ n.refs = net.refs /\ n.freed = net.freed
      /\ \A y \in Members(n.queue) : y \in Members(net.queue)
      /\ thread[Client] \notin {"none", "started"}
    BY <1>1, PoppedIs
<1>3. PICK c \in Clients : c = Client
    BY PoppedIs
<1>4. /\ WaitInv(n.queue, thread, timers, owner, lobby, holder)
      /\ AwaitInv(n.queue, n.alive, thread, owner)
      /\ n.queue \in Seq(Tasks)
    BY <1>1, <1>2, PoppedWaits DEF AwaitInv
<1>5. FreedInv(n.freed) /\ Counted(n.refs, n.alive)
    BY <1>2 DEF FreeInv, CountInv
<1>6. CASE ok \/ ~n.alive[c]
    <2>1. Answered(ok) = n
        BY <1>1, <1>3, <1>6, DisconnectIs DEF Answered
    <2>. QED BY <1>2, <1>4, <1>5, <2>1
<1>7. CASE ~ok /\ n.alive[c]
    <2>1. PICK m : m = Answered(ok) /\ m = Disconnect(n, c)
        BY <1>1, <1>3, <1>7 DEF Answered
    <2>2. /\ m.queue = Append(n.queue, Task("disconnected", c, None))
          /\ m.alive = [n.alive EXCEPT ![c] = FALSE]
        <3>1. /\ Disconnect(n, c).queue = Append(n.queue, Task("disconnected", c, None))
              /\ Disconnect(n, c).alive = [n.alive EXCEPT ![c] = FALSE]
            BY <1>7, DisconnectIs
        <3>. QED BY <2>1, <3>1
    <2>3. PICK x \in Tasks : x = Task("disconnected", c, None) /\ x.op = "disconnected"
        <3>1. Task("disconnected", c, None) \in Tasks
            BY TaskIs, NoneIs
        <3>2. Task("disconnected", c, None).op = "disconnected"
            BY DEF Task
        <3>. QED BY <3>1, <3>2
    <2>4. /\ Members(m.queue) = Members(n.queue) \cup {x} /\ m.queue \in Seq(Tasks)
        BY <1>4, <2>2, <2>3, AppendOrder
    <2>5. thread[c] # "gone"
        BY <1>2, <1>7 DEF Queues, QueueInv
    <2>6. WaitInv(m.queue, thread, timers, owner, lobby, holder)
        BY <1>2, <1>4, <2>2, <2>5, ReadingIs, LostWaits
    <2>7. AwaitInv(m.queue, m.alive, thread, owner)
        <3>1. \A d \in Clients : d # c => m.alive[d] = n.alive[d]
            BY <2>2 DEF Nets
        <3>. QED BY <1>3, <1>4, <2>4, <3>1 DEF AwaitInv
    <2>8. FreedInv(m.freed)
        BY <1>3, <1>5, <1>7, <2>1, LostIsDropped
    <2>. QED BY <1>2, <2>1, <2>3, <2>4, <2>6, <2>7, <2>8
<1>. QED BY <1>6, <1>7

(* A handler that leaves who owns whom and frees nobody.                   *)
LEMMA SettledWaits ==
    ASSUME Places, CountInv, FreeInv, net.queue # << >>, First.op # "connected",
           owner[Client] # None, UNCHANGED <<owner, thread, timers>>,
           \E ok \in BOOLEAN : net' = Answered(ok),
           \A m \in Clients : /\ lobby'[m].client = lobby[m].client
                              /\ lobby'[m].task = lobby[m].task
                              /\ Spent(lobby', m) <=> Spent(lobby, m),
           \A x \in Members(net.queue) : x.op = "auth" => holder'[x.arg] \in {holder[x.arg], None}
    PROVE  /\ WaitInv(net.queue, thread, timers, owner, lobby, holder)'
           /\ AwaitInv(net.queue, net.alive, thread, owner)'
           /\ FreedInv(net.freed)'
<1> USE DEF Places
<1>1. PICK n : /\ n = net'
               /\ WaitInv(n.queue, thread, timers, owner, lobby, holder)
               /\ AwaitInv(n.queue, n.alive, thread, owner)
               /\ FreedInv(n.freed)
               /\ n.queue \in Seq(Tasks)
               /\ \A x \in Members(n.queue) : x.op = "auth" => x \in Members(net.queue)
    BY AnsweredWaits
<1>2. owner \in [Clients -> Clients \cup {None}] /\ timers \in SUBSET Clients
    BY DEF TypeInv
<1>3. PICK lob2, hold2 : lob2 = lobby' /\ hold2 = holder'
    OBVIOUS
<1>4. \A x \in Members(n.queue) : x.op = "auth" => hold2[x.arg] \in {holder[x.arg], None}
    BY <1>1, <1>3
<1>5. WaitInv(n.queue, thread, timers, owner, lob2, hold2)
    BY <1>1, <1>2, <1>3, <1>4, StillWaits
<1>6. WaitInv(net.queue, thread, timers, owner, lobby, holder)'
    BY <1>1, <1>3, <1>5 DEF WaitInv, Spent
<1>7. AwaitInv(net.queue, net.alive, thread, owner)'
    BY <1>1 DEF AwaitInv
<1>8. FreedInv(net.freed)'
    <2>1. \A c \in Clients : owner[c] # None => owner[c] \in Clients /\ lobby[owner[c]].client # None
        BY <1>2 DEF OwnersInv
    <2>2. ASSUME NEW c \in Clients, Dropped(c) PROVE Dropped(c)'
        <3>1. Spent(lobby', owner[c])
            BY <2>1, <2>2 DEF Spent, Dropped
        <3>. QED BY <2>1, <2>2, <3>1 DEF Spent, Dropped
    <2>3. n.freed \subseteq Clients
        <3>1. \A ok \in BOOLEAN : Answered(ok) \in Nets
            BY AnsweredIs
        <3>. QED BY <1>1, <3>1 DEF Nets
    <2>. QED BY <1>1, <2>2, <2>3 DEF FreedInv
<1>. QED BY <1>6, <1>7, <1>8

LEMMA HomesStay ==
    ASSUME TypeInv, FreeInv, UNCHANGED <<owner, entries>>,
           \A m \in Clients : /\ lobby'[m].client = lobby[m].client
                              /\ lobby'[m].task = lobby[m].task
                              /\ lobby'[m].refs = lobby[m].refs
                              /\ IsBack(m)' = IsBack(m)
    PROVE  WholeInv' /\ DelayInv'
<1>1. Known' = Known /\ \A l \in Known : l \in Clients /\ Current(l)' = Current(l)
    BY DEF Known, Current
<1>. QED BY <1>1 DEF FreeInv, WholeInv, DelayInv

LEMMA AuthArgs ==
    ASSUME Places, NEW x \in Members(net.queue), x.op = "auth"
    PROVE  x.arg \in 1 .. Len(tokens) /\ x.arg \in DOMAIN holder
BY TokensAre, MembershipAssumption DEF Places, Queues, QueueInv, Finds

LEMMA PoppedIsAnswered ==
    ASSUME net' = Popped
    PROVE  \E ok \in BOOLEAN : net' = Answered(ok)
BY DEF Answered

LEMMA QuietFree ==
    ASSUME Places, CountInv, FreeInv, Login \/ AuthAnswered \/ AuthRefused \/ ToleratedReturns
    PROVE  FreeInv'
<1> USE DEF Places
<1>1. /\ net.queue # << >> /\ First.op # "connected" /\ ~Unreachable
      /\ UNCHANGED <<thread, owner, entries, timers>>
    BY BeginIs DEF Login, AuthAnswered, AuthRefused, ToleratedReturns, Handling, lobbyVars
<1>2. owner[Client] # None
    BY <1>1 DEF Unreachable, Owner
<1>3. \E ok \in BOOLEAN : net' = Answered(ok)
    BY PoppedIsAnswered DEF Login, AuthAnswered, AuthRefused, ToleratedReturns
<1>4. \A m \in Clients : /\ lobby'[m].client = lobby[m].client
                         /\ lobby'[m].task = lobby[m].task
                         /\ lobby'[m].refs = lobby[m].refs
                         /\ IsBack(m)' = IsBack(m)
    <2>1. \A m \in Clients : lobby[m] \in LobbyClients
        BY DEF TypeInv
    <2>2. CASE UNCHANGED lobby
        BY <2>2 DEF IsBack
    <2>3. CASE Login
        BY <2>1, <2>3 DEF Login, TypeInv, LobbyClients, IsBack
    <2>4. CASE AuthRefused
        BY <2>1, <2>4 DEF AuthRefused, TypeInv, LobbyClients, IsBack
    <2>. QED BY <2>2, <2>3, <2>4 DEF AuthAnswered, ToleratedReturns, lobbyVars
<1>5. \A x \in Members(net.queue) : x.op = "auth" => holder'[x.arg] \in {holder[x.arg], None}
    <2>1. CASE UNCHANGED holder
        BY <2>1
    <2>2. CASE Login
        <3>1. holder' = holder \/ holder' = [holder EXCEPT ![Len(tokens) + 1] = Owner]
            BY <2>2 DEF Login
        <3>2. ASSUME NEW x \in Members(net.queue), x.op = "auth"
              PROVE  holder'[x.arg] = holder[x.arg]
            <4>1. x.arg \in DOMAIN holder /\ x.arg # Len(tokens) + 1
                BY <3>2, AuthArgs, TokensAre
            <4>. QED BY <3>1, <4>1 DEF TypeInv
        <3>. QED BY <3>2
    <2>. QED BY <2>1, <2>2 DEF AuthAnswered, AuthRefused, ToleratedReturns, lobbyVars
<1>6. \A m \in Clients : Spent(lobby', m) <=> Spent(lobby, m)
    BY <1>4 DEF Spent
<1>7. WholeInv' /\ DelayInv'
    BY <1>1, <1>4, HomesStay
<1>. QED BY <1>1, <1>2, <1>3, <1>4, <1>5, <1>6, <1>7, SettledWaits DEF FreeInv

LEMMA EnterFree ==
    ASSUME Places, CountInv, FreeInv, Enter
    PROVE  FreeInv'
<1> USE DEF Places
<1>1. /\ net.queue # << >> /\ First.op # "connected" /\ ~Unreachable
      /\ UNCHANGED <<thread, owner, holder, timers>>
      /\ \E ok \in BOOLEAN : net' = Answered(ok)
    BY EnterIs, PoppedIsAnswered
<1>2. owner[Client] # None
    BY <1>1 DEF Unreachable, Owner
<1>3. PICK l \in Clients :
         /\ l \in Known /\ Current(l) /\ lobby[l].refs \in Nat \ {0}
         /\ \/ UNCHANGED <<entries, lobby>>
            \/ /\ Cardinality(entries'[l]) = Cardinality(entries[l]) + 1
               /\ lobby'[l] = [lobby[l] EXCEPT !.refs = @ + 1]
               /\ \A m \in Clients : m # l => lobby'[m] = lobby[m] /\ entries'[m] = entries[m]
    BY EnterIs
<1>4. CASE UNCHANGED <<entries, lobby>>
    <2>1. WholeInv' /\ DelayInv'
        BY <1>1, <1>4, HomesStay DEF IsBack
    <2>. QED BY <1>1, <1>2, <1>4, <2>1, SettledWaits DEF FreeInv, Spent
<1>5. CASE ~UNCHANGED <<entries, lobby>>
    <2>1. /\ lobby'[l].refs = lobby[l].refs + 1
          /\ \A m \in Clients : /\ lobby'[m].client = lobby[m].client
                                /\ lobby'[m].task = lobby[m].task
                                /\ IsBack(m)' = IsBack(m)
        <3>1. lobby[l] \in LobbyClients
            BY DEF TypeInv
        <3>2. /\ lobby'[l].refs = lobby[l].refs + 1 /\ lobby'[l].client = lobby[l].client
              /\ lobby'[l].task = lobby[l].task /\ IsBack(l)' = IsBack(l)
            BY <1>3, <1>5, <3>1 DEF LobbyClients, IsBack
        <3>3. \A m \in Clients : m # l => IsBack(m)' = IsBack(m)
            BY <1>3, <1>5 DEF IsBack
        <3>. QED BY <1>3, <1>5, <3>2, <3>3
    <2>2. \A m \in Clients : Spent(lobby', m) <=> Spent(lobby, m)
        <3>1. lobby[l].refs # 0 /\ lobby'[l].refs # 0
            BY <1>3, <2>1
        <3>2. \A m \in Clients : m # l => lobby'[m] = lobby[m]
            BY <1>3, <1>5
        <3>. QED BY <3>1, <3>2 DEF Spent
    <2>3. Known' = Known /\ \A m \in Known : m \in Clients /\ Current(m)' = Current(m)
        BY <1>1, <2>1 DEF Known, Current
    <2>4. WholeInv'
        <3>1. lobby[l].refs = 1 + Cardinality(entries[l])
            BY <1>3 DEF FreeInv, WholeInv
        <3>2. Cardinality(entries[l]) \in Nat
            BY RefsAre DEF CountInv
        <3>3. lobby'[l].refs # 0 /\ lobby'[l].refs = 1 + Cardinality(entries'[l])
            BY <1>3, <1>5, <2>1, <3>1, <3>2
        <3>4. \A m \in Known : m # l => lobby'[m] = lobby[m] /\ entries'[m] = entries[m]
            BY <1>3, <1>5, <2>3
        <3>. QED BY <2>3, <3>3, <3>4 DEF FreeInv, WholeInv
    <2>5. DelayInv'
        <3>1. \A m \in Known : lobby'[m].refs = 0 <=> lobby[m].refs = 0
            BY <2>2, <2>3 DEF Spent, Known
        <3>. QED BY <2>1, <2>3, <3>1 DEF FreeInv, DelayInv
    <2>. QED BY <1>1, <1>2, <2>1, <2>2, <2>4, <2>5, SettledWaits DEF FreeInv
<1>. QED BY <1>4, <1>5

LEMMA LeaveTableFree ==
    ASSUME Places, CountInv, FreeInv, LeaveTable
    PROVE  FreeInv'
<1> USE DEF Places
<1>1. /\ net.queue # << >> /\ First.op = "leave" /\ ~Unreachable /\ net' = FreeUnused
      /\ UNCHANGED <<thread, owner, holder, timers>>
      /\ \A m \in Clients : /\ lobby'[m].client = lobby[m].client
                            /\ lobby'[m].task = lobby[m].task
                            /\ IsBack(m)' = IsBack(m)
                            /\ lobby'[m].refs = RefsAfter(m)
    BY LeaveTableIs
<1>2. PICK l \in Clients :
         /\ l = Owner /\ l \in Known /\ Current(l) /\ lobby[l].refs # 0 /\ Leaving
         /\ entries' = [entries EXCEPT ![l] = @ \ Left]
    BY LeaveTableIs
<1>3. owner[Client] # None
    BY <1>1 DEF Unreachable, Owner
<1>4. /\ \A m \in Clients : m # l => lobby'[m].refs = lobby[m].refs /\ entries'[m] = entries[m]
      /\ entries'[l] = entries[l] \ Left
      /\ lobby'[l].refs = lobby[l].refs - Cardinality(Left)
    <2>1. Cardinality(Left) \in Nat /\ \A m \in Clients : lobby[m].refs \in Int
        BY <1>2, UsesAre
    <2>2. RefsAfter(l) = lobby[l].refs - Cardinality(Left) - 0
        BY <1>1, <1>2, UsesAre
    <2>3. \A m \in Clients : m # l => RefsAfter(m) = lobby[m].refs
        BY <1>2, UsesAre
    <2>. QED BY <1>1, <1>2, <2>1, <2>2, <2>3 DEF TypeInv
<1>5. lobby'[l].refs # 0 /\ lobby'[l].refs = 1 + Cardinality(entries'[l])
    <2>1. PICK S \in SUBSET Tables : S = entries[l]
        BY DEF TypeInv
    <2>2. PICK T \in SUBSET S : T = Left
        BY <1>2, <2>1 DEF Leaving
    <2>3. /\ Cardinality(S \ T) = Cardinality(S) - Cardinality(T)
          /\ Cardinality(S) \in Nat /\ Cardinality(T) \in Nat
        BY EntriesAre
    <2>4. Cardinality(S \ T) \in Nat
        <3>1. S \ T \in SUBSET Tables
            OBVIOUS
        <3>. QED BY <3>1, EntriesAre
    <2>5. lobby[l].refs = 1 + Cardinality(S)
        BY <1>2, <2>1 DEF FreeInv, WholeInv
    <2>. QED BY <1>4, <2>1, <2>2, <2>3, <2>4, <2>5
<1>6. net' = Popped
    <2>1. l \notin Unused
        BY <1>1, <1>5 DEF Unused
    <2>2. Unused = {}
        BY <1>2, <2>1, UsesAre
    <2>. QED BY <1>1, <1>2, <2>2, FreedIs
<1>7. Known' = Known /\ \A m \in Known : m \in Clients /\ Current(m)' = Current(m)
    BY <1>1 DEF Known, Current
<1>8. \A m \in Clients : lobby'[m].refs = 0 <=> lobby[m].refs = 0
    BY <1>2, <1>4, <1>5
<1>9. \A m \in Clients : Spent(lobby', m) <=> Spent(lobby, m)
    BY <1>1, <1>8 DEF Spent
<1>10. WholeInv'
    BY <1>4, <1>5, <1>7 DEF FreeInv, WholeInv
<1>11. DelayInv'
    BY <1>1, <1>7, <1>8 DEF FreeInv, DelayInv
<1>. QED BY <1>1, <1>3, <1>6, <1>9, <1>10, <1>11, PoppedIsAnswered, SettledWaits DEF FreeInv

LEMMA DisconnectedFree ==
    ASSUME Places, CountInv, FreeInv, Disconnected
    PROVE  FreeInv'
<1> USE DEF Places
<1>1. /\ net.queue # << >> /\ First.op = "disconnected" /\ ~Unreachable
      /\ UNCHANGED <<thread, owner, entries, holder>>
      /\ net'.alive = net.alive /\ net'.freed = net.freed
      /\ \A x, y : Precedes(net'.queue, x, y) => Precedes(Popped.queue, x, y)
    BY DisconnectedIs
<1>2. PICK c \in Clients, l \in Clients :
         /\ c = Client /\ l = Owner /\ l \in Known /\ Current(l) /\ owner[c] = l
         /\ lobby[l].client = c
         /\ timers' = (timers \ {lobby[l].task}) \cup {c}
         /\ Members(net'.queue) = Members(Popped.queue) \ {Task("tolerated", lobby[l].task, None)}
         /\ \A m \in Clients : m # l => lobby'[m] = lobby[m]
         /\ lobby'[l] = [lobby[l] EXCEPT !.tolerant = TRUE, !.connected = FALSE, !.task = c]
    BY DisconnectedIs
<1>3. lobby[l].refs # 0
    BY <1>1, <1>2, OwnerIs
<1>4. /\ \A m \in Clients : /\ lobby'[m].client = lobby[m].client
                            /\ lobby'[m].refs = lobby[m].refs
                            /\ m # l => lobby'[m].task = lobby[m].task /\ IsBack(m)' = IsBack(m)
      /\ lobby'[l].task = c
    <2>1. lobby[l] \in LobbyClients
        BY DEF TypeInv
    <2>2. /\ lobby'[l].client = lobby[l].client /\ lobby'[l].refs = lobby[l].refs
          /\ lobby'[l].task = c
        BY <1>2, <2>1 DEF LobbyClients
    <2>. QED BY <1>2, <2>2 DEF IsBack
<1>5. /\ Known' = Known /\ \A m \in Known : m \in Clients /\ Current(m)' = Current(m)
      /\ \A d : owner[d] \in Clients => Dropped(d)' = Dropped(d)
    BY <1>1, <1>4 DEF Known, Current, Dropped
<1>6. /\ WaitInv(Popped.queue, thread, timers, owner, lobby, holder)
      /\ \A x \in Members(Popped.queue) : x \in Tasks /\ x.client \in Clients
    <2>1. \A x \in Members(Popped.queue) : x \in Members(net.queue)
        BY <1>1, PoppedIs
    <2>. QED BY <1>1, <2>1, PoppedWaits, KnownAre
<1>7. \A d \in Clients : owner[d] # None => owner[d] \in Clients
    BY DEF TypeInv
<1>8. \A m \in Clients : Spent(lobby', m) <=> Spent(lobby, m)
    BY <1>4 DEF Spent
<1>9. l # None /\ ~Spent(lobby, l) /\ \A d \in timers : d \in Clients
    BY <1>2, <1>3, NoneIs, KnownAre DEF Spent
<1>10. WaitInv(net.queue, thread, timers, owner, lobby, holder)'
    <2>1. ASSUME NEW x \in Members(net'.queue), owner[x.client] # None
          PROVE  /\ ~Spent(lobby', owner[x.client])
                 /\ lobby'[owner[x.client]].client # x.client => x.op = "tolerated"
                 /\ x.op = "tolerated" => lobby'[owner[x.client]].task = x.client
        <3>1. x \in Members(Popped.queue) /\ x \in Tasks /\ x.client \in Clients
              /\ x # Task("tolerated", lobby[l].task, None)
            BY <1>2, <1>6, <2>1
        <3>2. /\ ~Spent(lobby', owner[x.client])
              /\ lobby'[owner[x.client]].client # x.client => x.op = "tolerated"
            BY <1>4, <1>6, <1>7, <1>8, <2>1, <3>1 DEF WaitInv
        <3>3. CASE owner[x.client] = l /\ x.op = "tolerated"
            <4>1. lobby[l].task = x.client /\ x.arg = None
                BY <1>6, <2>1, <3>1, <3>3 DEF WaitInv
            <4>2. x = Task("tolerated", lobby[l].task, None)
                BY <3>1, <3>3, <4>1 DEF Tasks, Task
            <4>. QED BY <3>1, <4>2
        <3>4. CASE owner[x.client] # l
            BY <1>4, <1>6, <1>7, <2>1, <3>1, <3>2, <3>4 DEF WaitInv
        <3>. QED BY <3>2, <3>3, <3>4
    <2>2. \A x \in Members(net'.queue) : x.op = "tolerated" => x.arg = None
        BY <1>2, <1>6 DEF WaitInv
    <2>3. ASSUME NEW d \in timers', owner[d] # None
          PROVE  ~Spent(lobby', owner[d]) /\ lobby'[owner[d]].task = d
        <3>1. CASE d = c
            BY <1>2, <1>4, <1>8, <1>9, <3>1
        <3>2. CASE d # c
            <4>1. d \in timers /\ d # lobby[l].task /\ d \in Clients
                BY <1>2, <1>9, <3>2
            <4>2. ~Spent(lobby, owner[d]) /\ lobby[owner[d]].task = d
                BY <1>6, <2>3, <4>1 DEF WaitInv
            <4>. QED BY <1>4, <1>7, <1>8, <2>3, <4>1, <4>2
        <3>. QED BY <3>1, <3>2
    <2>4. \A d \in Clients : owner[d] # None /\ Spent(lobby', owner[d]) => thread[d] = "gone"
        BY <1>6, <1>7, <1>8 DEF WaitInv
    <2>5. \A x, y \in Members(net'.queue) :
             Precedes(net'.queue, x, y) /\ x.op = "auth" /\ holder[x.arg] # None
                /\ owner[y.client] = holder[x.arg] => y.op = "tolerated"
        BY <1>1, <1>2, <1>6 DEF WaitInv
    <2>6. PICK q, lob, delayed : q = net'.queue /\ lob = lobby' /\ delayed = timers'
        OBVIOUS
    <2>7. WaitInv(q, thread, delayed, owner, lob, holder)
        BY <2>1, <2>2, <2>3, <2>4, <2>5, <2>6 DEF WaitInv
    <2>. QED BY <1>1, <2>6, <2>7 DEF WaitInv, Spent
<1>11. AwaitInv(net.queue, net.alive, thread, owner)'
    <2>1. \A d \in Clients : thread[d] # "none" /\ owner[d] = None =>
             /\ net.alive[d]
             /\ thread[d] # "started" =>
                   \E x \in Members(Popped.queue) : x.client = d /\ x.op = "connected"
        BY <1>1, PoppedWaits
    <2>2. \A x \in Members(Popped.queue) : x.op = "connected" => x \in Members(net'.queue)
        BY <1>2 DEF Task
    <2>. QED BY <1>1, <2>1, <2>2 DEF AwaitInv
<1>12. FreedInv(net.freed)'
    <2>1. \A d \in net.freed : owner[d] \in Clients
        BY <1>7 DEF FreeInv, FreedInv, Dropped, TypeInv, Nets
    <2>. QED BY <1>1, <1>5, <2>1 DEF FreeInv, FreedInv
<1>13. WholeInv'
    BY <1>1, <1>4, <1>5 DEF FreeInv, WholeInv
<1>14. DelayInv'
    BY <1>2, <1>4, <1>5 DEF FreeInv, DelayInv
<1>. QED BY <1>10, <1>11, <1>12, <1>13, <1>14 DEF FreeInv

LEMMA ConnectedFree ==
    ASSUME Places, CountInv, FreeInv, Connected
    PROVE  FreeInv'
<1> USE DEF Places
<1>1. /\ net.queue # << >> /\ First.op = "connected"
      /\ UNCHANGED <<thread, entries, members, holder, tokens, timers>>
      /\ net'.queue = Popped.queue /\ net'.alive = net.alive /\ net'.freed = net.freed
    BY ConnectedIs
<1>2. PICK c \in Clients :
         /\ c = Client /\ c # None /\ c \notin net.freed
         /\ owner[c] = None /\ lobby[c] = NewLobbyClient /\ entries[c] = {}
         /\ lobby'[c].client = c /\ lobby'[c].refs = 1 /\ IsBack(c)' /\ Current(c)'
         /\ \A m \in Clients : m # c => lobby'[m] = lobby[m]
         /\ owner'[c] = c /\ \A d \in Clients : d # c => owner'[d] = owner[d]
         /\ \A d \in Clients : d # c /\ owner[d] # None => owner[d] # c /\ owner[d] \in Clients
         /\ Known' = Known \cup {c} /\ c \notin Known
         /\ \A m \in Known : /\ m \in Clients /\ Current(m)' = Current(m)
                             /\ IsBack(m)' = IsBack(m)
    BY ConnectedIs
<1>3. /\ WaitInv(Popped.queue, thread, timers, owner, lobby, holder)
      /\ \A d \in Clients : thread[d] # "none" /\ owner[d] = None =>
            /\ net.alive[d]
            /\ thread[d] # "started" =>
                  \/ First.op = "connected" /\ d = Client
                  \/ \E x \in Members(Popped.queue) : x.client = d /\ x.op = "connected"
    BY <1>1, PoppedWaits
<1>4. \A x \in Members(Popped.queue) :
         /\ x \in Members(net.queue) /\ x.client \in Clients
         /\ x.client = c => x.op # "tolerated"
    BY <1>1, <1>2, PoppedIs DEF Before, Client
<1>5. c \notin timers /\ \A d \in timers : d \in Clients
    <2>1. First \in Members(net.queue) /\ First.client = c
        BY <1>1, <1>2, PoppedIs DEF Client
    <2>. QED BY <1>1, <2>1, KnownAre DEF Queues, QueueInv
<1>6. \A x \in Members(Popped.queue) : x.op = "auth" => holder[x.arg] # c
    <2>1. lobby[c].account = None
        BY <1>2 DEF NewLobbyClient
    <2>. QED BY <1>2, <1>4, <2>1, AuthArgs DEF HolderInv
<1>7. PICK q, own, lob : q = net'.queue /\ own = owner' /\ lob = lobby'
    OBVIOUS
<1>8. ~Spent(lob, c) /\ lob[c].client = c /\ own[c] = c
    BY <1>2, <1>7 DEF Spent
<1>9. \A d \in Clients : d # c =>
         /\ own[d] = owner[d] /\ lob[d] = lobby[d]
         /\ own[d] # None => own[d] \in Clients /\ own[d] # c /\ lob[own[d]] = lobby[own[d]]
                             /\ (Spent(lob, own[d]) <=> Spent(lobby, own[d]))
    BY <1>2, <1>7 DEF Spent
<1>10. WaitInv(q, thread, timers, own, lob, holder)
    <2>1. ASSUME NEW x \in Members(q), own[x.client] # None
          PROVE  /\ ~Spent(lob, own[x.client])
                 /\ lob[own[x.client]].client # x.client => x.op = "tolerated"
                 /\ x.op = "tolerated" => lob[own[x.client]].task = x.client
        <3>1. x \in Members(Popped.queue) /\ x.client \in Clients
            BY <1>1, <1>4, <1>7, <2>1
        <3>2. CASE x.client = c
            BY <1>4, <1>8, <3>1, <3>2
        <3>3. CASE x.client # c
            BY <1>3, <1>9, <2>1, <3>1, <3>3 DEF WaitInv
        <3>. QED BY <3>2, <3>3
    <2>2. \A x \in Members(q) : x.op = "tolerated" => x.arg = None
        BY <1>1, <1>3, <1>7 DEF WaitInv
    <2>3. \A d \in timers : own[d] # None => ~Spent(lob, own[d]) /\ lob[own[d]].task = d
        BY <1>3, <1>5, <1>9 DEF WaitInv
    <2>4. \A d \in Clients : own[d] # None /\ Spent(lob, own[d]) => thread[d] = "gone"
        BY <1>3, <1>8, <1>9 DEF WaitInv
    <2>5. ASSUME NEW x \in Members(q), NEW y \in Members(q), Precedes(q, x, y), x.op = "auth",
                 holder[x.arg] # None, own[y.client] = holder[x.arg]
          PROVE  y.op = "tolerated"
        <3>1. y.client # c /\ y.client \in Clients
            BY <1>1, <1>4, <1>6, <1>7, <1>8, <2>5
        <3>. QED BY <1>1, <1>3, <1>7, <1>9, <2>5, <3>1 DEF WaitInv
    <2>. QED BY <2>1, <2>2, <2>3, <2>4, <2>5 DEF WaitInv
<1>11. WaitInv(net.queue, thread, timers, owner, lobby, holder)'
    BY <1>1, <1>7, <1>10 DEF WaitInv, Spent
<1>12. AwaitInv(net.queue, net.alive, thread, owner)'
    BY <1>1, <1>2, <1>3 DEF AwaitInv
<1>13. FreedInv(net.freed)'
    <2>1. \A d \in net.freed : Dropped(d) /\ d # c /\ d \in Clients
        BY <1>2, KnownAre DEF FreeInv, FreedInv, Nets
    <2>2. \A d \in Clients : d # c => Dropped(d)' = Dropped(d)
        BY <1>2 DEF Dropped
    <2>. QED BY <1>1, <2>1, <2>2 DEF FreedInv
<1>14. WholeInv'
    <2>1. Cardinality(entries'[c]) = 0
        BY <1>1, <1>2, FS_EmptySet
    <2>2. \A m \in Known : lobby'[m] = lobby[m] /\ entries'[m] = entries[m]
        BY <1>1, <1>2
    <2>. QED BY <1>2, <2>1, <2>2 DEF FreeInv, WholeInv
<1>15. DelayInv'
    BY <1>2 DEF FreeInv, DelayInv
<1>. QED BY <1>11, <1>12, <1>13, <1>14, <1>15 DEF FreeInv

LEMMA ReviveFree ==
    ASSUME Places, CountInv, FreeInv, Revive
    PROVE  FreeInv'
<1> USE DEF Places
<1>1. /\ net.queue # << >> /\ First.op = "auth" /\ First.op \in Asking /\ ~Unreachable
      /\ UNCHANGED <<thread, holder, timers>>
    BY ReviveIs DEF Asking
<1>2. PICK c, r \in Clients, k \in 1 .. Len(tokens), ok \in BOOLEAN : Revives(c, r, k, ok)
    BY ReviveIs
<1>3. /\ c = Client /\ owner[c] = c /\ c \in Known /\ c # None /\ lobby[c].client = c
      /\ lobby[c].refs = 1 /\ k = First.arg /\ k \in DOMAIN holder
      /\ r = holder[k] /\ r # None /\ r # c /\ r \in Known /\ Current(r) /\ lobby[r].refs # 0
      /\ net' = Answered(ok)
    BY <1>2 DEF Revives
<1>4. /\ \A m \in Clients : /\ lobby'[m].refs = lobby[m].refs
                            /\ lobby'[m].task = lobby[m].task
      /\ lobby'[r].client = c /\ IsBack(r)'
      /\ \A m \in Clients : m # r => lobby'[m].client = lobby[m].client
      /\ \A d \in Clients : owner'[d] = IF d = c THEN r ELSE owner[d]
      /\ \A m \in Clients : entries'[m] = IF m = c THEN entries[r] ELSE entries[m]
    BY <1>2 DEF Revives
<1>5. /\ Known' = Known /\ \A m \in Known : m \in Clients
      /\ Current(r)' /\ ~Current(c)'
      /\ \A m \in Known : m # c /\ m # r => Current(m)' = Current(m) /\ IsBack(m)' = IsBack(m)
    BY <1>2 DEF Revives
<1>6. PICK n : /\ n = net'
               /\ WaitInv(n.queue, thread, timers, owner, lobby, holder)
               /\ AwaitInv(n.queue, n.alive, thread, owner)
               /\ FreedInv(n.freed)
               /\ n.queue \in Seq(Tasks) /\ n \in Nets
               /\ \A x \in Members(n.queue) :
                     /\ x.client \in Clients
                     /\ \/ x \in Members(net.queue) /\ Before(First, x)
                           /\ (owner[x.client] = r => x.op = "tolerated")
                        \/ x.op = "disconnected" /\ x.client = c
    <2>1. owner[Client] # None /\ First.op # "connected"
        BY <1>1, <1>3
    <2>2. PICK m : m = net' /\ m = Answered(ok)
        BY <1>3
    <2>3. /\ WaitInv(m.queue, thread, timers, owner, lobby, holder)
          /\ AwaitInv(m.queue, m.alive, thread, owner)
          /\ FreedInv(m.freed) /\ m.queue \in Seq(Tasks)
        BY <1>1, <2>1, <2>2, AnsweredWaits
    <2>4. /\ m \in Nets
          /\ \A x \in Members(m.queue) :
                /\ x.client \in Clients
                /\ \/ x \in Members(Popped.queue) /\ x \in Members(net.queue) /\ Before(First, x)
                   \/ x.op = "disconnected" /\ x.client = c
        BY <1>1, <1>3, <2>2, AnsweredIs
    <2>5. \A x \in Members(Popped.queue) : owner[x.client] = r => x.op = "tolerated"
        BY <1>1, <1>3, PoppedWaits
    <2>. QED BY <2>2, <2>3, <2>4, <2>5
<1>7. c \notin timers /\ \A d \in timers : d \in Clients
    <2>1. First \in Members(net.queue) /\ First.client = c
        BY <1>1, <1>3, PoppedIs DEF Client
    <2>. QED BY <1>1, <2>1, KnownAre DEF Queues, QueueInv, Asking
<1>8. \A x \in Members(n.queue) : x.client = c => x.op # "tolerated"
    BY <1>1, <1>3, <1>6 DEF Before, Asking, Client
<1>9. \A x \in Members(n.queue) : x.op = "auth" => holder[x.arg] # r
    <2>1. ASSUME NEW x \in Members(n.queue), x.op = "auth" PROVE holder[x.arg] # r
        <3>1. x.arg # k /\ x.arg \in DOMAIN holder
            BY <1>1, <1>3, <1>6, <2>1, AuthArgs DEF Before
        <3>. QED BY <1>3, <3>1 DEF HolderInv
    <2>. QED BY <2>1
<1>10. PICK own, lob : own = owner' /\ lob = lobby'
    OBVIOUS
<1>11. /\ own[c] = r /\ lob[r].client = c /\ ~Spent(lob, r)
       /\ \A d \in Clients : d # c => own[d] = owner[d]
       /\ \A m \in Clients : m # r => lob[m].client = lobby[m].client
       /\ \A m \in Clients : lob[m].refs = lobby[m].refs /\ lob[m].task = lobby[m].task
       /\ \A m \in Clients : Spent(lob, m) <=> Spent(lobby, m)
       /\ \A d \in Clients : owner[d] # None => owner[d] \in Clients
    BY <1>3, <1>4, <1>10 DEF Spent, TypeInv, Known
<1>12. WaitInv(n.queue, thread, timers, own, lob, holder)
    <2>1. ASSUME NEW x \in Members(n.queue), own[x.client] # None
          PROVE  /\ ~Spent(lob, own[x.client])
                 /\ lob[own[x.client]].client # x.client => x.op = "tolerated"
                 /\ x.op = "tolerated" => lob[own[x.client]].task = x.client
        <3>1. CASE x.client = c
            BY <1>8, <1>11, <2>1, <3>1
        <3>2. CASE x.client # c
            <4>1. x.client \in Clients /\ own[x.client] = owner[x.client] /\ owner[x.client] \in Clients
                BY <1>6, <1>11, <2>1, <3>2
            <4>2. /\ ~Spent(lobby, owner[x.client])
                  /\ lobby[owner[x.client]].client # x.client => x.op = "tolerated"
                  /\ x.op = "tolerated" => lobby[owner[x.client]].task = x.client
                BY <1>6, <2>1, <4>1 DEF WaitInv
            <4>3. owner[x.client] = r => x.op = "tolerated"
                BY <1>6, <3>2
            <4>. QED BY <1>11, <4>1, <4>2, <4>3
        <3>. QED BY <3>1, <3>2
    <2>2. \A x \in Members(n.queue) : x.op = "tolerated" => x.arg = None
        BY <1>6 DEF WaitInv
    <2>3. \A d \in timers : own[d] # None => ~Spent(lob, own[d]) /\ lob[own[d]].task = d
        BY <1>6, <1>7, <1>11 DEF WaitInv
    <2>4. \A d \in Clients : own[d] # None /\ Spent(lob, own[d]) => thread[d] = "gone"
        BY <1>6, <1>11 DEF WaitInv
    <2>5. ASSUME NEW x \in Members(n.queue), NEW y \in Members(n.queue), Precedes(n.queue, x, y),
                 x.op = "auth", holder[x.arg] # None, own[y.client] = holder[x.arg]
          PROVE  y.op = "tolerated"
        <3>1. y.client # c /\ y.client \in Clients
            BY <1>6, <1>9, <1>11, <2>5
        <3>. QED BY <1>6, <1>11, <2>5, <3>1 DEF WaitInv
    <2>. QED BY <2>1, <2>2, <2>3, <2>4, <2>5 DEF WaitInv
<1>13. WaitInv(net.queue, thread, timers, owner, lobby, holder)'
    BY <1>1, <1>6, <1>10, <1>12 DEF WaitInv, Spent
<1>14. AwaitInv(net.queue, net.alive, thread, owner)'
    BY <1>1, <1>3, <1>4, <1>6 DEF AwaitInv
<1>15. FreedInv(net.freed)'
    <2>1. ASSUME NEW d \in n.freed PROVE Dropped(d)'
        <3>1. d \in Clients /\ owner[d] # None /\ lobby[owner[d]].client = d /\ lobby[owner[d]].refs = 0
              /\ owner[d] \in Clients
            BY <1>6, <1>11, <2>1 DEF FreedInv, Dropped, Nets
        <3>2. owner[d] # r /\ d # c
            BY <1>3, <3>1
        <3>3. owner'[d] = owner[d] /\ lobby'[owner[d]].client = d /\ lobby'[owner[d]].refs = 0
            BY <1>4, <3>1, <3>2
        <3>. QED BY <3>1, <3>3 DEF Dropped
    <2>. QED BY <1>6, <2>1 DEF FreedInv
<1>16. WholeInv'
    <2>1. \A m \in Known : Current(m)' => m # c /\ Current(m)
        BY <1>3, <1>5
    <2>. QED BY <1>4, <1>5, <2>1 DEF FreeInv, WholeInv
<1>17. DelayInv'
    <2>1. \A m \in Known : Current(m)' /\ ~IsBack(m)' => m # c /\ m # r /\ Current(m) /\ ~IsBack(m)
        BY <1>4, <1>5
    <2>. QED BY <1>4, <1>5, <2>1 DEF FreeInv, DelayInv
<1>. QED BY <1>13, <1>14, <1>15, <1>16, <1>17 DEF FreeInv

(* Who is gone for good leaves all his tables and is spent; nobody who     *)
(* comes back to it later waits any more.                                  *)
LEMMA ToleratedFree ==
    ASSUME Places, CountInv, FreeInv, Tolerated, NoGhost'
    PROVE  /\ FreeInv'
           /\ ~lobby[Owner].revived
<1> USE DEF Places
<1>1. /\ net.queue # << >> /\ First.op = "tolerated" /\ ~Unreachable /\ net' = FreeUnused
      /\ UNCHANGED <<thread, owner, tokens, timers>>
    BY ToleratedIs
<1>2. PICK l \in Clients :
         /\ l = Owner /\ l \in Known /\ Current(l) /\ lobby[l].refs # 0 /\ Leaving
         /\ ~IsBack(l) /\ entries' = [entries EXCEPT ![l] = @ \ Left]
         /\ lobby'[l].ghost = (lobby[l].ghost \/ lobby[l].revived)
         /\ \A m \in Clients : m # l => lobby'[m] = lobby[m]
         /\ holder' = IF lobby[l].token # NoToken /\ ~lobby[l].revived
                        THEN [holder EXCEPT ![lobby[l].token] = None] ELSE holder
    BY ToleratedIs
<1>3. /\ \A m \in Clients : lobby'[m].client = lobby[m].client /\ lobby'[m].refs = RefsAfter(m)
      /\ Known' = Known
    <2>1. \A m \in Clients : lobby'[m].client = lobby[m].client /\ lobby'[m].refs = RefsAfter(m)
        BY ToleratedIs
    <2>. QED BY <2>1 DEF Known
<1>4. PICK c \in Clients : c = Client /\ owner[c] = l /\ thread[c] = "gone"
    BY <1>1, <1>2, PoppedIs DEF Owner, Finds, Client
<1>5. /\ WaitInv(net.queue, thread, timers, owner, lobby, holder)
      /\ First \in Members(net.queue) /\ First.client = c
    BY <1>1, <1>4, PoppedIs DEF FreeInv, Client
<1>6. l # None /\ lobby[l].task = c /\ lobby[l].client = c
    <2>1. l # None /\ lobby[l].task = c
        BY <1>1, <1>2, <1>4, <1>5, NoneIs DEF WaitInv
    <2>2. lobby[l].task = lobby[l].client
        BY <1>2 DEF FreeInv, DelayInv
    <2>. QED BY <2>1, <2>2
<1>7. ~lobby[l].revived
    BY <1>2, <1>3 DEF NoGhost
<1>8. Left = entries[l]
    BY <1>1, <1>2, <1>7 DEF Left
<1>9. lobby'[l].refs = 0 /\ entries'[l] = {} /\ \A m \in Clients : m # l => entries'[m] = entries[m]
    <2>1. lobby[l].refs = 1 + Cardinality(entries[l])
        BY <1>2 DEF FreeInv, WholeInv
    <2>2. RefsAfter(l) = lobby[l].refs - Cardinality(Left) - 1 /\ Cardinality(Left) \in Nat
        BY <1>1, <1>2, UsesAre
    <2>3. RefsAfter(l) = 0
        BY <1>8, <2>1, <2>2
    <2>. QED BY <1>2, <1>3, <1>8, <2>3 DEF TypeInv
<1>10. /\ net'.queue = Popped.queue /\ net'.alive = net.alive
       /\ \A d \in net'.freed : d \in net.freed \/ d = c
    <2>1. PICK n \in Nets : n = Popped /\ n.alive = net.alive /\ n.freed = net.freed
        BY <1>1, PoppedIs
    <2>2. FreeUnused = n \/ FreeUnused = LeaveClient(n, c)
        BY <1>1, <1>2, <1>6, <2>1, FreedIs
    <2>3. /\ LeaveClient(n, c).queue = n.queue /\ LeaveClient(n, c).alive = n.alive
          /\ LeaveClient(n, c).freed = IF n.refs[c] = 1 THEN n.freed \cup {c} ELSE n.freed
        BY LeaveClientIs
    <2>. QED BY <1>1, <2>1, <2>2, <2>3
<1>11. /\ WaitInv(Popped.queue, thread, timers, owner, lobby, holder)
       /\ \A x \in Members(Popped.queue) :
             x \in Members(net.queue) /\ x.client \in Clients /\ Before(First, x)
    BY <1>1, PoppedIs, PoppedWaits
<1>12. \A x \in Members(Popped.queue) : owner[x.client] # l
    <2>1. SUFFICES ASSUME NEW x \in Members(Popped.queue), owner[x.client] = l PROVE FALSE
        OBVIOUS
    <2>2. x.client # c
        BY <1>1, <1>5, <1>11, <2>1 DEF Before
    <2>3. x.op = "tolerated"
        BY <1>6, <1>11, <2>1, <2>2 DEF WaitInv
    <2>. QED BY <1>6, <1>11, <2>1, <2>2, <2>3 DEF WaitInv
<1>13. \A d \in timers : d \in Clients /\ owner[d] # l
    <2>1. SUFFICES ASSUME NEW d \in timers, owner[d] = l PROVE FALSE
        BY KnownAre
    <2>2. d = c
        BY <1>5, <1>6, <2>1 DEF WaitInv
    <2>. QED BY <1>1, <1>5, <2>1, <2>2 DEF Queues, QueueInv
<1>14. \A d \in Clients : owner[d] = l => thread[d] = "gone"
    BY <1>4, <1>6 DEF Queues, QueueInv
<1>15. PICK lob, hold : lob = lobby' /\ hold = holder'
    OBVIOUS
<1>16. /\ \A m \in Clients : m # l => lob[m] = lobby[m] /\ (Spent(lob, m) <=> Spent(lobby, m))
       /\ \A d \in Clients : owner[d] # None => owner[d] \in Clients
    BY <1>2, <1>15 DEF Spent, TypeInv
<1>17. \A x \in Members(Popped.queue) : x.op = "auth" => hold[x.arg] \in {holder[x.arg], None}
    <2>1. ASSUME NEW x \in Members(Popped.queue), x.op = "auth"
          PROVE  hold[x.arg] \in {holder[x.arg], None}
        <3>1. x.arg \in DOMAIN holder
            BY <1>11, <2>1, AuthArgs
        <3>. QED BY <1>2, <1>15, <3>1 DEF TypeInv
    <2>. QED BY <2>1
<1>18. WaitInv(Popped.queue, thread, timers, owner, lob, hold)
    <2>1. ASSUME NEW x \in Members(Popped.queue), owner[x.client] # None
          PROVE  /\ ~Spent(lob, owner[x.client])
                 /\ lob[owner[x.client]].client # x.client => x.op = "tolerated"
                 /\ x.op = "tolerated" => lob[owner[x.client]].task = x.client
        BY <1>11, <1>12, <1>16, <2>1 DEF WaitInv
    <2>2. \A x \in Members(Popped.queue) : x.op = "tolerated" => x.arg = None
        BY <1>11 DEF WaitInv
    <2>3. \A d \in timers : owner[d] # None => ~Spent(lob, owner[d]) /\ lob[owner[d]].task = d
        BY <1>11, <1>13, <1>16 DEF WaitInv
    <2>4. \A d \in Clients : owner[d] # None /\ Spent(lob, owner[d]) => thread[d] = "gone"
        BY <1>11, <1>14, <1>16 DEF WaitInv
    <2>5. \A x, y \in Members(Popped.queue) :
             Precedes(Popped.queue, x, y) /\ x.op = "auth" /\ hold[x.arg] # None
                /\ owner[y.client] = hold[x.arg] => y.op = "tolerated"
        BY <1>11, <1>17 DEF WaitInv
    <2>. QED BY <2>1, <2>2, <2>3, <2>4, <2>5 DEF WaitInv
<1>19. WaitInv(net.queue, thread, timers, owner, lobby, holder)'
    BY <1>1, <1>10, <1>15, <1>18 DEF WaitInv, Spent
<1>20. AwaitInv(net.queue, net.alive, thread, owner)'
    BY <1>1, <1>10, PoppedWaits DEF AwaitInv
<1>21. FreedInv(net.freed)'
    <2>1. Dropped(c)'
        BY <1>1, <1>3, <1>4, <1>6, <1>9 DEF Dropped
    <2>2. ASSUME NEW d \in net.freed PROVE Dropped(d)'
        <3>1. d \in Clients /\ Dropped(d) /\ owner[d] # l /\ owner[d] \in Clients
            BY <1>2, <1>16, KnownAre DEF FreeInv, FreedInv, Nets, Dropped
        <3>. QED BY <1>1, <1>2, <3>1 DEF Dropped
    <2>. QED BY <1>10, <2>1, <2>2 DEF FreedInv
<1>22. /\ \A m \in Known : m \in Clients /\ Current(m)' = Current(m)
       /\ \A m \in Clients : m # l => IsBack(m)' = IsBack(m)
    BY <1>1, <1>2, <1>3, KnownAre DEF Current, IsBack
<1>23. WholeInv'
    BY <1>2, <1>3, <1>9, <1>22 DEF FreeInv, WholeInv
<1>24. DelayInv'
    BY <1>2, <1>3, <1>9, <1>22 DEF FreeInv, DelayInv
<1>. QED BY <1>2, <1>7, <1>19, <1>20, <1>21, <1>23, <1>24 DEF FreeInv

-----------------------------------------------------------------------------
(* Who a token finds                                                       *)

LEMMA HeldStays ==
    ASSUME TypeInv, HeldInv, UNCHANGED <<entries, holder>>,
           \A m \in Clients : /\ lobby'[m].client = lobby[m].client
                              /\ lobby'[m].account = lobby[m].account
                              /\ lobby'[m].revived = lobby[m].revived
                              /\ lobby'[m].token = lobby[m].token
                              /\ lobby'[m].refs = lobby[m].refs
    PROVE  HeldInv'
<1>1. Known' = Known /\ \A m \in Known : m \in Clients
    BY DEF Known
<1>2. \A k \in DOMAIN holder : holder[k] # None => holder[k] \in Clients
    BY TokensAre
<1>. QED BY <1>1, <1>2 DEF HeldInv

LEMMA LoginHeld ==
    ASSUME Places, CountInv, HeldInv, Login
    PROVE  HeldInv'
<1> USE DEF Places
<1>1. net.queue # << >> /\ First.op = "login" /\ First.op \in Asking /\ ~Unreachable
    BY BeginIs DEF Login, Asking
<1>2. PICK c \in Clients :
         /\ c = Owner /\ c \in Known /\ lobby[c].account = None /\ entries[c] = {}
         /\ lobby[c].refs # 0 /\ \A j \in DOMAIN holder : holder[j] # c
    BY <1>1, AskingIs, OwnerIs
<1>3. PICK a \in Accounts : a = First.arg
    BY <1>1, PoppedIs DEF Finds
<1>4. PICK k : k = Len(tokens) + 1
    OBVIOUS
<1>5. /\ lobby' = [lobby EXCEPT ![c].account = a, ![c].token = k] /\ entries' = entries
      /\ holder' = holder \/ holder' = [holder EXCEPT ![k] = c]
    BY <1>2, <1>3, <1>4 DEF Login
<1>6. /\ lobby'[c].client = lobby[c].client /\ lobby'[c].account = a /\ lobby'[c].token = k
      /\ lobby'[c].revived = lobby[c].revived /\ lobby'[c].refs = lobby[c].refs
      /\ \A m \in Clients : m # c => lobby'[m] = lobby[m]
    <2>1. lobby[c] \in LobbyClients
        BY DEF TypeInv
    <2>2. lobby'[c] = [lobby[c] EXCEPT !.account = a, !.token = k]
        BY <1>5 DEF TypeInv
    <2>3. /\ lobby'[c].client = lobby[c].client /\ lobby'[c].account = a /\ lobby'[c].token = k
          /\ lobby'[c].revived = lobby[c].revived /\ lobby'[c].refs = lobby[c].refs
        BY <2>1, <2>2 DEF LobbyClients
    <2>. QED BY <1>5, <2>3 DEF TypeInv
<1>7. a # None /\ Known' = Known /\ \A m \in Known : m \in Clients
    BY <1>6, MembershipAssumption DEF Known
<1>8. ~lobby[c].revived
    BY <1>2 DEF HeldInv
<1>9. lobby[c].refs = 1 + Cardinality(entries[c])
    <2>1. Cardinality(entries[c]) = 0 /\ lobby[c].refs \in 0 .. (1 + Cardinality(entries[c]))
        BY <1>2, FS_EmptySet DEF CountInv, UsesInv
    <2>. QED BY <1>2, <2>1
<1>10. \A j \in DOMAIN holder :
          /\ holder[j] # None => holder[j] \in Clients
          /\ holder'[j] # c => holder'[j] = holder[j]
    BY <1>5, TokensAre
<1>11. DOMAIN holder' = DOMAIN holder
    BY <1>5
<1>12. ASSUME NEW j \in DOMAIN holder, holder'[j] # None, lobby'[holder'[j]].token = j
       PROVE  /\ ~lobby'[holder'[j]].revived
              /\ lobby'[holder'[j]].refs = 1 + Cardinality(entries'[holder'[j]])
    <2>1. CASE holder'[j] = c
        BY <1>5, <1>6, <1>8, <1>9, <2>1
    <2>2. CASE holder'[j] # c
        <3>1. holder'[j] = holder[j] /\ holder[j] # c /\ holder[j] # None /\ holder[j] \in Clients
            BY <1>10, <1>12, <2>2
        <3>2. lobby'[holder[j]] = lobby[holder[j]] /\ lobby[holder[j]].token = j
            BY <1>6, <1>12, <3>1
        <3>3. ~lobby[holder[j]].revived /\ lobby[holder[j]].refs = 1 + Cardinality(entries[holder[j]])
            BY <3>1, <3>2 DEF HeldInv
        <3>. QED BY <1>5, <3>1, <3>2, <3>3
    <2>. QED BY <2>1, <2>2
<1>13. \A m \in Known' : lobby'[m].account = None => ~lobby'[m].revived
    BY <1>6, <1>7 DEF HeldInv
<1>. QED BY <1>11, <1>12, <1>13 DEF HeldInv

LEMMA QuietHeld ==
    ASSUME Places, CountInv, HeldInv, Connected \/ AuthRefused
    PROVE  HeldInv'
<1> USE DEF Places
<1>1. UNCHANGED <<entries, holder>>
    BY ConnectedIs DEF AuthRefused
<1>2. PICK c \in Clients :
         /\ lobby[c].account = None /\ lobby'[c].account = None /\ ~lobby'[c].revived
         /\ \A m \in Clients : m # c => lobby'[m] = lobby[m]
    <2>1. CASE Connected
        <3>1. PICK c \in Clients :
                 /\ lobby[c] = NewLobbyClient /\ lobby'[c].account = None /\ ~lobby'[c].revived
                 /\ \A m \in Clients : m # c => lobby'[m] = lobby[m]
            BY <2>1, ConnectedIs
        <3>. QED BY <3>1 DEF NewLobbyClient
    <2>2. CASE AuthRefused
        <3>1. net.queue # << >> /\ First.op \in Asking
            BY <2>2, BeginIs DEF AuthRefused, Asking
        <3>2. PICK c \in Clients : c = Owner /\ c \in Known /\ lobby[c].account = None
            BY <3>1, AskingIs
        <3>3. PICK k : lobby' = [lobby EXCEPT ![c].token = k]
            BY <2>2, <3>2 DEF AuthRefused
        <3>4. /\ lobby'[c] = [lobby[c] EXCEPT !.token = k] /\ lobby[c] \in LobbyClients
              /\ \A m \in Clients : m # c => lobby'[m] = lobby[m]
            BY <3>3 DEF TypeInv
        <3>5. lobby'[c].account = lobby[c].account /\ lobby'[c].revived = lobby[c].revived
            BY <3>4 DEF LobbyClients
        <3>. QED BY <3>2, <3>4, <3>5 DEF HeldInv
    <2>. QED BY <2>1, <2>2
<1>3. \A k \in DOMAIN holder : holder[k] # None => holder[k] \in Clients /\ holder[k] # c
    BY <1>2, TokensAre DEF HolderInv
<1>4. \A m \in Known' : m # c => m \in Known /\ m \in Clients
    BY <1>2 DEF Known
<1>. QED BY <1>1, <1>2, <1>3, <1>4 DEF HeldInv

LEMMA ReviveHeld ==
    ASSUME Places, CountInv, HeldInv, Revive
    PROVE  HeldInv'
<1> USE DEF Places
<1>1. PICK c, r \in Clients, k \in 1 .. Len(tokens), ok \in BOOLEAN : Revives(c, r, k, ok)
    BY ReviveIs
<1>2. /\ c \in Known /\ lobby[c].account = None /\ k \in DOMAIN holder /\ r = holder[k] /\ r # None
      /\ lobby[r].account # None /\ r # c
      /\ lobby'[c] = [lobby[c] EXCEPT !.token = k]
      /\ \A m \in Clients : m # c /\ m # r => lobby'[m] = lobby[m]
      /\ \A m \in Clients : lobby'[m].account = lobby[m].account
      /\ \A m \in Clients : entries'[m] = IF m = c THEN entries[r] ELSE entries[m]
      /\ Known' = Known /\ \A m \in Known : m \in Clients
    BY <1>1 DEF Revives
<1>3. holder' = holder /\ Len(tokens) \in Nat
    BY ReviveIs, TokensAre
<1>4. lobby'[r].token = Len(tokens) + 1 /\ lobby'[c].revived = lobby[c].revived
    <2>1. lobby[r] \in LobbyClients /\ lobby[c] \in LobbyClients
        BY DEF TypeInv
    <2>2. lobby'[r] = [lobby[r] EXCEPT !.client = c, !.tolerant = FALSE,
                             !.disconnected = FALSE, !.connected = TRUE,
                             !.revived = ~ok, !.token = Len(tokens) + 1]
        BY <1>1 DEF Revives
    <2>. QED BY <1>2, <2>1, <2>2 DEF LobbyClients
<1>5. ASSUME NEW j \in DOMAIN holder, holder[j] # None, lobby'[holder[j]].token = j
      PROVE  holder[j] # c /\ holder[j] # r /\ holder[j] \in Clients
    <2>1. holder[j] \in Clients /\ holder[j] # c /\ j <= Len(tokens)
        BY <1>2, <1>5, TokensAre DEF HolderInv
    <2>. QED BY <1>3, <1>4, <1>5, <2>1, TokensAre
<1>6. \A m \in Known : lobby'[m].account = None => m # r /\ lobby'[m].revived = lobby[m].revived
    BY <1>2, <1>4
<1>. QED BY <1>2, <1>3, <1>5, <1>6 DEF HeldInv

LEMMA EnterHeld ==
    ASSUME Places, CountInv, HeldInv, Enter
    PROVE  HeldInv'
<1> USE DEF Places
<1>1. holder' = holder
    BY EnterIs
<1>2. PICK l \in Clients :
         \/ UNCHANGED <<entries, lobby>>
         \/ /\ Cardinality(entries'[l]) = Cardinality(entries[l]) + 1
            /\ lobby'[l] = [lobby[l] EXCEPT !.refs = @ + 1]
            /\ \A m \in Clients : m # l => lobby'[m] = lobby[m] /\ entries'[m] = entries[m]
    BY EnterIs
<1>3. CASE UNCHANGED <<entries, lobby>>
    BY <1>1, <1>3, HeldStays
<1>4. CASE ~UNCHANGED <<entries, lobby>>
    <2>1. /\ lobby'[l].refs = lobby[l].refs + 1 /\ lobby'[l].client = lobby[l].client
          /\ lobby'[l].account = lobby[l].account /\ lobby'[l].revived = lobby[l].revived
          /\ lobby'[l].token = lobby[l].token
        <3>1. lobby[l] \in LobbyClients
            BY DEF TypeInv
        <3>. QED BY <1>2, <1>4, <3>1 DEF LobbyClients
    <2>2. \A m \in Clients : Cardinality(entries[m]) \in Nat /\ lobby[m].refs \in Int
        BY RefsAre DEF CountInv
    <2>3. /\ Known' = Known /\ \A m \in Known : m \in Clients
          /\ \A k \in DOMAIN holder : holder[k] # None => holder[k] \in Clients
        BY <1>2, <1>4, <2>1, TokensAre DEF Known
    <2>4. ASSUME NEW m \in Clients, lobby[m].refs = 1 + Cardinality(entries[m])
          PROVE  lobby'[m].refs = 1 + Cardinality(entries'[m])
        BY <1>2, <1>4, <2>1, <2>2, <2>4
    <2>5. \A m \in Clients : /\ lobby'[m].account = lobby[m].account
                             /\ lobby'[m].revived = lobby[m].revived
                             /\ lobby'[m].token = lobby[m].token
        BY <1>2, <1>4, <2>1
    <2>. QED BY <1>1, <2>3, <2>4, <2>5 DEF HeldInv
<1>. QED BY <1>3, <1>4

LEMMA LeaveTableHeld ==
    ASSUME Places, CountInv, HeldInv, LeaveTable
    PROVE  HeldInv'
<1> USE DEF Places
<1>1. /\ First.op = "leave" /\ holder' = holder
      /\ \A m \in Clients : /\ lobby'[m].client = lobby[m].client
                            /\ lobby'[m].account = lobby[m].account
                            /\ lobby'[m].token = lobby[m].token
                            /\ lobby'[m].revived = lobby[m].revived
                            /\ lobby'[m].refs = RefsAfter(m)
    BY LeaveTableIs
<1>2. PICK l \in Clients :
         /\ l = Owner /\ l \in Known /\ Current(l) /\ Leaving
         /\ entries' = [entries EXCEPT ![l] = @ \ Left]
    BY LeaveTableIs
<1>3. ASSUME NEW m \in Clients, lobby[m].refs = 1 + Cardinality(entries[m])
      PROVE  lobby'[m].refs = 1 + Cardinality(entries'[m])
    <2>1. CASE m = l
        <3>1. PICK S \in SUBSET Tables : S = entries[l]
            BY DEF TypeInv
        <3>2. PICK T \in SUBSET S : T = Left
            BY <1>2, <3>1 DEF Leaving
        <3>3. /\ Cardinality(S \ T) = Cardinality(S) - Cardinality(T)
              /\ Cardinality(S) \in Nat /\ Cardinality(T) \in Nat
            BY EntriesAre
        <3>4. lobby'[l].refs = lobby[l].refs - Cardinality(T) - 0
            BY <1>1, <1>2, <3>2, UsesAre
        <3>5. entries'[l] = S \ T
            BY <1>2, <3>1, <3>2 DEF TypeInv
        <3>. QED BY <1>3, <2>1, <3>1, <3>3, <3>4, <3>5
    <2>2. CASE m # l
        <3>1. RefsAfter(m) = lobby[m].refs /\ entries'[m] = entries[m]
            BY <1>2, <2>2, UsesAre DEF TypeInv
        <3>. QED BY <1>1, <1>3, <3>1
    <2>. QED BY <2>1, <2>2
<1>4. /\ Known' = Known /\ \A m \in Known : m \in Clients
      /\ \A k \in DOMAIN holder : holder[k] # None => holder[k] \in Clients
    BY <1>1, TokensAre DEF Known
<1>. QED BY <1>1, <1>3, <1>4 DEF HeldInv

LEMMA ToleratedHeld ==
    ASSUME Places, CountInv, HeldInv, Tolerated
    PROVE  HeldInv'
<1> USE DEF Places
<1>1. \A m \in Clients : /\ lobby'[m].client = lobby[m].client
                         /\ lobby'[m].account = lobby[m].account
    BY ToleratedIs
<1>2. PICK l \in Clients :
         /\ l = Owner /\ l \in Known /\ Current(l) /\ Leaving
         /\ entries' = [entries EXCEPT ![l] = @ \ Left]
         /\ lobby'[l].token = lobby[l].token /\ lobby'[l].revived = lobby[l].revived
         /\ \A m \in Clients : m # l => lobby'[m] = lobby[m]
         /\ holder' = IF lobby[l].token # NoToken /\ ~lobby[l].revived
                        THEN [holder EXCEPT ![lobby[l].token] = None] ELSE holder
    BY ToleratedIs
<1>3. /\ Known' = Known /\ \A m \in Known : m \in Clients
      /\ \A k \in DOMAIN holder : /\ holder[k] # None => holder[k] \in Clients
                                  /\ k # NoToken
                                  /\ holder'[k] \in {holder[k], None}
      /\ DOMAIN holder' = DOMAIN holder
    BY <1>1, <1>2, TokensAre DEF Known, NoToken
<1>4. ASSUME NEW k \in DOMAIN holder, holder'[k] # None, lobby'[holder'[k]].token = k
      PROVE  holder'[k] = holder[k] /\ holder[k] # l /\ holder[k] \in Clients
    <2>1. holder'[k] = holder[k] /\ holder[k] \in Clients
        BY <1>3, <1>4
    <2>2. ASSUME holder[k] = l PROVE FALSE
        <3>1. lobby[l].token = k
            BY <1>2, <1>4, <2>1, <2>2
        <3>2. ~lobby[l].revived
            BY <1>3, <1>4, <2>1, <2>2, <3>1 DEF HeldInv
        <3>. QED BY <1>2, <1>3, <1>4, <3>1, <3>2
    <2>. QED BY <2>1, <2>2
<1>5. \A m \in Clients : m # l => entries'[m] = entries[m]
    BY <1>2 DEF TypeInv
<1>. QED BY <1>1, <1>2, <1>3, <1>4, <1>5 DEF HeldInv

LEMMA StepKeepsHeld ==
    ASSUME Places, CountInv, HeldInv, [Next]_vars
    PROVE  HeldInv'
<1> USE DEF Places
<1>1. CASE UNCHANGED <<lobby, entries, holder>>
    BY <1>1, HeldStays
<1>2. CASE Disconnected
    <2>1. UNCHANGED <<entries, holder>>
        BY <1>2, DisconnectedIs
    <2>2. PICK c, l \in Clients :
             /\ \A m \in Clients : m # l => lobby'[m] = lobby[m]
             /\ lobby'[l] = [lobby[l] EXCEPT !.tolerant = TRUE, !.connected = FALSE, !.task = c]
        BY <1>2, DisconnectedIs
    <2>3. lobby[l] \in LobbyClients
        BY DEF TypeInv
    <2>4. /\ lobby'[l].client = lobby[l].client /\ lobby'[l].account = lobby[l].account
          /\ lobby'[l].revived = lobby[l].revived /\ lobby'[l].token = lobby[l].token
          /\ lobby'[l].refs = lobby[l].refs
        BY <2>2, <2>3 DEF LobbyClients
    <2>5. \A m \in Clients : /\ lobby'[m].client = lobby[m].client
                              /\ lobby'[m].account = lobby[m].account
                              /\ lobby'[m].revived = lobby[m].revived
                              /\ lobby'[m].token = lobby[m].token
                              /\ lobby'[m].refs = lobby[m].refs
        BY <2>2, <2>4
    <2>. QED BY <2>1, <2>5, HeldStays
<1>3. CASE ThreadsStep \/ Send \/ TimersDue \/ Misuse \/ AuthAnswered \/ ToleratedReturns
           \/ UNCHANGED vars
    BY <1>1, <1>3 DEF ThreadsStep, Send, TimersDue, TimerDue, Misuse, AuthAnswered,
                      ToleratedReturns, vars, lobbyVars
<1>. QED BY <1>2, <1>3, LoginHeld, QuietHeld, ReviveHeld, EnterHeld, LeaveTableHeld, ToleratedHeld
         DEF Next, Handle

-----------------------------------------------------------------------------
(* What is used wrongly                                                    *)

(* At a table nobody is freed, nor is his connection.                      *)
LEMMA NobodyDangles ==
    ASSUME Places, FreeInv, NEW t \in Tables, NEW i \in DOMAIN members[t]
    PROVE  ~FreedLobbyClient(members[t][i]) /\ ~Dangling(members[t][i])
<1> USE DEF Places
<1>1. PICK m \in At(t) : m = members[t][i]
    BY MembersAre
<1>2. m \in Known /\ Current(m) /\ owner[lobby[m].client] = m
    BY MembersAre DEF Current
<1>3. ~FreedLobbyClient(m)
    <2>1. t \in entries[m]
        BY <1>2 DEF SidesInv
    <2>2. lobby[m].refs # 0
        BY <1>2, <2>1 DEF FreeInv, WholeInv
    <2>. QED BY <2>2 DEF FreedLobbyClient
<1>4. lobby[m].client \notin net.freed
    BY <1>2, <1>3 DEF FreeInv, FreedInv, Dropped, FreedLobbyClient
<1>. QED BY <1>1, <1>2, <1>3, <1>4 DEF Dangling

LEMMA NobodyFreedIsReached ==
    ASSUME Places, FreeInv, NEW t \in Tables, NEW a
    PROVE  ~ReachesFreed(t, a)
<1>1. SUFFICES ASSUME Reaches(t, a) PROVE PlaceOf(t, a) \in DOMAIN members[t]
    BY NobodyDangles DEF ReachesFreed
<1> DEFINE at == {i \in DOMAIN members[t] : Stops(t, a, i)}
           least == CHOOSE i \in at : \A j \in at : i <= j
<1>2. at # {} /\ PlaceOf(t, a) = least
    BY <1>1 DEF Reaches, PlaceOf
<1>3. \E i \in at : \A j \in at : i <= j
    <2>1. at \in SUBSET Nat
        BY MembersAre DEF Places
    <2> HIDE DEF at
    <2>. QED BY <1>2, <2>1, LeastNat
<1>4. least \in at
    BY <1>3
<1>. QED BY <1>2, <1>4

(* The first task's connection and its lobby client are not freed.         *)
LEMMA FirstIsReachable ==
    ASSUME Places, FreeInv, net.queue # << >>
    PROVE  Client \notin net.freed /\ ~Unreachable
<1> USE DEF Places
<1>1. PICK c \in Clients : c = Client
    BY PoppedIs
<1>2. /\ First \in Members(net.queue) /\ First.client = c /\ thread[c] \notin {"none", "started"}
      /\ WaitInv(net.queue, thread, timers, owner, lobby, holder)
    BY <1>1, PoppedIs DEF Client, FreeInv
<1>3. owner[c] # None => ~Spent(lobby, owner[c])
    BY <1>2 DEF WaitInv
<1>4. c \notin net.freed
    <2>1. \A d \in Clients : Dropped(d) => owner[d] # None /\ Spent(lobby, owner[d])
        <3>1. \A d \in Clients : owner[d] # None => lobby[owner[d]].client # None
            BY DEF OwnersInv
        <3>. QED BY <3>1 DEF Dropped, Spent
    <2>. QED BY <1>3, <2>1 DEF FreeInv, FreedInv
<1>5. First.op # "connected" => owner[c] # None
    <2>1. ASSUME First.op # "connected", owner[c] = None PROVE FALSE
        <3>1. PICK x \in Members(Popped.queue) : x.client = c /\ x.op = "connected"
            BY <1>2, <2>1, PoppedWaits
        <3>2. Before(First, x)
            BY PoppedIs
        <3>. QED BY <1>2, <3>1, <3>2 DEF Before
    <2>. QED BY <2>1
<1>6. owner[c] # None => ~FreedLobbyClient(owner[c])
    BY <1>3 DEF FreedLobbyClient, Known, Spent
<1>. QED BY <1>1, <1>4, <1>5, <1>6 DEF Unreachable, Owner

LEMMA LeavesWell ==
    ASSUME Places, CountInv, FreeInv, net.queue # << >>, First.op \in {"leave", "tolerated"}
    PROVE  LeaveHazard = "none"
<1> USE DEF Places
<1>1. PICK l \in Clients : l = Owner /\ l \in Known /\ Current(l) /\ lobby[l].refs # 0
    BY FirstIsReachable, OwnerIs
<1>2. Left \subseteq entries[l] /\ entries[l] \in SUBSET Tables
    BY <1>1 DEF Left, TypeInv
<1>3. \A t \in Left : ~ReachesFreed(t, lobby[l].account)
    BY <1>2, NobodyFreedIsReached
<1>4. ASSUME NEW t \in Left PROVE Reaches(t, lobby[l].account)
    <2>1. l \in At(t) /\ t \in Tables
        BY <1>1, <1>2 DEF SidesInv
    <2>2. PICK i \in DOMAIN members[t] : members[t][i] = l
        BY <2>1 DEF At, Members
    <2>. QED BY <2>1, <2>2, NotReachedIs
<1>5. ~(Uses(l) >= lobby[l].refs)
    <2>1. Leaving
        BY <1>1, <1>2, <1>3, <1>4 DEF Leaving
    <2>2. Uses(l) = Cardinality(Left)
        BY <1>1, <2>1, UsesAre
    <2>3. PICK S \in SUBSET Tables : S = entries[l]
        BY <1>2
    <2>4. PICK T \in SUBSET S : T = Left
        BY <1>2, <2>3
    <2>5. /\ Cardinality(T) \in Nat /\ Cardinality(S) \in Nat
          /\ Cardinality(S \ T) = Cardinality(S) - Cardinality(T) /\ Cardinality(S \ T) \in Nat
        <3>1. S \ T \in SUBSET Tables
            OBVIOUS
        <3>. QED BY <3>1, EntriesAre
    <2>6. lobby[l].refs = 1 + Cardinality(S)
        BY <1>1, <2>3 DEF FreeInv, WholeInv
    <2>. QED BY <2>2, <2>4, <2>5, <2>6
<1>. QED BY <1>1, <1>3, <1>4, <1>5 DEF LeaveHazard

LEMMA HazardIs ==
    ASSUME Places, CountInv, FreeInv, net.queue # << >>
    PROVE  Hazard \in {"none", "node", "answer"}
<1> USE DEF Places
<1>1. Client \notin net.freed /\ ~Unreachable
    BY FirstIsReachable
<1>2. CASE First.op = "auth"
    <2>1. AuthHazard # "member"
        <3>1. SUFFICES ASSUME holder[First.arg] # None,
                              NEW t \in entries[holder[First.arg]], NEW i \in DOMAIN members[t]
                       PROVE  ~FreedLobbyClient(members[t][i])
            BY DEF AuthHazard
        <3>2. t \in Tables
            <4>1. First.arg \in DOMAIN holder
                BY <1>2, PoppedIs, AuthArgs
            <4>2. holder[First.arg] \in Clients
                BY <3>1, <4>1, TokensAre
            <4>. QED BY <4>2 DEF TypeInv
        <3>. QED BY <3>2, NobodyDangles
    <2>2. AuthHazard \in {"none", "node", "answer", "member"}
        BY DEF AuthHazard
    <2>. QED BY <1>1, <1>2, <2>1, <2>2 DEF Hazard
<1>3. CASE First.op = "enter"
    <2>1. First.arg \in Tables
        BY <1>3, PoppedIs DEF Finds
    <2>2. EnterHazard = "none"
        BY <2>1, NobodyFreedIsReached DEF EnterHazard
    <2>. QED BY <1>1, <1>3, <2>2 DEF Hazard
<1>4. CASE First.op \in {"leave", "tolerated"}
    BY <1>1, <1>4, LeavesWell DEF Hazard
<1>5. CASE First.op \in {"connected", "login", "disconnected"}
    BY <1>1, <1>5 DEF Hazard
<1>6. First.op \in Asking \cup {"connected", "enter", "leave", "disconnected", "tolerated"}
    BY PoppedIs DEF Tasks
<1>. QED BY <1>2, <1>3, <1>4, <1>5, <1>6 DEF Asking

(* A token whose lobby client is freed is not that one's any more.         *)
LEMMA NodeIs ==
    ASSUME Places, CountInv, HeldInv, net.queue # << >>, Hazard = "node"
    PROVE  lobby[holder[First.arg]].token # First.arg
<1> USE DEF Places
<1>1. First.op = "auth" /\ AuthHazard = "node"
    BY DEF Hazard, EnterHazard, LeaveHazard
<1>2. holder[First.arg] # None /\ FreedLobbyClient(holder[First.arg])
    BY <1>1 DEF AuthHazard
<1>3. First.arg \in DOMAIN holder /\ holder[First.arg] \in Clients
    BY <1>1, <1>2, PoppedIs, AuthArgs, TokensAre
<1>4. /\ lobby[holder[First.arg]].refs = 0
      /\ Cardinality(entries[holder[First.arg]]) \in Nat
    BY <1>2, <1>3, RefsAre DEF FreedLobbyClient, CountInv
<1>5. lobby[holder[First.arg]].refs # 1 + Cardinality(entries[holder[First.arg]])
    BY <1>4
<1>. QED BY <1>2, <1>3, <1>5 DEF HeldInv

LEMMA SoundBefore ==
    ASSUME [Next]_vars
    PROVE  Sound \/ UNCHANGED vars
BY DEF Next, Handle, ThreadsStep, ThreadStep, Accept, AcceptOverCapacity, Announce, ReadFails,
       WriteFails, Send, SendLogin, SendToken, SendEnter, SendLeave, Receive, TimersDue, TimerDue,
       Misuse, Connected, Login, AuthAnswered, AuthRefused, Revive, Enter, LeaveTable,
       Disconnected, ToleratedReturns, Tolerated, Begin, Handling

LEMMA GhostsStay ==
    ASSUME Places, CountInv, [Next]_vars, NoGhost'
    PROVE  NoGhost
<1> USE DEF Places
<1>1. \A m \in Clients : lobby[m] \in LobbyClients
    BY DEF TypeInv
<1>2. SUFFICES \A m \in Clients : lobby[m].client # None /\ lobby[m].ghost =>
                   lobby'[m].client # None /\ lobby'[m].ghost
    BY DEF NoGhost, Known
<1>3. CASE UNCHANGED lobby
    BY <1>3
<1>4. CASE Connected
    <2>1. PICK c \in Clients : /\ lobby[c] = NewLobbyClient
                               /\ \A m \in Clients : m # c => lobby'[m] = lobby[m]
        BY <1>4, ConnectedIs
    <2>. QED BY <2>1 DEF NewLobbyClient
<1>5. CASE Login \/ AuthRefused
    <2>1. CASE Login
        <3>1. PICK o, a, k : lobby' = [lobby EXCEPT ![o].account = a, ![o].token = k]
            BY <2>1 DEF Login
        <3>2. \A m \in Clients : \/ lobby'[m] = lobby[m]
                                 \/ lobby'[m] = [lobby[m] EXCEPT !.account = a, !.token = k]
            BY <3>1 DEF TypeInv
        <3>. QED BY <1>1, <3>2 DEF LobbyClients
    <2>2. CASE AuthRefused
        <3>1. PICK o, k : lobby' = [lobby EXCEPT ![o].token = k]
            BY <2>2 DEF AuthRefused
        <3>2. \A m \in Clients : lobby'[m] = lobby[m] \/ lobby'[m] = [lobby[m] EXCEPT !.token = k]
            BY <3>1 DEF TypeInv
        <3>. QED BY <1>1, <3>2 DEF LobbyClients
    <2>. QED BY <1>5, <2>1, <2>2
<1>6. CASE Enter \/ Disconnected
    <2>1. CASE Enter
        <3>1. PICK l \in Clients : \/ UNCHANGED lobby
                                  \/ /\ lobby'[l] = [lobby[l] EXCEPT !.refs = @ + 1]
                                     /\ \A m \in Clients : m # l => lobby'[m] = lobby[m]
            BY <2>1, EnterIs
        <3>2. \A m \in Clients : \/ lobby'[m] = lobby[m]
                                 \/ lobby'[m] = [lobby[m] EXCEPT !.refs = @ + 1]
            BY <3>1
        <3>. QED BY <1>1, <3>2 DEF LobbyClients
    <2>2. CASE Disconnected
        <3>1. PICK c, l \in Clients :
                 /\ \A m \in Clients : m # l => lobby'[m] = lobby[m]
                 /\ lobby'[l] = [lobby[l] EXCEPT !.tolerant = TRUE, !.connected = FALSE, !.task = c]
            BY <2>2, DisconnectedIs
        <3>2. lobby'[l].ghost = lobby[l].ghost /\ lobby'[l].client = lobby[l].client
            BY <1>1, <3>1 DEF LobbyClients
        <3>. QED BY <3>1, <3>2
    <2>. QED BY <1>6, <2>1, <2>2
<1>7. CASE LeaveTable
    BY <1>1, <1>7 DEF LeaveTable, LobbyClients
<1>8. CASE Tolerated
    <2>1. PICK l \in Clients : /\ lobby'[l].ghost = (lobby[l].ghost \/ lobby[l].revived)
                               /\ \A m \in Clients : m # l => lobby'[m] = lobby[m]
        BY <1>8, ToleratedIs
    <2>2. \A m \in Clients : lobby'[m].client = lobby[m].client
        BY <1>8, ToleratedIs
    <2>. QED BY <2>1, <2>2
<1>9. CASE Revive
    <2>1. PICK c, r \in Clients, k \in 1 .. Len(tokens), ok \in BOOLEAN : Revives(c, r, k, ok)
        BY <1>9, ReviveIs
    <2>2. /\ c # None /\ lobby'[c] = [lobby[c] EXCEPT !.token = k] /\ lobby'[r].client = c
          /\ \A m \in Clients : m # c /\ m # r => lobby'[m] = lobby[m]
        BY <2>1 DEF Revives
    <2>3. lobby'[r] = [lobby[r] EXCEPT !.client = c, !.tolerant = FALSE,
                             !.disconnected = FALSE, !.connected = TRUE,
                             !.revived = ~ok, !.token = Len(tokens) + 1]
        BY <2>1 DEF Revives
    <2>4. lobby'[r].ghost = lobby[r].ghost
        BY <1>1, <2>3 DEF LobbyClients
    <2>5. lobby'[c].ghost = lobby[c].ghost /\ lobby'[c].client = lobby[c].client
        BY <1>1, <2>2 DEF LobbyClients
    <2>. QED BY <2>2, <2>4, <2>5
<1>10. CASE ThreadsStep \/ Send \/ TimersDue \/ Misuse \/ AuthAnswered \/ ToleratedReturns
           \/ UNCHANGED vars
    BY <1>3, <1>10 DEF ThreadsStep, Send, TimersDue, TimerDue, Misuse, AuthAnswered,
                      ToleratedReturns, vars, lobbyVars
<1>. QED BY <1>4, <1>5, <1>6, <1>7, <1>8, <1>9, <1>10 DEF Next, Handle

LEMMA InitFree ==
    ASSUME Init
    PROVE  FreeInv /\ HeldInv /\ NoUseAfterFree
<1>1. /\ Members(net.queue) = {} /\ net.freed = {} /\ timers = {}
      /\ \A c \in Clients : thread[c] = "none" /\ owner[c] = None
      /\ Known = {} /\ \A k \in DOMAIN holder : holder[k] = None /\ fault = "none"
    BY DEF Init, ClientsInit, NetInit, NewLobbyClient, Known, Members
<1>2. fault = "none"
    BY DEF Init, ClientsInit
<1>3. WaitInv(net.queue, thread, timers, owner, lobby, holder)
    BY <1>1 DEF WaitInv
<1>4. AwaitInv(net.queue, net.alive, thread, owner)
    BY <1>1 DEF AwaitInv
<1>5. FreedInv(net.freed) /\ WholeInv /\ DelayInv
    BY <1>1 DEF FreedInv, WholeInv, DelayInv
<1>6. HeldInv
    BY <1>1 DEF HeldInv
<1>. QED BY <1>2, <1>3, <1>4, <1>5, <1>6 DEF FreeInv, NoUseAfterFree

LEMMA StepKeepsFree ==
    ASSUME Orderly, Places, CountInv, FreeInv, [Next]_vars, Sound', NoGhost'
    PROVE  FreeInv'
<1>1. CASE UNCHANGED vars
    <2>1. UNCHANGED <<thread, net, owner, lobby, entries, members, holder, tokens, timers>>
        BY <1>1 DEF vars, lobbyVars
    <2>. QED BY <2>1, CalledFree DEF FreeInv
<1>2. CASE Misuse
    BY <1>2 DEF Misuse, Sound
<1>. QED BY <1>1, <1>2, ThreadsFree, SendFree, TimersFree, QuietFree, ConnectedFree, ReviveFree,
            EnterFree, LeaveTableFree, DisconnectedFree, ToleratedFree DEF Next, Handle

LEMMA NothingIsMisused ==
    ASSUME Places, CountInv, HeldInv, Sound /\ NoGhost => FreeInv, NoUseAfterFree, [Next]_vars
    PROVE  NoUseAfterFree'
<1>1. CASE UNCHANGED vars
    <2>1. UNCHANGED <<fault, net, lobby, holder>>
        BY <1>1 DEF vars, lobbyVars
    <2>. QED BY <2>1 DEF NoUseAfterFree, Known, First
<1>2. CASE fault' \in {"none", "list"}
    BY <1>2 DEF NoUseAfterFree
<1>3. CASE Sound /\ \E c \in Clients : ReadFails(c) /\ fault' # "none" /\ UNCHANGED lobbyVars
    <2>1. PICK c \in Clients : ReadFails(c) /\ fault' = "thread" /\ c \in net.freed
        BY <1>3 DEF ReadFails, Sound
    <2>2. ~NoGhost
        <3>1. SUFFICES ASSUME FreeInv PROVE FALSE
            BY <1>3
        <3>2. owner[c] # None /\ Spent(lobby, owner[c]) /\ thread[c] = "receiving"
            BY <2>1, <3>1 DEF FreeInv, FreedInv, Dropped, Spent, ReadFails, Places, OwnersInv
        <3>. QED BY <3>1, <3>2 DEF FreeInv, WaitInv
    <2>3. UNCHANGED lobby
        BY <1>3 DEF lobbyVars
    <2>. QED BY <2>1, <2>2, <2>3 DEF NoUseAfterFree, NoGhost, Known
<1>4. CASE Misuse
    <2>1. Sound /\ net.queue # << >> /\ fault' = Hazard /\ UNCHANGED <<net, lobby, holder>>
        BY <1>4 DEF Misuse, lobbyVars
    <2>2. fault' \in {"none", "list", "node", "answer"} \/ \E l \in Known' : lobby'[l].ghost
        <3>1. CASE NoGhost
            BY <2>1, <3>1, HazardIs
        <3>2. CASE ~NoGhost
            BY <2>1, <3>2 DEF NoGhost, Known
        <3>. QED BY <3>1, <3>2
    <2>3. fault' = "node" => lobby'[holder'[First'.arg]].token # First'.arg
        <3>1. First' = First
            BY <2>1 DEF First
        <3>. QED BY <2>1, <3>1, NodeIs
    <2>. QED BY <2>2, <2>3 DEF NoUseAfterFree
<1>5. Sound \/ UNCHANGED vars
    BY SoundBefore
<1>6. CASE Sound /\ ~Misuse /\ fault' # fault /\ ~UNCHANGED vars
    <2>1. ThreadsStep
        BY <1>6 DEF Next, Handle, Send, SendLogin, SendToken, SendEnter, SendLeave, Receive,
            TimersDue, TimerDue, Connected, Login, AuthAnswered, AuthRefused, Revive, Enter,
            LeaveTable, Disconnected, ToleratedReturns, Tolerated
    <2>2. PICK c \in Clients : ThreadStep(c) /\ UNCHANGED lobbyVars
        BY <2>1 DEF ThreadsStep
    <2>3. ReadFails(c) \/ fault' = "list"
        BY <1>6, <2>2 DEF ThreadStep, Accept, AcceptOverCapacity, Announce, WriteFails
    <2>. QED BY <1>2, <1>3, <1>6, <2>2, <2>3
<1>. QED BY <1>1, <1>2, <1>4, <1>5, <1>6 DEF Sound

(* No thread and no task uses a client or lobby client that its counts     *)
(* have freed, whatever connections are lost, taken over and timed out, as *)
(* long as no lobby client was left revived at its tables; and the lobby   *)
(* client freed under a token is never the token's own any more.           *)
THEOREM NothingFreedIsUsed ==
    ASSUME Orderly
    PROVE  Spec => []NoUseAfterFree
<1> DEFINE Inv == /\ Places /\ CountInv /\ HeldInv
                  /\ Sound /\ NoGhost => FreeInv
                  /\ NoUseAfterFree
<1>1. Init => Inv
    BY InitPlaces, InitCounts, InitFree
<1>2. Inv /\ [Next]_vars => Inv'
    <2>1. SUFFICES ASSUME Inv, [Next]_vars PROVE Inv'
        OBVIOUS
    <2>2. Places' /\ CountInv' /\ HeldInv' /\ NoUseAfterFree'
        BY <2>1, StepKeepsPlaces, StepKeepsCounts, StepKeepsHeld, NothingIsMisused
    <2>3. ASSUME Sound', NoGhost' PROVE FreeInv'
        <3>1. NoGhost
            BY <2>1, <2>3, GhostsStay
        <3>2. Sound
            <4>1. UNCHANGED vars => Sound
                BY <2>3 DEF vars, Sound
            <4>. QED BY <2>1, <4>1, SoundBefore
        <3>. QED BY <2>1, <2>3, <3>1, <3>2, StepKeepsFree
    <2>. QED BY <2>2, <2>3
<1>3. Inv => NoUseAfterFree
    OBVIOUS
<1>. QED BY <1>1, <1>2, <1>3, PTL DEF Spec
=============================================================================
