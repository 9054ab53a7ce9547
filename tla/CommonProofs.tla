---------------------------- MODULE CommonProofs ------------------------------
(***************************************************************************)
(* What the components' proofs share: lemmas about lists and their         *)
(* members, about lists without repetitions, about sums over finite sets   *)
(* and sums that wrap, about what one showdown can pay whom (Showdown),    *)
(* and about the folds of the community modules, place by place.           *)
(***************************************************************************)
EXTENDS Integers, FiniteSetsExt, Lists, Showdown, TLAPS, FiniteSetTheorems,
        SequenceTheorems

(* A nonempty set of naturals has a least element.                         *)
LEMMA LeastNat ==
    ASSUME NEW S \in SUBSET Nat, S # {}
    PROVE  \E x \in S : \A y \in S : x <= y
<1> DEFINE Below == {0 .. x : x \in S}
<1>1. Below \subseteq FiniteSubsetsOf(Nat) /\ Below # {}
    <2>1. ASSUME NEW x \in S PROVE 0 .. x \in FiniteSubsetsOf(Nat)
        BY FS_Interval, x \in Nat DEF FiniteSubsetsOf
    <2>. QED BY <2>1
<1>2. PICK b \in Below : \A c \in Below : <<c, b>> \notin StrictSubsetOrdering(Nat)
    BY <1>1, FS_StrictSubsetOrderingWellFounded, WFMin
<1>3. PICK x \in S : b = 0 .. x
    OBVIOUS
<1>4. ASSUME NEW y \in S, ~(x <= y) PROVE FALSE
    <2>1. 0 .. y \in Below OBVIOUS
    <2>2. 0 .. y \subseteq 0 .. x /\ 0 .. y # 0 .. x
        BY <1>4, x \in Nat, y \in Nat, x \in 0 .. x, x \notin 0 .. y
    <2>3. 0 .. y \in SUBSET Nat /\ 0 .. x \in SUBSET Nat
        OBVIOUS
    <2>. QED BY <1>2, <1>3, <2>1, <2>2, <2>3 DEF StrictSubsetOrdering
<1>. QED BY <1>4

(* Without is what its recursive function says.                            *)
LEMMA WithoutUnfold ==
    ASSUME NEW T, NEW s \in Seq(T), NEW S
    PROVE  \E kept :
              /\ kept = [i \in 0 .. Len(s) |->
                            IF i = 0 THEN << >>
                            ELSE IF s[i] \in S THEN kept[i - 1] ELSE Append(kept[i - 1], s[i])]
              /\ Without(s, S) = kept[Len(s)]
<1> DEFINE n == Len(s)
           Next(f, i) == IF i = 0 THEN << >>
                         ELSE IF s[i] \in S THEN f[i - 1] ELSE Append(f[i - 1], s[i])
           Good(f, m) == /\ f \in [0 .. m -> Seq(T)]
                         /\ \A i \in 0 .. m : f[i] = Next(f, i)
           Bad == {m \in 0 .. n : ~ \E f : Good(f, m)}
<1>1. n \in Nat BY LenProperties
<1>2. ASSUME NEW i \in 1 .. n, NEW f, f[i - 1] \in Seq(T) PROVE Next(f, i) \in Seq(T)
    BY <1>2, <1>1, ElementOfSeq, AppendProperties
<1>3. Bad = {}
    <2>1. SUFFICES ASSUME Bad # {} PROVE FALSE OBVIOUS
    <2>2. PICK m \in Bad : \A k \in Bad : m <= k
        BY <2>1, <1>1, LeastNat, Bad \in SUBSET Nat
    <2>3. CASE m = 0
        <3>1. Good([i \in 0 .. 0 |-> << >>], 0) BY EmptySeq
        <3>. QED BY <3>1, <2>2, <2>3
    <2>4. CASE m # 0
        <3>1. m \in 1 .. n /\ m - 1 \in 0 .. n /\ ~(m <= m - 1)
            <4>1. m \in 0 .. n BY <2>2
            <4> HIDE DEF Good, n
            <4>. QED BY <4>1, <2>4, <1>1
        <3>2. PICK f : Good(f, m - 1)
            <4> HIDE DEF Good, n
            <4>. QED BY <2>2, <3>1
        <3>3. f[m - 1] \in Seq(T) BY <3>1, <3>2
        <3> DEFINE g == [i \in 0 .. m |-> IF i = m THEN Next(f, m) ELSE f[i]]
        <3>4. ASSUME NEW i \in 0 .. m PROVE g[i] \in Seq(T) /\ g[i] = Next(g, i)
            <4>1. CASE i = m BY <4>1, <3>1, <3>3, <1>2
            <4>2. CASE i # m
                <5>1. i \in 0 .. m - 1 /\ (i # 0 => i - 1 \in 0 .. m /\ i - 1 # m)
                    BY <4>2, <3>1
                <5>2. g[i] = f[i] /\ f[i] = Next(f, i) /\ f[i] \in Seq(T) BY <5>1, <3>2
                <5>3. i # 0 => g[i - 1] = f[i - 1] BY <5>1
                <5>. QED BY <5>2, <5>3
            <4>. QED BY <4>1, <4>2
        <3>5. Good(g, m) BY <3>4
        <3>. QED BY <3>5, <2>2
    <2>. QED BY <2>3, <2>4
<1>4. PICK f : Good(f, n)
    <2> HIDE DEF Good, n
    <2>. QED BY <1>3, <1>1, n \in 0 .. n
<1> DEFINE kept == CHOOSE h : h = [i \in 0 .. n |-> Next(h, i)]
<1>5. f = [i \in 0 .. n |-> Next(f, i)] BY <1>4
<1>6. kept = [i \in 0 .. n |-> Next(kept, i)] BY <1>5
<1>7. Without(s, S) = kept[n] BY DEF Without
<1>. QED BY <1>6, <1>7

(* Without returns a sequence over the same set.                           *)
LEMMA WithoutType ==
    ASSUME NEW T, NEW s \in Seq(T), NEW S
    PROVE  Without(s, S) \in Seq(T)
<1> DEFINE n == Len(s)
           Next(f, i) == IF i = 0 THEN << >>
                         ELSE IF s[i] \in S THEN f[i - 1] ELSE Append(f[i - 1], s[i])
<1>1. n \in Nat BY LenProperties
<1>2. ASSUME NEW i \in 1 .. n, NEW f, f[i - 1] \in Seq(T) PROVE Next(f, i) \in Seq(T)
    BY <1>2, <1>1, ElementOfSeq, AppendProperties
<1>3. PICK kept : kept = [i \in 0 .. n |-> Next(kept, i)] /\ Without(s, S) = kept[n]
    BY WithoutUnfold
<1> DEFINE Off == {i \in 0 .. n : kept[i] \notin Seq(T)}
<1>4. Off = {}
    <2>1. SUFFICES ASSUME Off # {} PROVE FALSE OBVIOUS
    <2>2. PICK m \in Off : \A k \in Off : m <= k BY <2>1, <1>1, LeastNat, Off \in SUBSET Nat
    <2>3. kept[m] = Next(kept, m) BY <1>3
    <2>4. CASE m = 0 BY <2>2, <2>3, <2>4, EmptySeq
    <2>5. CASE m # 0
        <3>1. m \in 1 .. n /\ kept[m - 1] \in Seq(T) BY <2>2, <2>5, <1>1
        <3>. QED BY <3>1, <2>2, <2>3, <1>2
    <2>. QED BY <2>4, <2>5
<1>5. kept[n] \in Seq(T) BY <1>1, <1>4
<1> HIDE DEF Next
<1>. QED BY <1>3, <1>5

-------------------------------------------------------------------------------

NoRepeats(s) == \A i, j \in DOMAIN s : s[i] = s[j] => i = j

(* The members of a list, by its length.                                   *)
LEMMA MembersByIndex ==
    ASSUME NEW T, NEW s \in Seq(T)
    PROVE  /\ Members(s) = {s[i] : i \in 1 .. Len(s)}
           /\ Members(s) \subseteq T
BY LenProperties, ElementOfSeq DEF Members

(* Removing from a list makes it no longer.                                *)
LEMMA WithoutLength ==
    ASSUME NEW T, NEW s \in Seq(T), NEW S
    PROVE  Len(Without(s, S)) \in Nat /\ Len(Without(s, S)) <= Len(s)
<1> DEFINE n == Len(s)
           NextOf(f, i) == IF i = 0 THEN << >>
                           ELSE IF s[i] \in S THEN f[i - 1] ELSE Append(f[i - 1], s[i])
           Short(i, r) == r \in Seq(T) /\ Len(r) \in Nat /\ Len(r) <= i
<1>1. n \in Nat BY LenProperties
<1>2. Short(0, << >>) BY EmptySeq
<1>3. ASSUME NEW i \in 1 .. n, NEW f, Short(i - 1, f[i - 1]) PROVE Short(i, NextOf(f, i))
    <2>1. s[i] \in T BY <1>1, ElementOfSeq
    <2>2. i # 0 BY <1>1
    <2>3. CASE s[i] \in S
        <3>1. NextOf(f, i) = f[i - 1] BY <2>2, <2>3
        <3> HIDE DEF NextOf
        <3>. QED BY <1>1, <1>3, <3>1
    <2>4. CASE s[i] \notin S
        <3>1. NextOf(f, i) = Append(f[i - 1], s[i]) BY <2>2, <2>4
        <3> HIDE DEF NextOf
        <3>2. /\ Append(f[i - 1], s[i]) \in Seq(T)
              /\ Len(Append(f[i - 1], s[i])) = Len(f[i - 1]) + 1
            BY <1>3, <2>1, AppendProperties
        <3>. QED BY <1>1, <1>3, <3>1, <3>2
    <2>. QED BY <2>3, <2>4
<1>4. PICK kept : kept = [i \in 0 .. n |-> NextOf(kept, i)] /\ Without(s, S) = kept[n]
    BY WithoutUnfold
<1> DEFINE Off == {i \in 0 .. n : ~Short(i, kept[i])}
<1>5. Off = {}
    <2>1. SUFFICES ASSUME Off # {} PROVE FALSE OBVIOUS
    <2>2. PICK m \in Off : \A k \in Off : m <= k BY <2>1, <1>1, LeastNat, Off \in SUBSET Nat
    <2>3. m \in 0 .. n /\ ~Short(m, kept[m]) BY <2>2
    <2>4. kept[m] = NextOf(kept, m) BY <1>4, <2>3
    <2>5. m # 0 BY <1>2, <2>3, <2>4
    <2>6. m \in 1 .. n /\ m - 1 \in 0 .. n /\ ~(m <= m - 1) BY <1>1, <2>3, <2>5
    <2>7. m - 1 \notin Off BY <2>2, <2>6
    <2>8. Short(m - 1, kept[m - 1]) BY <2>6, <2>7
    <2> HIDE DEF Short, NextOf, Off
    <2>. QED BY <1>3, <2>3, <2>4, <2>6, <2>8
<1>6. Short(n, kept[n]) BY <1>1, <1>5
<1>. QED BY <1>4, <1>6

(* Appending a new member.                                                 *)
LEMMA AppendMembers ==
    ASSUME NEW T, NEW s \in Seq(T), NEW e \in T
    PROVE  /\ Append(s, e) \in Seq(T)
           /\ Members(Append(s, e)) = Members(s) \cup {e}
           /\ NoRepeats(s) /\ e \notin Members(s) => NoRepeats(Append(s, e))
<1> DEFINE r == Append(s, e)
<1>1. /\ r \in Seq(T) /\ Len(s) \in Nat /\ Len(r) = Len(s) + 1
      /\ DOMAIN r = 1 .. Len(s) + 1 /\ DOMAIN s = 1 .. Len(s)
      /\ \A i \in 1 .. Len(s) : r[i] = s[i]
      /\ r[Len(s) + 1] = e
    BY AppendProperties, LenProperties
<1> HIDE DEF r
<1>2. Members(r) = Members(s) \cup {e} BY <1>1 DEF Members
<1>3. ASSUME NoRepeats(s), e \notin Members(s) PROVE NoRepeats(r)
    BY <1>1, <1>3 DEF NoRepeats, Members
<1>. QED BY <1>1, <1>2, <1>3 DEF r

(* Taking the first member.                                                *)
LEMMA TailMembers ==
    ASSUME NEW T, NEW s \in Seq(T), s # << >>
    PROVE  /\ Head(s) \in T /\ Tail(s) \in Seq(T)
           /\ Members(s) = Members(Tail(s)) \cup {Head(s)}
           /\ NoRepeats(s) => NoRepeats(Tail(s)) /\ Head(s) \notin Members(Tail(s))
<1> DEFINE r == Tail(s)
<1>1. /\ Head(s) \in T /\ Head(s) = s[1] /\ r \in Seq(T)
      /\ Len(s) \in Nat \ {0} /\ Len(r) = Len(s) - 1
      /\ DOMAIN r = 1 .. Len(s) - 1 /\ DOMAIN s = 1 .. Len(s)
      /\ \A i \in 1 .. Len(s) - 1 : r[i] = s[i + 1]
    BY HeadTailProperties, LenProperties, EmptySeq
<1> HIDE DEF r
<1>2. Members(s) = Members(r) \cup {s[1]}
    <2>1. ASSUME NEW i \in DOMAIN s, i # 1 PROVE s[i] = r[i - 1] /\ i - 1 \in DOMAIN r
        BY <1>1, <2>1
    <2>2. ASSUME NEW i \in DOMAIN r PROVE r[i] = s[i + 1] /\ i + 1 \in DOMAIN s
        BY <1>1
    <2>3. 1 \in DOMAIN s BY <1>1
    <2>4. ASSUME NEW x \in Members(s) PROVE x \in Members(r) \cup {s[1]}
        <3>1. PICK i \in DOMAIN s : x = s[i] BY DEF Members
        <3>. QED BY <2>1, <3>1 DEF Members
    <2>5. ASSUME NEW x \in Members(r) PROVE x \in Members(s)
        <3>1. PICK i \in DOMAIN r : x = r[i] BY DEF Members
        <3>. QED BY <2>2, <3>1 DEF Members
    <2>6. s[1] \in Members(s) BY <2>3 DEF Members
    <2>. QED BY <2>4, <2>5, <2>6
<1>3. ASSUME NoRepeats(s) PROVE NoRepeats(r) /\ s[1] \notin Members(r)
    <2>1. ASSUME NEW i \in DOMAIN r
          PROVE  r[i] = s[i + 1] /\ i \in Nat \ {0} /\ i + 1 \in DOMAIN s
        BY <1>1
    <2>2. ASSUME NEW i \in DOMAIN r, NEW j \in DOMAIN r, r[i] = r[j] PROVE i = j
        <3>1. i + 1 = j + 1 BY <2>1, <2>2, <1>3 DEF NoRepeats
        <3>. QED BY <3>1, <2>1
    <2>3. ASSUME NEW i \in DOMAIN r, r[i] = s[1] PROVE FALSE
        <3>1. i + 1 = 1 BY <1>1, <2>1, <2>3, <1>3 DEF NoRepeats
        <3>. QED BY <3>1, <2>1
    <2>. QED BY <2>2, <2>3 DEF NoRepeats, Members
<1>. QED BY <1>1, <1>2, <1>3 DEF r

(* The members Without keeps; a list with nothing to remove stays.         *)
LEMMA WithoutMembers ==
    ASSUME NEW T, NEW s \in Seq(T), NEW S
    PROVE  /\ Members(Without(s, S)) = Members(s) \ S
           /\ NoRepeats(s) => NoRepeats(Without(s, S))
           /\ Members(s) \cap S = {} => Without(s, S) = s
<1> DEFINE n == Len(s)
           Next(f, i) == IF i = 0 THEN << >>
                         ELSE IF s[i] \in S THEN f[i - 1] ELSE Append(f[i - 1], s[i])
           Upto(i) == {s[j] : j \in 1 .. i}
           Kept(i, r) == /\ r \in Seq(T)
                         /\ Members(r) = Upto(i) \ S
                         /\ NoRepeats(s) => NoRepeats(r)
                         /\ Members(s) \cap S = {} =>
                                Len(r) = i /\ \A j \in 1 .. i : r[j] = s[j]
<1>1. n \in Nat /\ DOMAIN s = 1 .. n BY LenProperties
<1>2. PICK kept : kept = [i \in 0 .. n |-> Next(kept, i)] /\ Without(s, S) = kept[n]
    BY WithoutUnfold
<1>3. Kept(0, << >>)
    BY EmptySeq, LenProperties DEF Members, NoRepeats
<1>4. ASSUME NEW i \in 1 .. n, NEW r, Kept(i - 1, r), s[i] \in S PROVE Kept(i, r)
    <2>1. Upto(i) = Upto(i - 1) \cup {s[i]} BY <1>1
    <2>2. s[i] \in Members(s) BY <1>1 DEF Members
    <2>. QED BY <1>4, <2>1, <2>2
<1>5. ASSUME NEW i \in 1 .. n, NEW r, Kept(i - 1, r), s[i] \notin S
      PROVE  Kept(i, Append(r, s[i]))
    <2>1. Upto(i) = Upto(i - 1) \cup {s[i]} BY <1>1
    <2>2. s[i] \in T BY <1>1, ElementOfSeq
    <2>3. NoRepeats(s) => s[i] \notin Upto(i - 1) BY <1>1 DEF NoRepeats
    <2>4. /\ Append(r, s[i]) \in Seq(T)
          /\ Members(Append(r, s[i])) = Upto(i) \ S
          /\ NoRepeats(s) => NoRepeats(Append(r, s[i]))
        BY <1>5, <2>1, <2>2, <2>3, AppendMembers
    <2>5. ASSUME Members(s) \cap S = {}
          PROVE  /\ Len(Append(r, s[i])) = i
                 /\ \A j \in 1 .. i : Append(r, s[i])[j] = s[j]
        <3>1. Len(r) = i - 1 /\ \A j \in 1 .. i - 1 : r[j] = s[j] BY <1>5, <2>5
        <3>2. /\ Len(Append(r, s[i])) = Len(r) + 1
              /\ \A j \in 1 .. Len(r) : Append(r, s[i])[j] = r[j]
              /\ Append(r, s[i])[Len(r) + 1] = s[i]
            BY <1>5, <2>2, AppendProperties
        <3>. QED BY <1>1, <3>1, <3>2
    <2>. QED BY <2>4, <2>5
<1> DEFINE Off == {i \in 0 .. n : ~Kept(i, kept[i])}
<1>6. Off = {}
    <2>1. SUFFICES ASSUME Off # {} PROVE FALSE OBVIOUS
    <2>2. PICK m \in Off : \A k \in Off : m <= k
        <3> HIDE DEF Kept
        <3>. QED BY <2>1, <1>1, LeastNat, Off \in SUBSET Nat
    <2>3. kept[m] = Next(kept, m) BY <1>2
    <2>4. CASE m = 0 BY <2>2, <2>3, <2>4, <1>3
    <2>5. CASE m # 0
        <3> HIDE DEF Kept
        <3>1. m \in 1 .. n /\ Kept(m - 1, kept[m - 1]) BY <2>2, <2>5, <1>1
        <3>. QED BY <3>1, <2>2, <2>3, <1>4, <1>5
    <2>. QED BY <2>4, <2>5
<1>7. Kept(n, Without(s, S))
    <2> HIDE DEF Kept
    <2>. QED BY <1>1, <1>2, <1>6
<1>8. Upto(n) = Members(s) BY <1>1 DEF Members
<1>9. Members(s) \cap S = {} => Without(s, S) = s BY <1>1, <1>7, SeqEqual
<1>. QED BY <1>7, <1>8, <1>9

(* Induction over the subsets of a finite set: P holds all of them when it *)
(* holds each whose subsets with one element less it holds.                *)
LEMMA BySmaller ==
    ASSUME NEW T, IsFiniteSet(T), NEW P \in SUBSET (SUBSET T),
           \A s \in SUBSET T : (\A x \in s : s \ {x} \in P) => s \in P
    PROVE  \A s \in SUBSET T : s \in P
<1> DEFINE Off == {n \in Nat : \E s \in SUBSET T : s \notin P /\ Cardinality(s) = n}
<1>1. \A s \in SUBSET T : IsFiniteSet(s) /\ Cardinality(s) \in Nat
    BY FS_Subset, FS_CardinalityType
<1>2. SUFFICES ASSUME NEW r \in SUBSET T, r \notin P PROVE FALSE
    OBVIOUS
<1>3. Cardinality(r) \in Off
    BY <1>1, <1>2
<1>4. PICK n \in Off : \A m \in Off : n <= m
    <2>1. Off \in SUBSET Nat /\ Off # {}
        BY <1>3
    <2> HIDE DEF Off
    <2>2. QED
        BY <2>1, LeastNat
<1>5. PICK s \in SUBSET T : s \notin P /\ n = Cardinality(s)
    OBVIOUS
<1>6. ~(\A x \in s : s \ {x} \in P)
    BY <1>5
<1>7. PICK x \in s : s \ {x} \notin P
    BY <1>6
<1>8. s \ {x} \in SUBSET T /\ Cardinality(s \ {x}) = n - 1 /\ n - 1 \in Nat
    <2>1. IsFiniteSet(s) /\ Cardinality(s \ {x}) \in Nat /\ n \in Nat
        BY <1>1, <1>5
    <2>2. Cardinality(s \ {x}) = Cardinality(s) - 1
        BY <2>1, FS_RemoveElement
    <2>3. QED
        BY <1>5, <2>1, <2>2
<1>9. n - 1 \in Off
    BY <1>7, <1>8
<1>10. n <= n - 1 /\ n \in Nat
    BY <1>4, <1>9
<1>11. QED
    BY <1>10

(* The sum of f over the finite set S, as MapThenSumSet computes it.       *)
SumOf(f, S) ==
    LET sum[s \in SUBSET S] ==
            IF s = {} THEN 0
            ELSE LET x == CHOOSE x \in s : TRUE
                 IN  f[x] + sum[s \ {x}]
    IN  sum[S]

(* g has the sums of f over the subsets of S, in whatever order.           *)
Adds(g, f, S) ==
    /\ g \in [SUBSET S -> Nat]
    /\ g[{}] = 0
    /\ \A s \in SUBSET S : \A x \in s : g[s] = f[x] + g[s \ {x}]

(* There is such a function.                                               *)
LEMMA AddsExists ==
    ASSUME NEW T, IsFiniteSet(T), NEW f, \A x \in T : f[x] \in Nat
    PROVE  \E g : Adds(g, f, T)
<1> DEFINE P == {s \in SUBSET T : \E g : Adds(g, f, s)}
<1>1. ASSUME NEW s \in SUBSET T, \A x \in s : s \ {x} \in P
      PROVE  s \in P
    <2>1. CASE s = {}
        <3> DEFINE g == [r \in SUBSET s |-> 0]
        <3>1. Adds(g, f, s)
            BY <2>1 DEF Adds
        <3>2. QED
            BY <3>1
    <2>2. ASSUME NEW a \in s PROVE s \in P
        <3> DEFINE rest == s \ {a}
        <3>1. PICK h : Adds(h, f, rest)
            BY <1>1
        <3> DEFINE g == [r \in SUBSET s |-> IF a \in r THEN f[a] + h[r \ {a}] ELSE h[r]]
        <3>2. /\ h \in [SUBSET rest -> Nat] /\ h[{}] = 0
              /\ \A r \in SUBSET rest : \A x \in r : h[r] = f[x] + h[r \ {x}]
            BY <3>1 DEF Adds
        <3>3. f[a] \in Nat
            BY <2>2
        <3>4. ASSUME NEW r \in SUBSET s
              PROVE  /\ a \in r => r \ {a} \in SUBSET rest
                     /\ a \notin r => r \in SUBSET rest
                     /\ g[r] \in Nat
            BY <3>2, <3>3
        <3>5. ASSUME NEW r \in SUBSET s, NEW x \in r
              PROVE  g[r] = f[x] + g[r \ {x}]
            <4>1. r \ {x} \in SUBSET s
                OBVIOUS
            <4>2. CASE a \notin r
                <5>1. r \in SUBSET rest /\ a \notin r \ {x}
                    BY <4>2
                <5>2. g[r] = h[r] /\ g[r \ {x}] = h[r \ {x}]
                    BY <4>1, <4>2, <5>1
                <5>3. QED
                    BY <3>2, <5>1, <5>2
            <4>3. CASE a \in r /\ x = a
                <5>1. g[r] = f[a] + h[r \ {a}] /\ g[r \ {x}] = h[r \ {a}]
                    BY <4>1, <4>3
                <5>2. QED
                    BY <4>3, <5>1
            <4>4. CASE a \in r /\ x # a
                <5>1. r \ {a} \in SUBSET rest /\ x \in r \ {a} /\ a \in r \ {x}
                    BY <4>4
                <5>2. (r \ {a}) \ {x} = (r \ {x}) \ {a}
                    OBVIOUS
                <5>3. h[r \ {a}] = f[x] + h[(r \ {x}) \ {a}]
                    <6>1. h[r \ {a}] = f[x] + h[(r \ {a}) \ {x}]
                        BY <3>2, <5>1
                    <6>2. QED
                        BY <5>2, <6>1
                <5>4. g[r] = f[a] + h[r \ {a}] /\ g[r \ {x}] = f[a] + h[(r \ {x}) \ {a}]
                    BY <4>1, <4>4, <5>1
                <5>5. f[x] \in Nat /\ h[(r \ {x}) \ {a}] \in Nat
                    <6>1. (r \ {x}) \ {a} \in SUBSET rest /\ x \in T
                        BY <5>1
                    <6>2. QED
                        BY <3>2, <6>1
                <5>6. QED
                    BY <3>3, <5>3, <5>4, <5>5
            <4>5. QED
                BY <4>2, <4>3, <4>4
        <3>6. g[{}] = 0
            BY <3>2
        <3>7. g \in [SUBSET s -> Nat]
            BY <3>4
        <3> HIDE DEF g
        <3>8. Adds(g, f, s)
            BY <3>5, <3>6, <3>7 DEF Adds
        <3>9. QED
            BY <3>8
    <2>3. QED
        BY <2>1, <2>2
<1>2. P \in SUBSET (SUBSET T)
    OBVIOUS
<1> HIDE DEF P
<1>3. T \in P
    BY <1>1, <1>2, BySmaller
<1>4. QED
    BY <1>3 DEF P

(* It is the sum, on every subset.                                         *)
LEMMA AddsIsSum ==
    ASSUME NEW T, IsFiniteSet(T), NEW f, NEW g, Adds(g, f, T), NEW S \in SUBSET T
    PROVE  SumOf(f, S) = g[S]
<1> DEFINE Step(h, s) == IF s = {} THEN 0
                         ELSE f[CHOOSE x \in s : TRUE] + h[s \ {CHOOSE x \in s : TRUE}]
           sum == CHOOSE h : h = [s \in SUBSET S |-> Step(h, s)]
           k == [s \in SUBSET S |-> g[s]]
<1>1. SumOf(f, S) = sum[S]
    BY DEF SumOf
<1>2. ASSUME NEW s \in SUBSET S PROVE k[s] = Step(k, s)
    <2>1. CASE s = {}
        BY <2>1 DEF Adds
    <2>2. CASE s # {}
        <3>1. (CHOOSE x \in s : TRUE) \in s
            BY <2>2
        <3> DEFINE x == CHOOSE x \in s : TRUE
        <3>2. k[s] = g[s] /\ s \in SUBSET T
            OBVIOUS
        <3>3. g[s] = f[x] + g[s \ {x}]
            BY <3>1, <3>2 DEF Adds
        <3>4. k[s \ {x}] = g[s \ {x}]
            OBVIOUS
        <3>5. QED
            BY <2>2, <3>2, <3>3, <3>4
    <2>3. QED
        BY <2>1, <2>2
<1>3. k = [s \in SUBSET S |-> Step(k, s)]
    BY <1>2
<1>4. sum = [s \in SUBSET S |-> Step(sum, s)]
    BY <1>3
<1> HIDE DEF sum
<1> DEFINE P == {s \in SUBSET S : sum[s] = k[s]}
<1>5. ASSUME NEW s \in SUBSET S, \A x \in s : s \ {x} \in P PROVE s \in P
    <2>1. sum[s] = Step(sum, s)
        BY <1>4
    <2>2. CASE s = {}
        BY <1>2, <2>1, <2>2
    <2>3. CASE s # {}
        <3>1. (CHOOSE x \in s : TRUE) \in s
            BY <2>3
        <3>2. sum[s \ {CHOOSE x \in s : TRUE}] = k[s \ {CHOOSE x \in s : TRUE}]
            BY <1>5, <3>1
        <3>3. k[s] = Step(k, s)
            BY <1>2
        <3> HIDE DEF k
        <3>4. QED
            BY <2>1, <2>3, <3>2, <3>3
    <2>4. QED
        BY <2>2, <2>3
<1>6. P \in SUBSET (SUBSET S) /\ IsFiniteSet(S)
    BY FS_Subset
<1> HIDE DEF P
<1>7. S \in P
    BY <1>5, <1>6, BySmaller
<1>8. sum[S] = k[S]
    BY <1>7 DEF P
<1>9. QED
    BY <1>1, <1>8

(* A sum, taken apart at any element.                                      *)
LEMMA SumStep ==
    ASSUME NEW T, IsFiniteSet(T), NEW f, \A x \in T : f[x] \in Nat
    PROVE  /\ SumOf(f, T) \in Nat
           /\ SumOf(f, {}) = 0
           /\ \A x \in T : SumOf(f, T) = f[x] + SumOf(f, T \ {x})
<1>1. PICK g : Adds(g, f, T)
    BY AddsExists
<1>2. \A s \in SUBSET T : SumOf(f, s) = g[s]
    BY <1>1, AddsIsSum
<1>3. QED
    BY <1>1, <1>2 DEF Adds

(* The sum of what is at most a sum of two is at most the two sums.        *)
LEMMA SumWithin ==
    ASSUME NEW T, IsFiniteSet(T), NEW f, NEW g, NEW h,
           \A x \in T : f[x] \in Nat /\ g[x] \in Nat /\ h[x] \in Nat /\ h[x] <= f[x] + g[x]
    PROVE  SumOf(h, T) <= SumOf(f, T) + SumOf(g, T)
<1> DEFINE P == {s \in SUBSET T : SumOf(h, s) <= SumOf(f, s) + SumOf(g, s)}
<1>1. ASSUME NEW s \in SUBSET T
      PROVE  /\ SumOf(f, s) \in Nat /\ SumOf(g, s) \in Nat /\ SumOf(h, s) \in Nat
             /\ SumOf(f, {}) = 0 /\ SumOf(g, {}) = 0 /\ SumOf(h, {}) = 0
             /\ \A x \in s : /\ SumOf(f, s) = f[x] + SumOf(f, s \ {x})
                            /\ SumOf(g, s) = g[x] + SumOf(g, s \ {x})
                            /\ SumOf(h, s) = h[x] + SumOf(h, s \ {x})
    <2>1. IsFiniteSet(s) /\ \A x \in s : f[x] \in Nat /\ g[x] \in Nat /\ h[x] \in Nat
        BY FS_Subset
    <2>2. QED
        BY <2>1, SumStep
<1>2. ASSUME NEW s \in SUBSET T, \A x \in s : s \ {x} \in P PROVE s \in P
    <2>1. CASE s = {}
        BY <1>1, <2>1
    <2>2. ASSUME NEW x \in s PROVE s \in P
        <3>1. SumOf(h, s \ {x}) <= SumOf(f, s \ {x}) + SumOf(g, s \ {x})
            BY <1>2
        <3>2. /\ SumOf(f, s) = f[x] + SumOf(f, s \ {x})
              /\ SumOf(g, s) = g[x] + SumOf(g, s \ {x})
              /\ SumOf(h, s) = h[x] + SumOf(h, s \ {x})
            BY <1>1
        <3>3. /\ SumOf(f, s \ {x}) \in Nat /\ SumOf(g, s \ {x}) \in Nat
              /\ SumOf(h, s \ {x}) \in Nat
            BY <1>1, s \ {x} \in SUBSET T
        <3>4. f[x] \in Nat /\ g[x] \in Nat /\ h[x] \in Nat /\ h[x] <= f[x] + g[x]
            BY x \in T
        <3>5. SumOf(h, s) <= SumOf(f, s) + SumOf(g, s)
            BY <3>1, <3>2, <3>3, <3>4
        <3>6. QED
            BY <3>5
    <2>3. QED
        BY <2>1, <2>2
<1>3. P \in SUBSET (SUBSET T)
    OBVIOUS
<1> HIDE DEF P
<1>4. T \in P
    BY <1>2, <1>3, BySmaller
<1>5. QED
    BY <1>4 DEF P

(* Nothing sums to nothing.                                                *)
LEMMA SumOfNothing ==
    ASSUME NEW T, IsFiniteSet(T), NEW f, \A x \in T : f[x] = 0
    PROVE  SumOf(f, T) = 0
<1> DEFINE P == {s \in SUBSET T : SumOf(f, s) = 0}
<1>1. ASSUME NEW s \in SUBSET T, \A x \in s : s \ {x} \in P PROVE s \in P
    <2>1. IsFiniteSet(s) /\ \A x \in s : f[x] \in Nat /\ f[x] = 0
        BY FS_Subset
    <2>2. /\ SumOf(f, {}) = 0
          /\ \A x \in s : SumOf(f, s) = f[x] + SumOf(f, s \ {x})
        BY <2>1, SumStep
    <2>3. CASE s = {}
        BY <2>2, <2>3
    <2>4. ASSUME NEW x \in s PROVE s \in P
        <3>1. SumOf(f, s \ {x}) = 0 /\ f[x] = 0
            BY <1>1, <2>1
        <3>2. QED
            BY <2>2, <3>1
    <2>5. QED
        BY <2>3, <2>4
<1>2. P \in SUBSET (SUBSET T)
    OBVIOUS
<1> HIDE DEF P
<1>3. T \in P
    BY <1>1, <1>2, BySmaller
<1>4. QED
    BY <1>3 DEF P

(* Sums of less are less, and sums of the same are the same.               *)
LEMMA SumMonotone ==
    ASSUME NEW T, IsFiniteSet(T), NEW f, NEW g,
           \A x \in T : f[x] \in Nat /\ g[x] \in Nat /\ f[x] <= g[x]
    PROVE  /\ SumOf(f, T) <= SumOf(g, T)
           /\ (\A x \in T : f[x] = g[x]) => SumOf(f, T) = SumOf(g, T)
<1> DEFINE zero == [x \in T |-> 0]
<1>1. SumOf(zero, T) = 0
    BY SumOfNothing
<1>2. \A x \in T : zero[x] = 0
    OBVIOUS
<1> HIDE DEF zero
<1>3. SumOf(f, T) \in Nat /\ SumOf(g, T) \in Nat
    BY SumStep
<1>4. SumOf(f, T) <= SumOf(g, T) + SumOf(zero, T)
    <2>1. \A x \in T : g[x] \in Nat /\ zero[x] \in Nat /\ f[x] \in Nat /\ f[x] <= g[x] + zero[x]
        BY <1>2
    <2>2. QED
        BY <2>1, SumWithin
<1>5. ASSUME \A x \in T : f[x] = g[x] PROVE SumOf(g, T) <= SumOf(f, T) + SumOf(zero, T)
    <2>1. \A x \in T : g[x] \in Nat /\ zero[x] \in Nat /\ f[x] \in Nat /\ g[x] <= f[x] + zero[x]
        BY <1>2, <1>5
    <2>2. QED
        BY <2>1, SumWithin
<1>6. QED
    BY <1>1, <1>3, <1>4, <1>5

(* A part sums to no more than the whole.                                  *)
LEMMA SumOfPart ==
    ASSUME NEW T, IsFiniteSet(T), NEW f, \A x \in T : f[x] \in Nat, NEW S \in SUBSET T
    PROVE  SumOf(f, S) <= SumOf(f, T)
<1> DEFINE P == {s \in SUBSET T : SumOf(f, S \cap s) <= SumOf(f, s)}
<1>1. ASSUME NEW s \in SUBSET T, \A x \in s : s \ {x} \in P PROVE s \in P
    <2>1. IsFiniteSet(s) /\ IsFiniteSet(S \cap s)
        BY FS_Subset
    <2>2. /\ SumOf(f, {}) = 0 /\ SumOf(f, s) \in Nat /\ SumOf(f, S \cap s) \in Nat
          /\ \A x \in s : SumOf(f, s) = f[x] + SumOf(f, s \ {x})
          /\ \A x \in S \cap s : SumOf(f, S \cap s) = f[x] + SumOf(f, (S \cap s) \ {x})
        BY <2>1, SumStep
    <2>3. CASE s = {}
        <3>1. S \cap s = {}
            BY <2>3
        <3>2. SumOf(f, S \cap s) = 0 /\ SumOf(f, s) = 0
            BY <2>2, <2>3, <3>1
        <3>3. QED
            BY <3>2
    <2>4. ASSUME NEW x \in s PROVE s \in P
        <3> DEFINE r == s \ {x}
        <3>1. SumOf(f, S \cap r) <= SumOf(f, r) /\ r \in SUBSET T
            BY <1>1
        <3>2. SumOf(f, S \cap r) \in Nat /\ SumOf(f, r) \in Nat
            <4>1. IsFiniteSet(r) /\ IsFiniteSet(S \cap r) /\ S \cap r \in SUBSET T
                BY <3>1, FS_Subset
            <4>2. QED
                BY <3>1, <4>1, SumStep
        <3>3. SumOf(f, s) = f[x] + SumOf(f, r) /\ f[x] \in Nat
            BY <2>2
        <3>4. CASE x \in S
            <4>1. (S \cap s) \ {x} = S \cap r /\ x \in S \cap s
                BY <3>4
            <4>2. SumOf(f, S \cap s) = f[x] + SumOf(f, S \cap r)
                BY <2>2, <4>1
            <4>3. SumOf(f, S \cap s) <= SumOf(f, s)
                BY <3>1, <3>2, <3>3, <4>2
            <4>4. QED
                BY <4>3
        <3>5. CASE x \notin S
            <4>1. S \cap s = S \cap r
                BY <3>5
            <4>2. SumOf(f, S \cap s) = SumOf(f, S \cap r)
                BY <4>1
            <4>3. SumOf(f, S \cap s) <= SumOf(f, s)
                BY <3>1, <3>2, <3>3, <4>2
            <4>4. QED
                BY <4>3
        <3>6. QED
            BY <3>4, <3>5
    <2>5. QED
        BY <2>3, <2>4
<1>2. P \in SUBSET (SUBSET T)
    OBVIOUS
<1> HIDE DEF P
<1>3. T \in P
    BY <1>1, <1>2, BySmaller
<1>4. S \cap T = S
    OBVIOUS
<1>5. QED
    BY <1>3, <1>4 DEF P

(* A sum is the sum of two parts.                                          *)
LEMMA SumSplit ==
    ASSUME NEW T, IsFiniteSet(T), NEW f, \A x \in T : f[x] \in Nat, NEW S \in SUBSET T
    PROVE  SumOf(f, T) = SumOf(f, S) + SumOf(f, T \ S)
<1> DEFINE P == {s \in SUBSET T : SumOf(f, s) = SumOf(f, S \cap s) + SumOf(f, s \ S)}
<1>1. ASSUME NEW s \in SUBSET T, \A x \in s : s \ {x} \in P PROVE s \in P
    <2> DEFINE u == S \cap s
               v == s \ S
    <2>1. IsFiniteSet(s) /\ IsFiniteSet(u) /\ IsFiniteSet(v)
        BY FS_Subset
    <2>2. /\ SumOf(f, {}) = 0 /\ SumOf(f, u) \in Nat /\ SumOf(f, v) \in Nat
          /\ \A x \in s : SumOf(f, s) = f[x] + SumOf(f, s \ {x})
          /\ \A x \in u : SumOf(f, u) = f[x] + SumOf(f, u \ {x})
          /\ \A x \in v : SumOf(f, v) = f[x] + SumOf(f, v \ {x})
        <3>1. /\ \A x \in s : f[x] \in Nat
              /\ \A x \in u : f[x] \in Nat
              /\ \A x \in v : f[x] \in Nat
            OBVIOUS
        <3> HIDE DEF u, v
        <3>2. QED
            BY <2>1, <3>1, SumStep
    <2>3. CASE s = {}
        <3>1. u = {} /\ v = {} /\ s = {}
            BY <2>3
        <3>2. SumOf(f, s) = 0 /\ SumOf(f, u) = 0 /\ SumOf(f, v) = 0
            BY <2>2, <3>1
        <3>3. QED
            BY <3>2
    <2>4. ASSUME NEW x \in s PROVE s \in P
        <3> DEFINE r == s \ {x}
        <3>1. SumOf(f, r) = SumOf(f, S \cap r) + SumOf(f, r \ S) /\ r \in SUBSET T
            BY <1>1
        <3>2. SumOf(f, S \cap r) \in Nat /\ SumOf(f, r \ S) \in Nat /\ f[x] \in Nat
            <4>1. /\ IsFiniteSet(S \cap r) /\ IsFiniteSet(r \ S)
                  /\ S \cap r \in SUBSET T /\ r \ S \in SUBSET T
                BY <3>1, FS_Subset
            <4> HIDE DEF r
            <4>2. QED
                BY <4>1, SumStep
        <3>3. SumOf(f, s) = f[x] + SumOf(f, r)
            BY <2>2
        <3>4. CASE x \in S
            <4>1. u \ {x} = S \cap r /\ x \in u /\ v = r \ S
                BY <3>4
            <4>2. SumOf(f, u) = f[x] + SumOf(f, S \cap r) /\ SumOf(f, v) = SumOf(f, r \ S)
                BY <2>2, <4>1
            <4> HIDE DEF u, v, r
            <4>3. SumOf(f, s) = SumOf(f, u) + SumOf(f, v)
                BY <3>1, <3>2, <3>3, <4>2
            <4>4. QED
                BY <4>3 DEF u, v
        <3>5. CASE x \notin S
            <4>1. v \ {x} = r \ S /\ x \in v /\ u = S \cap r
                BY <3>5
            <4>2. SumOf(f, v) = f[x] + SumOf(f, r \ S) /\ SumOf(f, u) = SumOf(f, S \cap r)
                BY <2>2, <4>1
            <4> HIDE DEF u, v, r
            <4>3. SumOf(f, s) = SumOf(f, u) + SumOf(f, v)
                BY <3>1, <3>2, <3>3, <4>2
            <4>4. QED
                BY <4>3 DEF u, v
        <3>6. QED
            BY <3>4, <3>5
    <2>5. QED
        BY <2>3, <2>4
<1>2. P \in SUBSET (SUBSET T)
    OBVIOUS
<1> HIDE DEF P
<1>3. T \in P
    BY <1>1, <1>2, BySmaller
<1>4. S \cap T = S
    OBVIOUS
<1>5. QED
    BY <1>3, <1>4 DEF P

(* What changes at one element changes the sum by as much.                 *)
LEMMA SumChange ==
    ASSUME NEW T, IsFiniteSet(T), NEW f, NEW g, NEW q \in T,
           \A x \in T : f[x] \in Nat /\ g[x] \in Nat,
           \A x \in T \ {q} : f[x] = g[x]
    PROVE  SumOf(f, T) + g[q] = SumOf(g, T) + f[q]
<1> DEFINE R == T \ {q}
<1>1. IsFiniteSet(R) /\ \A x \in R : f[x] \in Nat /\ g[x] \in Nat /\ f[x] = g[x]
    BY FS_Subset
<1>2. SumOf(f, R) = SumOf(g, R)
    <2> HIDE DEF R
    <2>1. \A x \in R : f[x] <= g[x]
        BY <1>1
    <2>2. QED
        BY <1>1, <2>1, SumMonotone
<1>3. SumOf(f, T) = f[q] + SumOf(f, R) /\ SumOf(g, T) = g[q] + SumOf(g, R)
    BY SumStep
<1>4. f[q] \in Nat /\ g[q] \in Nat /\ SumOf(f, R) \in Nat
    BY <1>1, SumStep
<1>5. QED
    BY <1>2, <1>3, <1>4

(* Taking r from each of C, and nothing given to others, takes r times     *)
(* their number from the sum.                                              *)
LEMMA SumTaken ==
    ASSUME NEW T, IsFiniteSet(T), NEW f, NEW g, NEW C \in SUBSET T, NEW r \in Nat,
           \A x \in T : f[x] \in Nat /\ g[x] \in Nat /\ g[x] <= f[x],
           \A x \in C : g[x] + r <= f[x]
    PROVE  SumOf(g, T) + r * Cardinality(C) <= SumOf(f, T)
<1> DEFINE P == {s \in SUBSET T : SumOf(g, s) + r * Cardinality(C \cap s) <= SumOf(f, s)}
<1>1. ASSUME NEW s \in SUBSET T, \A x \in s : s \ {x} \in P PROVE s \in P
    <2>1. IsFiniteSet(s) /\ IsFiniteSet(C \cap s) /\ Cardinality(C \cap s) \in Nat
        BY FS_Subset, FS_CardinalityType
    <2>2. /\ SumOf(f, {}) = 0 /\ SumOf(g, {}) = 0
          /\ SumOf(f, s) \in Nat /\ SumOf(g, s) \in Nat
          /\ \A x \in s : /\ SumOf(f, s) = f[x] + SumOf(f, s \ {x})
                         /\ SumOf(g, s) = g[x] + SumOf(g, s \ {x})
        BY <2>1, SumStep
    <2>3. CASE s = {}
        <3>1. C \cap s = {} /\ Cardinality({}) = 0
            BY <2>3, FS_EmptySet
        <3>2. r * 0 = 0
            OBVIOUS
        <3>3. SumOf(g, s) + r * Cardinality(C \cap s) <= SumOf(f, s)
            BY <2>2, <2>3, <3>1, <3>2
        <3>4. QED
            BY <3>3
    <2>4. ASSUME NEW x \in s PROVE s \in P
        <3> DEFINE t == s \ {x}
                   n == Cardinality(C \cap t)
        <3>1. SumOf(g, t) + r * n <= SumOf(f, t) /\ t \in SUBSET T
            BY <1>1
        <3>2. SumOf(g, t) \in Nat /\ SumOf(f, t) \in Nat /\ n \in Nat
            <4>1. IsFiniteSet(t) /\ IsFiniteSet(C \cap t)
                BY <3>1, FS_Subset
            <4>2. QED
                BY <3>1, <4>1, SumStep, FS_CardinalityType
        <3>3. /\ SumOf(f, s) = f[x] + SumOf(f, t) /\ SumOf(g, s) = g[x] + SumOf(g, t)
              /\ f[x] \in Nat /\ g[x] \in Nat /\ g[x] <= f[x]
            BY <2>2
        <3>4. CASE x \in C
            <4>1. (C \cap s) \ {x} = C \cap t /\ x \in C \cap s
                BY <3>4
            <4>2. Cardinality(C \cap s) = n + 1
                <5>1. Cardinality((C \cap s) \ {x}) = Cardinality(C \cap s) - 1
                    BY <2>1, <4>1, FS_RemoveElement
                <5>2. n = Cardinality(C \cap s) - 1
                    BY <4>1, <5>1
                <5>3. QED
                    BY <2>1, <5>2
            <4>3. g[x] + r <= f[x]
                BY <3>4
            <4> HIDE DEF n, t
            <4>4. r * (n + 1) = r * n + r /\ r * n \in Nat
                BY <3>2
            <4>5. SumOf(g, s) + r * (n + 1) <= SumOf(f, s)
                BY <3>1, <3>2, <3>3, <4>3, <4>4
            <4>6. QED
                BY <4>2, <4>5
        <3>5. CASE x \notin C
            <4>1. C \cap s = C \cap t
                BY <3>5
            <4>2. Cardinality(C \cap s) = n
                BY <4>1
            <4> HIDE DEF n, t
            <4>3. r * n \in Nat
                BY <3>2
            <4>4. SumOf(g, s) + r * n <= SumOf(f, s)
                BY <3>1, <3>2, <3>3, <4>3
            <4>5. QED
                BY <4>2, <4>4
        <3>6. QED
            BY <3>4, <3>5
    <2>5. QED
        BY <2>3, <2>4
<1>2. P \in SUBSET (SUBSET T)
    OBVIOUS
<1> HIDE DEF P
<1>3. T \in P
    BY <1>1, <1>2, BySmaller
<1>4. C \cap T = C
    OBVIOUS
<1>5. QED
    BY <1>3, <1>4 DEF P

(* What a remainder is.                                                    *)
LEMMA ModParts ==
    ASSUME NEW M \in Nat, M > 0, NEW b \in Nat
    PROVE  /\ b % M \in 0 .. (M - 1)
           /\ b = (M * (b \div M)) + (b % M)
           /\ b \div M \in Int
OBVIOUS

(* There is one of them.                                                   *)
LEMMA ModUnique ==
    ASSUME NEW M \in Nat, M > 0, NEW j \in Int, NEW k \in Int,
           NEW r \in 0 .. (M - 1), NEW s \in 0 .. (M - 1), (M * j) + r = (M * k) + s
    PROVE  r = s
<1>1. ASSUME NEW a \in Int, NEW b \in Int, NEW x \in 0 .. (M - 1), NEW y \in 0 .. (M - 1),
             (M * a) + x = (M * b) + y, a < b
      PROVE  FALSE
    <2>1. PICK d \in Nat : b = a + 1 + d
        <3>1. b - a - 1 \in Nat /\ b = a + 1 + (b - a - 1)
            BY <1>1
        <3>2. QED
            BY <3>1
    <2>2. M * b = (M * a) + M + (M * d)
        BY <2>1
    <2>3. M * d \in Nat /\ M * a \in Int
        OBVIOUS
    <2>4. QED
        BY <1>1, <2>2, <2>3
<1>2. j = k
    BY <1>1
<1>3. QED
    BY <1>2, M * j \in Int

(* A sum that wraps may wrap as often as it likes.                         *)
LEMMA ModShift ==
    ASSUME NEW M \in Nat, M > 0, NEW b \in Nat, NEW d \in Nat
    PROVE  ((b % M) + d) % M = (b + d) % M
<1> DEFINE u == (b % M) + d
           v == b + d
<1>1. b % M \in Nat /\ b = (M * (b \div M)) + (b % M) /\ b \div M \in Int
    BY ModParts
<1>2. u \in Nat /\ v \in Nat
    BY <1>1
<1>3. v = u + (M * (b \div M))
    BY <1>1
<1>4. /\ u % M \in 0 .. (M - 1) /\ u = (M * (u \div M)) + (u % M) /\ u \div M \in Int
      /\ v % M \in 0 .. (M - 1) /\ v = (M * (v \div M)) + (v % M) /\ v \div M \in Int
    BY <1>2, ModParts
<1> HIDE DEF u, v
<1>5. PICK i \in Int, j \in Int, k \in Int :
         v = u + (M * k) /\ u = (M * i) + (u % M) /\ v = (M * j) + (v % M)
    BY <1>1, <1>3, <1>4
<1>6. M * (i + k) = (M * i) + (M * k) /\ i + k \in Int /\ M * i \in Int /\ M * k \in Int /\ M * j \in Int
    OBVIOUS
<1>7. (M * (i + k)) + (u % M) = (M * j) + (v % M)
    BY <1>4, <1>5, <1>6
<1>8. u % M = v % M
    BY <1>4, <1>6, <1>7, ModUnique
<1>9. QED
    BY <1>8 DEF u, v

(* And its terms may come in any order.                                    *)
LEMMA SumsWrap ==
    ASSUME NEW M \in Nat, M > 0, NEW b \in Nat, NEW c \in Nat, NEW d \in Nat
    PROVE  (((b + c) % M) + d) % M = (((b + d) % M) + c) % M
<1>1. b + c \in Nat /\ b + d \in Nat /\ (b + c) + d = (b + d) + c
    OBVIOUS
<1>2. /\ (((b + c) % M) + d) % M = ((b + c) + d) % M
      /\ (((b + d) % M) + c) % M = ((b + d) + c) % M
    BY <1>1, ModShift
<1>3. QED
    BY <1>1, <1>2

(* What holds of 0 and of the next number, holds up to n.                  *)
LEMMA UpTo ==
    ASSUME NEW n \in Nat, NEW P \in SUBSET (0 .. n), 0 \in P,
           \A i \in 1 .. n : i - 1 \in P => i \in P
    PROVE  \A i \in 0 .. n : i \in P
<1> DEFINE Off == {i \in 0 .. n : i \notin P}
<1>1. SUFFICES ASSUME Off # {} PROVE FALSE
    OBVIOUS
<1>2. PICK m \in Off : \A k \in Off : m <= k
    <2>1. Off \in SUBSET Nat
        OBVIOUS
    <2> HIDE DEF Off
    <2>2. QED
        BY <1>1, <2>1, LeastNat
<1>3. m # 0 /\ m \in 1 .. n /\ m - 1 \in 0 .. n /\ ~(m <= m - 1)
    BY <1>2
<1>4. m - 1 \in P
    BY <1>2, <1>3
<1>5. QED
    BY <1>2, <1>3, <1>4

(* If the sum is nothing, so is each term.                                 *)
LEMMA SumIsNothing ==
    ASSUME NEW T, IsFiniteSet(T), NEW f, \A x \in T : f[x] \in Nat, SumOf(f, T) = 0
    PROVE  \A x \in T : f[x] = 0
<1>1. SUFFICES ASSUME NEW x \in T PROVE f[x] = 0
    OBVIOUS
<1>2. IsFiniteSet(T \ {x}) /\ \A y \in T \ {x} : f[y] \in Nat
    BY FS_Subset
<1>3. SumOf(f, T \ {x}) \in Nat
    BY <1>2, SumStep
<1>4. SumOf(f, T) = f[x] + SumOf(f, T \ {x})
    BY SumStep
<1>5. QED
    BY <1>3, <1>4

(* The sum of two terms that are all there is.                             *)
LEMMA SumOfTwo ==
    ASSUME NEW T, IsFiniteSet(T), NEW f, \A x \in T : f[x] \in Nat,
           NEW a \in T, NEW c \in T, a # c, \A x \in T \ {a, c} : f[x] = 0
    PROVE  SumOf(f, T) = f[a] + f[c]
<1> DEFINE S == T \ {a}
           R == S \ {c}
<1>1. /\ IsFiniteSet(S) /\ IsFiniteSet(R) /\ c \in S
      /\ \A x \in S : f[x] \in Nat
      /\ \A x \in R : f[x] = 0
    BY FS_Subset
<1>2. SumOf(f, T) = f[a] + SumOf(f, S)
    BY SumStep
<1> HIDE DEF S
<1>3. SumOf(f, S) = f[c] + SumOf(f, R)
    BY <1>1, SumStep
<1> HIDE DEF R
<1>4. SumOf(f, R) = 0
    BY <1>1, SumOfNothing
<1>5. QED
    BY <1>1, <1>2, <1>3, <1>4

(* The sum of terms that are all the same.                                 *)
LEMMA SumOfSame ==
    ASSUME NEW T, IsFiniteSet(T), NEW f, NEW b \in Nat, \A x \in T : f[x] = b
    PROVE  SumOf(f, T) = b * Cardinality(T)
<1> DEFINE P == {s \in SUBSET T : SumOf(f, s) = b * Cardinality(s)}
<1>1. ASSUME NEW s \in SUBSET T, \A x \in s : s \ {x} \in P PROVE s \in P
    <2>1. IsFiniteSet(s) /\ \A x \in s : f[x] \in Nat /\ f[x] = b
        BY FS_Subset
    <2>2. /\ SumOf(f, {}) = 0
          /\ \A x \in s : SumOf(f, s) = f[x] + SumOf(f, s \ {x})
        BY <2>1, SumStep
    <2>3. CASE s = {}
        BY <2>2, <2>3, FS_EmptySet
    <2>4. ASSUME NEW x \in s PROVE s \in P
        <3>1. SumOf(f, s \ {x}) = b * Cardinality(s \ {x})
            BY <1>1
        <3>2. /\ Cardinality(s) \in Nat /\ Cardinality(s \ {x}) \in Nat
              /\ Cardinality(s \ {x}) = Cardinality(s) - 1
            BY <2>1, FS_RemoveElement, FS_CardinalityType
        <3>3. b * Cardinality(s) = b + b * Cardinality(s \ {x})
            <4> DEFINE c == Cardinality(s \ {x})
            <4>1. c \in Nat /\ Cardinality(s) = c + 1
                BY <3>2
            <4> HIDE DEF c
            <4>2. b * (c + 1) = b + b * c
                BY <4>1
            <4>3. QED
                BY <4>1, <4>2 DEF c
        <3>4. QED
            BY <2>1, <2>2, <3>1, <3>3
    <2>5. QED
        BY <2>3, <2>4
<1>2. P \in SUBSET (SUBSET T)
    OBVIOUS
<1> HIDE DEF P
<1>3. T \in P
    BY <1>1, <1>2, BySmaller
<1>4. QED
    BY <1>3 DEF P

-----------------------------------------------------------------------------
(* The payout: what one showdown can pay whom, for every table and any bets. *)

(* Factors that grow make a product grow.                                  *)
LEMMA ProductGrows ==
    ASSUME NEW a \in Nat, NEW b \in Nat, NEW c \in Nat, NEW d \in Nat, a <= b, c <= d
    PROVE  a * c <= b * d /\ a * c \in Nat
<1>1. PICK x \in Nat : b = a + x
    <2>1. b - a \in Nat /\ b = a + (b - a)
        OBVIOUS
    <2>2. QED
        BY <2>1
<1>2. PICK y \in Nat : d = c + y
    <2>1. d - c \in Nat /\ d = c + (d - c)
        OBVIOUS
    <2>2. QED
        BY <2>1
<1>3. a * c \in Nat /\ x * c \in Nat /\ a * y \in Nat /\ x * y \in Nat
    OBVIOUS
<1>4. b * d = a * c + x * c + a * y + x * y
    BY <1>1, <1>2
<1>5. QED
    BY <1>3, <1>4

Settlements(P) ==
    [pay : [P -> Nat], residual : [P -> Nat], pot_diff : Int, is_defined : BOOLEAN]

(* What holds of the payout once the first i entries of the ranking were   *)
(* looked at: those who are paid have been reached, and what they got and  *)
(* what is left of the other contenders' bets is within the bets.          *)
Within(s, i, ranking, contenders, bet) ==
    LET reached == {ranking[j] : j \in 1 .. i}
        P == DOMAIN bet
    IN  /\ s \in Settlements(P)
        /\ s.is_defined =>
             /\ \A q \in P : s.residual[q] <= bet[q]
             /\ \A q \in P : s.pay[q] # 0 => q \in contenders \cap reached
             /\ \A q \in P : s.pay[q] <= bet[q] * Cardinality(contenders)
             /\ SumOf(s.pay, P) + SumOf(s.residual, contenders \ reached) <= SumOf(bet, contenders)

Showdowns(ranking, contenders, bet) ==
    /\ IsFiniteSet(DOMAIN bet)
    /\ bet \in [DOMAIN bet -> Nat]
    /\ ranking \in Seq(DOMAIN bet)
    /\ \A i, j \in DOMAIN ranking : ranking[i] = ranking[j] => i = j
    /\ contenders \in SUBSET DOMAIN bet
    /\ Cardinality(contenders) <= Len(ranking)

(* Paying one entry keeps that.                                            *)
LEMMA PayEntryWithin ==
    ASSUME NEW ranking, NEW contenders, NEW bet, Showdowns(ranking, contenders, bet),
           NEW i \in 1 .. Len(ranking), NEW s,
           Within(s, i - 1, ranking, contenders, bet), s.is_defined
    PROVE  Within(PayEntry(s, i, ranking, contenders, bet), i, ranking, contenders, bet)
<1> DEFINE P == DOMAIN bet
           n == Cardinality(contenders)
           payee == ranking[i]
           others == {ranking[j] : j \in (i + 1) .. n}
           covering == {o \in others : s.residual[o] >= bet[payee]}
           r == PayEntry(s, i, ranking, contenders, bet)
           reached == {ranking[j] : j \in 1 .. i}
           before == {ranking[j] : j \in 1 .. i - 1}
           won == s.residual[payee] * (1 + Cardinality(covering))
           pay == [s.pay EXCEPT ![payee] = won]
           residual == [q \in P |-> CASE q \in covering -> s.residual[q] - s.residual[payee]
                                      [] q \in others \ covering -> 0
                                      [] OTHER -> s.residual[q]]
           pot_diff == s.pot_diff - bet[payee]
<1>1. /\ IsFiniteSet(P) /\ bet \in [P -> Nat] /\ ranking \in Seq(P) /\ contenders \subseteq P
      /\ Len(ranking) \in Nat /\ DOMAIN ranking = 1 .. Len(ranking) /\ i \in Nat \ {0}
      /\ payee \in P
    BY LenProperties, ElementOfSeq DEF Showdowns
<1>2. /\ s \in Settlements(P)
      /\ \A q \in P : s.residual[q] <= bet[q]
      /\ \A q \in P : s.pay[q] # 0 => q \in contenders \cap before
      /\ \A q \in P : s.pay[q] <= bet[q] * n
      /\ SumOf(s.pay, P) + SumOf(s.residual, contenders \ before) <= SumOf(bet, contenders)
    BY DEF Within
<1>3. s.pay \in [P -> Nat] /\ s.residual \in [P -> Nat] /\ s.pot_diff \in Int
    BY <1>2 DEF Settlements
<1>4. CASE ~({payee} \cup others \subseteq contenders)
    <2>1. r = [s EXCEPT !.is_defined = FALSE]
        BY <1>4 DEF PayEntry
    <2>2. r \in Settlements(P) /\ ~r.is_defined
        BY <1>2, <2>1 DEF Settlements
    <2>3. QED
        BY <2>2 DEF Within
<1>5. CASE {payee} \cup others \subseteq contenders
    <2>1. r = [s EXCEPT !.pay = pay, !.residual = residual, !.pot_diff = pot_diff]
        BY <1>2, <1>5 DEF PayEntry, Settlements
    <2>2. reached = before \cup {payee} /\ payee \notin before
        <3>1. 1 .. i = (1 .. i - 1) \cup {i}
            BY <1>1
        <3>2. \A j \in 1 .. i - 1 : j \in DOMAIN ranking /\ i \in DOMAIN ranking /\ j # i
            BY <1>1
        <3>3. QED
            BY <3>1, <3>2 DEF Showdowns
    <2>3. others \cap reached = {}
        <3>1. ASSUME NEW j \in (i + 1) .. n, NEW k \in 1 .. i, ranking[j] = ranking[k] PROVE FALSE
            <4>1. IsFiniteSet(contenders) /\ n \in Nat
                BY <1>1, FS_Subset, FS_CardinalityType
            <4>2. j \in DOMAIN ranking /\ k \in DOMAIN ranking /\ j # k
                BY <1>1, <4>1 DEF Showdowns
            <4>3. QED
                BY <3>1, <4>2 DEF Showdowns
        <3>2. QED
            BY <3>1
    <2> DEFINE was == contenders \ before
               after == contenders \ reached
               left == s.residual[payee]
               c == Cardinality(covering)
    <2>4. /\ was \ {payee} = after /\ payee \in was /\ payee \notin after
          /\ covering \subseteq after /\ after \subseteq P /\ was \subseteq P
        BY <1>1, <1>5, <2>2, <2>3
    <2>5. /\ IsFiniteSet(was) /\ IsFiniteSet(after) /\ IsFiniteSet(covering)
          /\ IsFiniteSet(contenders) /\ n \in Nat /\ c \in Nat
        BY <1>1, <2>4, FS_Subset, FS_CardinalityType
    <2>6. c + 1 <= n
        <3>1. payee \notin covering /\ covering \cup {payee} \subseteq contenders
            BY <1>5, <2>4
        <3> HIDE DEF covering
        <3>2. Cardinality(covering \cup {payee}) = c + 1
            BY <2>5, <3>1, FS_AddElement
        <3>3. Cardinality(covering \cup {payee}) <= n
            BY <2>5, <3>1, FS_Subset
        <3>4. QED
            BY <3>2, <3>3
    <2>7. left \in Nat /\ bet[payee] \in Nat /\ left <= bet[payee]
        BY <1>1, <1>2, <1>3
    <2>8. ASSUME NEW q \in P
          PROVE  /\ residual[q] \in Nat /\ s.residual[q] \in Nat /\ bet[q] \in Nat
                 /\ residual[q] <= s.residual[q] /\ residual[q] <= bet[q]
                 /\ q \in covering => residual[q] + left <= s.residual[q]
        <3>1. s.residual[q] \in Nat /\ bet[q] \in Nat /\ s.residual[q] <= bet[q]
            BY <1>1, <1>2, <1>3
        <3>2. CASE q \in covering
            <4>1. residual[q] = s.residual[q] - left /\ s.residual[q] >= bet[payee]
                BY <3>2
            <4> HIDE DEF residual, left, covering, payee
            <4>2. QED
                BY <2>7, <3>1, <3>2, <4>1
        <3>3. CASE q \in others \ covering
            <4>1. residual[q] = 0
                BY <3>3
            <4>2. QED
                BY <3>1, <3>3, <4>1
        <3>4. CASE q \notin others
            <4>1. residual[q] = s.residual[q] /\ q \notin covering
                BY <3>4
            <4>2. QED
                BY <3>1, <4>1
        <3>5. QED
            BY <3>2, <3>3, <3>4
    <2>9. won = left * (1 + c) /\ left * (1 + c) = left + left * c /\ left * c \in Nat
        BY <2>5, <2>7
    <2>10. won \in Nat /\ won <= bet[payee] * n
        <3>1. 1 + c \in Nat /\ 1 + c <= n
            BY <2>5, <2>6
        <3> HIDE DEF left, c, n, payee, won
        <3>2. QED
            BY <2>5, <2>7, <2>9, <3>1, ProductGrows
    <2>11. s.pay[payee] = 0
        BY <1>1, <1>2, <2>2
    <2>12. SumOf(pay, P) = SumOf(s.pay, P) + won
        <3>1. /\ pay \in [P -> Nat] /\ pay[payee] = won
              /\ \A q \in P \ {payee} : pay[q] = s.pay[q]
            BY <1>1, <1>3, <2>10
        <3> HIDE DEF pay, won
        <3>2. SumOf(pay, P) + s.pay[payee] = SumOf(s.pay, P) + pay[payee]
            <4>1. /\ \A x \in P : pay[x] \in Nat /\ s.pay[x] \in Nat
                  /\ payee \in P /\ IsFiniteSet(P)
                BY <1>1, <1>3, <3>1
            <4> HIDE DEF P, payee
            <4>2. QED
                BY <3>1, <4>1, SumChange
        <3>3. SumOf(pay, P) \in Nat /\ SumOf(s.pay, P) \in Nat
            BY <1>1, <1>3, <3>1, SumStep
        <3>4. QED
            BY <2>11, <3>1, <3>2, <3>3
    <2>13. SumOf(s.residual, was) = left + SumOf(s.residual, after)
        <3>1. \A x \in was : s.residual[x] \in Nat
            BY <2>4, <2>8
        <3> HIDE DEF was, after
        <3>2. QED
            BY <2>4, <2>5, <3>1, SumStep
    <2>14. SumOf(residual, after) + left * c <= SumOf(s.residual, after)
        <3>1. \A x \in after : /\ s.residual[x] \in Nat /\ residual[x] \in Nat
                               /\ residual[x] <= s.residual[x]
            BY <2>4, <2>8
        <3>2. \A x \in covering : residual[x] + left <= s.residual[x]
            BY <2>4, <2>8
        <3> HIDE DEF residual, left, after, covering
        <3>3. QED
            BY <2>4, <2>5, <2>7, <3>1, <3>2, SumTaken
    <2>15. SumOf(pay, P) + SumOf(residual, after) <= SumOf(bet, contenders)
        <3>1. /\ SumOf(s.pay, P) \in Nat /\ SumOf(residual, after) \in Nat
              /\ SumOf(s.residual, after) \in Nat /\ SumOf(bet, contenders) \in Nat
            <4>1. \A x \in after : s.residual[x] \in Nat /\ residual[x] \in Nat
                BY <2>4, <2>8
            <4>2. \A x \in contenders : bet[x] \in Nat
                BY <1>1
            <4> HIDE DEF residual, after
            <4>3. QED
                BY <1>1, <1>3, <2>5, <4>1, <4>2, SumStep
        <3>2. SumOf(s.pay, P) + SumOf(s.residual, was) <= SumOf(bet, contenders)
            BY <1>2
        <3> HIDE DEF pay, residual, after, was, left, c, won
        <3>3. QED
            BY <2>7, <2>9, <2>12, <2>13, <2>14, <3>1, <3>2
    <2>16. pay \in [P -> Nat] /\ residual \in [P -> Nat] /\ pot_diff \in Int
        <3>1. residual \in [P -> Nat]
            BY <2>8
        <3>2. pay \in [P -> Nat]
            <4> HIDE DEF won
            <4>1. QED
                BY <1>3, <2>10
        <3>3. pot_diff \in Int
            BY <1>3, <2>7
        <3>4. QED
            BY <3>1, <3>2, <3>3
    <2>17. \A q \in P : /\ pay[q] # 0 => q \in contenders \cap reached
                        /\ pay[q] <= bet[q] * n
        <3>1. ASSUME NEW q \in P
              PROVE  /\ pay[q] # 0 => q \in contenders \cap reached
                     /\ pay[q] <= bet[q] * n
            <4>1. CASE q = payee
                <5>1. pay[q] = won
                    BY <1>1, <1>3, <4>1
                <5> HIDE DEF pay, won, n
                <5>2. QED
                    BY <1>5, <2>2, <2>10, <4>1, <5>1
            <4>2. CASE q # payee
                <5>1. pay[q] = s.pay[q]
                    BY <1>3, <4>2
                <5> HIDE DEF pay, n
                <5>2. QED
                    BY <1>2, <2>2, <5>1
            <4>3. QED
                BY <4>1, <4>2
        <3>2. QED
            BY <3>1
    <2>18. r \in Settlements(P) /\ r.pay = pay /\ r.residual = residual
        <3> HIDE DEF pay, residual, pot_diff
        <3>1. QED
            BY <1>2, <2>1, <2>16 DEF Settlements
    <2> HIDE DEF r, pay, residual
    <2>19. \A q \in P : residual[q] <= bet[q]
        BY <2>8
    <2>20. QED
        BY <2>15, <2>17, <2>18, <2>19 DEF Within, r
<1>6. QED
    BY <1>4, <1>5

(* Settle is what its recursive function says.                             *)
LEMMA SettleUnfold ==
    ASSUME NEW ranking, NEW contenders, NEW bet, NEW pot, Len(ranking) \in Nat
    PROVE  \E after :
              /\ after = [i \in 0 .. Len(ranking) |->
                    IF i = 0
                    THEN [pay |-> [q \in DOMAIN bet |-> 0], residual |-> bet,
                          pot_diff |-> pot, is_defined |-> TRUE]
                    ELSE IF (i > 1 /\ after[i - 1].pot_diff = 0) \/ ~after[i - 1].is_defined
                         THEN after[i - 1]
                         ELSE PayEntry(after[i - 1], i, ranking, contenders, bet)]
              /\ Settle(ranking, contenders, bet, pot) = after[Len(ranking)]
<1> DEFINE n == Len(ranking)
           start == [pay |-> [q \in DOMAIN bet |-> 0], residual |-> bet,
                     pot_diff |-> pot, is_defined |-> TRUE]
           Entry(s, i) == IF (i > 1 /\ s.pot_diff = 0) \/ ~s.is_defined THEN s
                          ELSE PayEntry(s, i, ranking, contenders, bet)
           Step(f, i) == IF i = 0 THEN start ELSE Entry(f[i - 1], i)
           Good(f, m) == f = [i \in 0 .. m |-> Step(f, i)]
           Bad == {m \in Nat : ~ \E f : Good(f, m)}
<1>1. Bad = {}
    <2>1. SUFFICES ASSUME Bad # {} PROVE FALSE
        OBVIOUS
    <2>2. PICK m \in Bad : \A k \in Bad : m <= k
        <3>1. Bad \in SUBSET Nat
            OBVIOUS
        <3> HIDE DEF Bad
        <3>2. QED
            BY <2>1, <3>1, LeastNat
    <2>3. CASE m = 0
        <3> DEFINE f == [i \in 0 .. 0 |-> start]
        <3>1. Good(f, 0)
            <4> HIDE DEF start
            <4>1. QED
                OBVIOUS
        <3>2. QED
            BY <2>2, <2>3, <3>1
    <2>4. CASE m # 0
        <3>1. m \in Nat \ {0} /\ m - 1 \in Nat /\ ~(m <= m - 1)
            BY <2>2, <2>4
        <3> HIDE DEF Good
        <3>2. PICK f : Good(f, m - 1)
            BY <2>2, <3>1
        <3> DEFINE g == [i \in 0 .. m |-> IF i = m THEN Entry(f[m - 1], m) ELSE f[i]]
        <3>3. ASSUME NEW i \in 0 .. m PROVE g[i] = Step(g, i)
            <4> HIDE DEF Entry, start
            <4>1. CASE i = m
                <5>1. m - 1 \in 0 .. m /\ m - 1 # m /\ m \in 0 .. m
                    BY <3>1
                <5>2. g[i] = Entry(f[m - 1], m) /\ g[m - 1] = f[m - 1]
                    BY <4>1, <5>1
                <5>3. QED
                    BY <3>1, <4>1, <5>2
            <4>2. CASE i # m
                <5>1. i \in 0 .. m - 1 /\ (i # 0 => i - 1 \in 0 .. m /\ i - 1 # m)
                    BY <3>1, <4>2
                <5>2. f[i] = Step(f, i)
                    <6>1. f = [j \in 0 .. m - 1 |-> Step(f, j)]
                        BY <3>2 DEF Good
                    <6> HIDE DEF Step
                    <6>2. QED
                        BY <5>1, <6>1
                <5>3. g[i] = f[i] /\ (i # 0 => g[i - 1] = f[i - 1])
                    BY <4>2, <5>1
                <5>4. QED
                    BY <5>2, <5>3
            <4>3. QED
                BY <4>1, <4>2
        <3>4. Good(g, m)
            <4> HIDE DEF Step
            <4>1. g = [i \in 0 .. m |-> Step(g, i)]
                BY <3>3
            <4>2. QED
                BY <4>1 DEF Good
        <3>5. QED
            BY <2>2, <3>4
    <2>5. QED
        BY <2>3, <2>4
<1>2. PICK f : Good(f, n)
    <2> HIDE DEF Good
    <2>1. n \notin Bad /\ n \in Nat
        BY <1>1
    <2>2. QED
        BY <2>1
<1> DEFINE after == CHOOSE h : h = [i \in 0 .. n |-> Step(h, i)]
<1>3. after = [i \in 0 .. n |-> Step(after, i)]
    <2> HIDE DEF Step
    <2>1. QED
        BY <1>2
<1>4. Settle(ranking, contenders, bet, pot) = after[n]
    BY DEF Settle
<1> HIDE DEF after
<1>5. QED
    BY <1>3, <1>4

(* What the loop starts from, and what it makes of its i-th entry.         *)
Unpaid(bet, pot) ==
    [pay |-> [q \in DOMAIN bet |-> 0], residual |-> bet, pot_diff |-> pot, is_defined |-> TRUE]

Entered(s, i, ranking, contenders, bet) ==
    IF (i > 1 /\ s.pot_diff = 0) \/ ~s.is_defined THEN s
    ELSE PayEntry(s, i, ranking, contenders, bet)

Steps(after, ranking, contenders, bet, pot) ==
    /\ after[0] = Unpaid(bet, pot)
    /\ \A i \in 1 .. Len(ranking) : after[i] = Entered(after[i - 1], i, ranking, contenders, bet)
    /\ Settle(ranking, contenders, bet, pot) = after[Len(ranking)]

(* The loop, entry by entry.                                               *)
LEMMA SettleSteps ==
    ASSUME NEW ranking, NEW contenders, NEW bet, Showdowns(ranking, contenders, bet),
           NEW pot \in Int
    PROVE  \E after : /\ Steps(after, ranking, contenders, bet, pot)
                     /\ \A i \in 0 .. Len(ranking) : Within(after[i], i, ranking, contenders, bet)
<1> DEFINE P == DOMAIN bet
           n == Len(ranking)
           start == Unpaid(bet, pot)
           Reached(i) == {ranking[j] : j \in 1 .. i}
           Entry(s, i) == Entered(s, i, ranking, contenders, bet)
<1>1. /\ IsFiniteSet(P) /\ bet \in [P -> Nat] /\ ranking \in Seq(P) /\ contenders \subseteq P
      /\ n \in Nat
    BY LenProperties DEF Showdowns
<1>2. PICK after : /\ after = [i \in 0 .. n |-> IF i = 0 THEN start ELSE Entry(after[i - 1], i)]
                   /\ Settle(ranking, contenders, bet, pot) = after[n]
    BY <1>1, SettleUnfold DEF Unpaid, Entered
<1> DEFINE Holds(i, s) == Within(s, i, ranking, contenders, bet)
           Off == {i \in 0 .. n : ~Holds(i, after[i])}
<1>3. Holds(0, start)
    <2>1. start \in Settlements(P) /\ start.pay = [q \in P |-> 0] /\ start.residual = bet
        BY <1>1 DEF Settlements, Unpaid
    <2> HIDE DEF start
    <2>2. contenders \ {ranking[j] : j \in 1 .. 0} = contenders
        OBVIOUS
    <2>3. IsFiniteSet(contenders) /\ Cardinality(contenders) \in Nat
        BY <1>1, FS_Subset, FS_CardinalityType
    <2>4. SumOf(start.pay, P) = 0 /\ SumOf(bet, contenders) \in Nat
        <3>1. \A q \in P : start.pay[q] = 0
            BY <2>1
        <3>2. SumOf(start.pay, P) = 0
            BY <1>1, <3>1, SumOfNothing
        <3>3. \A q \in contenders : bet[q] \in Nat
            BY <1>1
        <3>4. QED
            BY <2>3, <3>2, <3>3, SumStep
    <2>5. \A q \in P : /\ bet[q] <= bet[q] /\ start.pay[q] = 0
                      /\ 0 <= bet[q] * Cardinality(contenders)
        <3>1. ASSUME NEW q \in P
              PROVE  /\ bet[q] <= bet[q] /\ start.pay[q] = 0
                     /\ 0 <= bet[q] * Cardinality(contenders)
            <4>1. bet[q] \in Nat /\ start.pay[q] = 0
                BY <1>1, <2>1
            <4>2. QED
                BY <2>3, <4>1, ProductGrows
        <3>2. QED
            BY <3>1
    <2>6. SumOf(start.pay, P) + SumOf(start.residual, contenders \ {ranking[j] : j \in 1 .. 0})
            <= SumOf(bet, contenders)
        <3>1. SumOf(start.residual, contenders \ {ranking[j] : j \in 1 .. 0}) = SumOf(bet, contenders)
            BY <2>1, <2>2
        <3>2. QED
            BY <2>4, <3>1
    <2>7. \A q \in P : start.residual[q] <= bet[q]
        BY <2>1, <2>5
    <2>8. \A q \in P : start.pay[q] <= bet[q] * Cardinality(contenders)
        BY <2>5
    <2>9. \A q \in P : start.pay[q] = 0
        BY <2>5
    <2>10. QED
        BY <2>1, <2>6, <2>7, <2>8, <2>9 DEF Within
<1>4. ASSUME NEW i \in 1 .. n, NEW s, Holds(i - 1, s) PROVE Holds(i, Entry(s, i))
    <2>1. CASE ~s.is_defined
        BY <1>4, <2>1 DEF Within, Entered
    <2>2. CASE s.is_defined /\ i > 1 /\ s.pot_diff = 0
        <3>1. Reached(i - 1) \subseteq Reached(i)
            BY <1>1
        <3>2. s.residual \in [P -> Nat] /\ s.pay \in [P -> Nat]
            BY <1>4 DEF Within, Settlements
        <3>3. SumOf(s.residual, contenders \ Reached(i)) <= SumOf(s.residual, contenders \ Reached(i - 1))
            <4>1. IsFiniteSet(contenders \ Reached(i - 1))
                BY <1>1, FS_Subset
            <4>2. \A x \in contenders \ Reached(i - 1) : s.residual[x] \in Nat
                BY <1>1, <3>2
            <4>3. contenders \ Reached(i) \in SUBSET (contenders \ Reached(i - 1))
                BY <3>1
            <4> HIDE DEF Reached
            <4>4. QED
                BY <4>1, <4>2, <4>3, SumOfPart
        <3>4. /\ SumOf(s.residual, contenders \ Reached(i)) \in Nat
              /\ SumOf(s.residual, contenders \ Reached(i - 1)) \in Nat
              /\ SumOf(s.pay, P) \in Nat /\ SumOf(bet, contenders) \in Nat
            <4>1. /\ IsFiniteSet(contenders \ Reached(i)) /\ IsFiniteSet(contenders \ Reached(i - 1))
                  /\ IsFiniteSet(contenders)
                BY <1>1, FS_Subset
            <4>2. \A x \in contenders : s.residual[x] \in Nat /\ bet[x] \in Nat
                BY <1>1, <3>2
            <4> HIDE DEF Reached
            <4>3. QED
                BY <1>1, <3>2, <4>1, <4>2, SumStep
        <3>5. Entry(s, i) = s
            BY <2>2 DEF Entered
        <3> HIDE DEF Entry
        <3>6. SumOf(s.pay, P) + SumOf(s.residual, contenders \ Reached(i)) <= SumOf(bet, contenders)
            <4>1. SumOf(s.pay, P) + SumOf(s.residual, contenders \ Reached(i - 1)) <= SumOf(bet, contenders)
                BY <1>4, <2>2 DEF Within
            <4>2. QED
                BY <3>3, <3>4, <4>1
        <3>7. \A q \in P : s.pay[q] # 0 => q \in contenders \cap Reached(i)
            BY <1>4, <2>2, <3>1 DEF Within
        <3>8. QED
            BY <1>4, <2>2, <3>5, <3>6, <3>7 DEF Within
    <2>3. CASE s.is_defined /\ ~(i > 1 /\ s.pot_diff = 0)
        BY <1>4, <2>3, PayEntryWithin DEF Entered
    <2>4. QED
        BY <2>1, <2>2, <2>3
<1> HIDE DEF Holds, Entry, start
<1>5. Off = {}
    <2>1. SUFFICES ASSUME Off # {} PROVE FALSE
        OBVIOUS
    <2>2. PICK m \in Off : \A k \in Off : m <= k
        <3>1. Off \in SUBSET Nat
            BY <1>1
        <3> HIDE DEF Off
        <3>2. QED
            BY <2>1, <3>1, LeastNat
    <2>3. after[m] = IF m = 0 THEN start ELSE Entry(after[m - 1], m)
        BY <1>2
    <2>4. CASE m = 0
        BY <1>3, <2>2, <2>3, <2>4
    <2>5. CASE m # 0
        <3>1. m \in 1 .. n /\ m - 1 \in 0 .. n /\ ~(m <= m - 1)
            BY <1>1, <2>2, <2>5
        <3>2. Holds(m - 1, after[m - 1])
            BY <2>2, <3>1
        <3>3. QED
            BY <1>4, <2>2, <2>3, <2>5, <3>1, <3>2
    <2>6. QED
        BY <2>4, <2>5
<1>6. \A i \in 0 .. n : Holds(i, after[i])
    BY <1>5
<1>7. Steps(after, ranking, contenders, bet, pot)
    <2>1. 0 \in 0 .. n /\ \A i \in 1 .. n : i \in 0 .. n /\ i # 0
        BY <1>1
    <2>2. after[0] = start /\ \A i \in 1 .. n : after[i] = Entry(after[i - 1], i)
        BY <1>2, <2>1
    <2>3. QED
        BY <1>2, <2>2 DEF Steps, Entry, start
<1>8. QED
    BY <1>6, <1>7 DEF Holds

(* What a showdown pays: to contenders only, to each no more than what he  *)
(* has bet for every contender, and in all no more than they have bet.     *)
LEMMA SettleWithin ==
    ASSUME NEW ranking, NEW contenders, NEW bet, Showdowns(ranking, contenders, bet),
           NEW pot \in Int
    PROVE  LET s == Settle(ranking, contenders, bet, pot)
           IN  /\ s \in Settlements(DOMAIN bet)
               /\ s.is_defined =>
                    /\ \A q \in DOMAIN bet : s.pay[q] # 0 => q \in contenders
                    /\ \A q \in DOMAIN bet : s.pay[q] <= bet[q] * Cardinality(contenders)
                    /\ SumOf(s.pay, DOMAIN bet) <= SumOf(bet, contenders)
<1> DEFINE P == DOMAIN bet
           n == Len(ranking)
           Reached(i) == {ranking[j] : j \in 1 .. i}
<1>1. /\ IsFiniteSet(P) /\ bet \in [P -> Nat] /\ ranking \in Seq(P) /\ contenders \subseteq P
      /\ n \in Nat
    BY LenProperties DEF Showdowns
<1>2. PICK after : /\ Steps(after, ranking, contenders, bet, pot)
                   /\ \A i \in 0 .. n : Within(after[i], i, ranking, contenders, bet)
    BY SettleSteps
<1> DEFINE s == after[n]
<1>3. Within(s, n, ranking, contenders, bet)
    BY <1>1, <1>2
<1> HIDE DEF s
<1>4. /\ SumOf(s.pay, P) <= SumOf(bet, contenders) \/ ~s.is_defined
    <2>1. CASE s.is_defined
        <3>1. SumOf(s.pay, P) + SumOf(s.residual, contenders \ Reached(n)) <= SumOf(bet, contenders)
            BY <1>3, <2>1 DEF Within
        <3>2. s.residual \in [P -> Nat] /\ s.pay \in [P -> Nat]
            BY <1>3 DEF Within, Settlements
        <3>3. /\ SumOf(s.residual, contenders \ Reached(n)) \in Nat
              /\ SumOf(s.pay, P) \in Nat /\ SumOf(bet, contenders) \in Nat
            <4>1. IsFiniteSet(contenders \ Reached(n)) /\ IsFiniteSet(contenders)
                BY <1>1, FS_Subset
            <4>2. \A x \in contenders : s.residual[x] \in Nat /\ bet[x] \in Nat
                BY <1>1, <3>2
            <4> HIDE DEF Reached
            <4>3. QED
                BY <1>1, <3>2, <4>1, <4>2, SumStep
        <3>4. QED
            BY <3>1, <3>3
    <2>2. QED
        BY <2>1
<1>5. Settle(ranking, contenders, bet, pot) = s
    BY <1>2 DEF s, Steps
<1>6. QED
    BY <1>3, <1>4, <1>5 DEF Within

-------------------------------------------------------------------------------
(* Showdowns whose ranking has every listed player, and whose pot is what  *)
(* they have bet.                                                          *)
Whole(ranking, bet, pot) ==
    /\ Len(ranking) = Cardinality(DOMAIN bet)
    /\ pot = SumOf(bet, DOMAIN bet)

Reached(ranking, i) == {ranking[j] : j \in 1 .. i}

(* Who pays an entry, and who of them in full.                             *)
Unreached(i, ranking, contenders) == {ranking[j] : j \in (i + 1) .. Cardinality(contenders)}
Covering(s, i, ranking, contenders, bet) ==
    {o \in Unreached(i, ranking, contenders) : s.residual[o] >= bet[ranking[i]]}

(* An entry that is paid is a contender's, and so are those that pay it.   *)
LEMMA PayEntryIs ==
    ASSUME NEW ranking, NEW contenders, NEW bet, NEW i, NEW s \in Settlements(DOMAIN bet),
           ranking[i] \in DOMAIN bet, s.is_defined,
           NEW r, r = PayEntry(s, i, ranking, contenders, bet), r.is_defined
    PROVE  /\ ranking[i] \in contenders
           /\ Unreached(i, ranking, contenders) \in SUBSET contenders
           /\ r.pot_diff = s.pot_diff - bet[ranking[i]]
           /\ r.pay[ranking[i]] =
                 s.residual[ranking[i]] * (1 + Cardinality(Covering(s, i, ranking, contenders, bet)))
           /\ \A q \in DOMAIN bet \ {ranking[i]} : r.pay[q] = s.pay[q]
           /\ \A q \in DOMAIN bet \cap Covering(s, i, ranking, contenders, bet) :
                 r.residual[q] = s.residual[q] - s.residual[ranking[i]]
<1> DEFINE payee == ranking[i]
           others == {ranking[j] : j \in (i + 1) .. Cardinality(contenders)}
           covering == {o \in others : s.residual[o] >= bet[payee]}
           won == s.residual[payee] * (1 + Cardinality(covering))
           pay == [s.pay EXCEPT ![payee] = won]
           residual == [q \in DOMAIN bet |-> CASE q \in covering -> s.residual[q] - s.residual[payee]
                                               [] q \in others \ covering -> 0
                                               [] OTHER -> s.residual[q]]
           pot_diff == s.pot_diff - bet[payee]
           paid == [s EXCEPT !.pay = pay, !.residual = residual, !.pot_diff = pot_diff]
           undef == [s EXCEPT !.is_defined = FALSE]
<1>1. {payee} \cup others \subseteq contenders
    <2>1. ~({payee} \cup others \subseteq contenders) => r = undef
        BY DEF PayEntry
    <2>2. ~undef.is_defined
        BY DEF Settlements
    <2> HIDE DEF undef
    <2>3. QED
        BY <2>1, <2>2
<1>2. r = paid
    BY <1>1 DEF PayEntry, Settlements
<1>3. s.pay \in [DOMAIN bet -> Nat]
    BY DEF Settlements
<1>4. pay[payee] = won /\ \A q \in DOMAIN bet \ {payee} : pay[q] = s.pay[q]
    BY <1>3
<1>5. \A q \in DOMAIN bet \cap covering : residual[q] = s.residual[q] - s.residual[payee]
    OBVIOUS
<1>6. paid.pay = pay /\ paid.residual = residual /\ paid.pot_diff = pot_diff
    <2> HIDE DEF pay, residual, pot_diff
    <2>1. QED
        BY DEF Settlements
<1>7. Unreached(i, ranking, contenders) = others /\ Covering(s, i, ranking, contenders, bet) = covering
    BY DEF Unreached, Covering
<1> HIDE DEF paid, pay, residual, won, covering, others
<1>8. QED
    BY <1>1, <1>2, <1>4, <1>5, <1>6, <1>7 DEF won

(* Then the ranking is an order of all of them.                            *)
LEMMA RankingCovers ==
    ASSUME NEW ranking, NEW contenders, NEW bet, NEW pot,
           Showdowns(ranking, contenders, bet), Whole(ranking, bet, pot)
    PROVE  /\ \A q \in DOMAIN bet : \E i \in 1 .. Len(ranking) : ranking[i] = q
           /\ Reached(ranking, Len(ranking)) = DOMAIN bet
           /\ DOMAIN ranking = 1 .. Len(ranking) /\ Len(ranking) \in Nat
           /\ \A i \in 1 .. Len(ranking) : ranking[i] \in DOMAIN bet
<1> DEFINE P == DOMAIN bet
           n == Len(ranking)
           f == [i \in 1 .. n |-> ranking[i]]
<1>1. /\ ranking \in Seq(P) /\ n \in Nat /\ DOMAIN ranking = 1 .. n /\ IsFiniteSet(P)
      /\ \A i \in 1 .. n : ranking[i] \in P
    BY LenProperties, ElementOfSeq DEF Showdowns
<1>2. f \in Injection(1 .. n, P)
    <2>1. f \in [1 .. n -> P]
        BY <1>1
    <2>2. \A i, j \in 1 .. n : f[i] = f[j] => i = j
        BY <1>1 DEF Showdowns
    <2> HIDE DEF f
    <2>3. QED
        BY <2>1, <2>2 DEF Injection, IsInjective
<1>3. IsFiniteSet(1 .. n) /\ Cardinality(1 .. n) = n
    BY <1>1, FS_Interval
<1>4. f \in Surjection(1 .. n, P)
    <2> HIDE DEF f
    <2>1. QED
        BY <1>1, <1>2, <1>3, FS_Injection DEF Whole
<1>5. \A q \in P : \E i \in 1 .. n : f[i] = q
    <2> HIDE DEF f
    <2>1. QED
        BY <1>4 DEF Surjection
<1>6. \A q \in P : \E i \in 1 .. n : ranking[i] = q
    BY <1>5
<1>7. QED
    BY <1>1, <1>6 DEF Reached

(* What is in the pot once the first entries are paid, and who they are.   *)
Through(s, i, ranking, contenders, bet, pot) ==
    s.is_defined =>
        \E k \in 0 .. i : /\ Reached(ranking, k) \subseteq contenders
                          /\ s.pot_diff = pot - SumOf(bet, Reached(ranking, k))
                          /\ k < i => k > 0 /\ s.pot_diff = 0

LEMMA EnteredThrough ==
    ASSUME NEW ranking, NEW contenders, NEW bet, NEW pot \in Int,
           Showdowns(ranking, contenders, bet), NEW i \in 1 .. Len(ranking),
           NEW s \in Settlements(DOMAIN bet), Through(s, i - 1, ranking, contenders, bet, pot)
    PROVE  Through(Entered(s, i, ranking, contenders, bet), i, ranking, contenders, bet, pot)
<1> DEFINE P == DOMAIN bet
           r == PayEntry(s, i, ranking, contenders, bet)
           R(k) == Reached(ranking, k)
<1>1. /\ IsFiniteSet(P) /\ bet \in [P -> Nat] /\ DOMAIN ranking = 1 .. Len(ranking)
      /\ Len(ranking) \in Nat /\ i \in Nat \ {0} /\ ranking[i] \in P
      /\ \A j \in 1 .. Len(ranking) : ranking[j] \in P
    BY LenProperties, ElementOfSeq DEF Showdowns
<1>2. CASE ~s.is_defined
    BY <1>2 DEF Entered, Through
<1>3. CASE s.is_defined /\ i > 1 /\ s.pot_diff = 0
    <2>1. Entered(s, i, ranking, contenders, bet) = s
        BY <1>3 DEF Entered
    <2>2. PICK k \in 0 .. (i - 1) : /\ R(k) \subseteq contenders
                                    /\ s.pot_diff = pot - SumOf(bet, R(k))
                                    /\ k < i - 1 => k > 0 /\ s.pot_diff = 0
        BY <1>3 DEF Through
    <2> HIDE DEF R
    <2>3. k \in 0 .. i /\ k > 0
        BY <1>1, <1>3, <2>2
    <2>4. QED
        BY <1>3, <2>1, <2>2, <2>3 DEF Through, R
<1>4. CASE s.is_defined /\ ~(i > 1 /\ s.pot_diff = 0)
    <2>1. Entered(s, i, ranking, contenders, bet) = r
        BY <1>4 DEF Entered
    <2>2. SUFFICES ASSUME r.is_defined
                   PROVE  /\ R(i) \subseteq contenders
                          /\ r.pot_diff = pot - SumOf(bet, R(i))
        <3>1. i \in 0 .. i /\ ~(i < i)
            BY <1>1
        <3> HIDE DEF r, R
        <3>2. QED
            BY <2>1, <3>1 DEF Through, R
    <2>3. /\ ranking[i] \in contenders /\ r.pot_diff = s.pot_diff - bet[ranking[i]]
        <3>1. r = PayEntry(s, i, ranking, contenders, bet)
            OBVIOUS
        <3> HIDE DEF r
        <3>2. QED
            BY <1>1, <1>4, <2>2, <3>1, PayEntryIs
    <2> HIDE DEF r
    <2>4. PICK k \in 0 .. (i - 1) : /\ R(k) \subseteq contenders
                                    /\ s.pot_diff = pot - SumOf(bet, R(k))
                                    /\ k < i - 1 => k > 0 /\ s.pot_diff = 0
        BY <1>4 DEF Through
    <2>5. k = i - 1
        BY <1>1, <1>4, <2>4
    <2>6. R(i) = R(i - 1) \cup {ranking[i]}
        <3>1. 1 .. i = (1 .. (i - 1)) \cup {i}
            BY <1>1
        <3>2. QED
            BY <3>1 DEF Reached
    <2>7. ranking[i] \notin R(i - 1)
        BY <1>1 DEF Reached, Showdowns
    <2>8. R(i) \in SUBSET P
        BY <1>1 DEF Reached
    <2> HIDE DEF R
    <2>9. /\ IsFiniteSet(R(i)) /\ ranking[i] \in R(i) /\ R(i) \ {ranking[i]} = R(i - 1)
          /\ \A q \in R(i) : bet[q] \in Nat
        BY <1>1, <2>6, <2>7, <2>8, FS_Subset
    <2>10. SumOf(bet, R(i)) = bet[ranking[i]] + SumOf(bet, R(i - 1))
        BY <2>9, SumStep
    <2>11. SumOf(bet, R(i - 1)) \in Nat /\ bet[ranking[i]] \in Nat
        <3>1. IsFiniteSet(R(i - 1)) /\ \A q \in R(i - 1) : bet[q] \in Nat
            BY <2>9, FS_Subset
        <3>2. QED
            BY <2>9, <3>1, SumStep
    <2>12. QED
        BY <2>3, <2>4, <2>5, <2>6, <2>10, <2>11
<1>5. QED
    BY <1>2, <1>3, <1>4

(* A payout that is defined has reached everyone with a bet: who is no     *)
(* contender has bet nothing.                                              *)
LEMMA PaidToTheLast ==
    ASSUME NEW ranking, NEW contenders, NEW bet, NEW pot \in Int,
           Showdowns(ranking, contenders, bet), Whole(ranking, bet, pot),
           Settle(ranking, contenders, bet, pot).is_defined
    PROVE  \A q \in DOMAIN bet \ contenders : bet[q] = 0
<1> DEFINE P == DOMAIN bet
           n == Len(ranking)
           R(k) == Reached(ranking, k)
<1>1. /\ IsFiniteSet(P) /\ bet \in [P -> Nat] /\ n \in Nat /\ R(n) = P
      /\ \A j \in 1 .. n : ranking[j] \in P
    BY RankingCovers DEF Showdowns
<1>2. PICK after : /\ Steps(after, ranking, contenders, bet, pot)
                   /\ \A i \in 0 .. n : Within(after[i], i, ranking, contenders, bet)
    BY SettleSteps
<1>3. \A i \in 0 .. n : after[i] \in Settlements(P)
    BY <1>2 DEF Within
<1> DEFINE Good == {i \in 0 .. n : Through(after[i], i, ranking, contenders, bet, pot)}
<1>4. 0 \in Good
    <2>1. after[0].pot_diff = pot
        BY <1>2 DEF Steps, Unpaid
    <2>2. Reached(ranking, 0) = {} /\ SumOf(bet, {}) = 0
        BY <1>1, SumStep DEF Reached
    <2>3. 0 \in 0 .. n /\ 0 \in 0 .. 0 /\ pot = pot - 0 /\ ~(0 < 0)
        BY <1>1
    <2>4. Through(after[0], 0, ranking, contenders, bet, pot)
        BY <2>1, <2>2, <2>3 DEF Through
    <2>5. QED
        BY <2>3, <2>4
<1>5. ASSUME NEW i \in 1 .. n, i - 1 \in Good PROVE i \in Good
    <2>1. after[i] = Entered(after[i - 1], i, ranking, contenders, bet)
        BY <1>2 DEF Steps
    <2>2. after[i - 1] \in Settlements(P) /\ i \in 0 .. n
        BY <1>1, <1>3
    <2>3. Through(after[i - 1], i - 1, ranking, contenders, bet, pot)
        BY <1>5
    <2>4. QED
        BY <2>1, <2>2, <2>3, EnteredThrough
<1>6. n \in Good
    <2>1. Good \in SUBSET (0 .. n)
        OBVIOUS
    <2> HIDE DEF Good
    <2>2. QED
        BY <1>1, <1>4, <1>5, <2>1, UpTo
<1>7. PICK k \in 0 .. n : /\ R(k) \subseteq contenders
                          /\ after[n].pot_diff = pot - SumOf(bet, R(k))
                          /\ k < n => k > 0 /\ after[n].pot_diff = 0
    BY <1>2, <1>6 DEF Through, Steps
<1>8. CASE k = n
    BY <1>1, <1>7, <1>8
<1>9. CASE k < n
    <2>1. R(k) \in SUBSET P
        BY <1>1 DEF Reached
    <2> HIDE DEF R
    <2>2. \A q \in P : bet[q] \in Nat
        BY <1>1
    <2>3. IsFiniteSet(R(k)) /\ IsFiniteSet(P \ R(k))
        BY <1>1, <2>1, FS_Subset
    <2>4. SumOf(bet, P) = SumOf(bet, R(k)) + SumOf(bet, P \ R(k))
        BY <1>1, <2>1, <2>2, SumSplit
    <2>5. SumOf(bet, R(k)) \in Nat /\ SumOf(bet, P \ R(k)) \in Nat
        BY <2>1, <2>2, <2>3, SumStep
    <2>6. SumOf(bet, P \ R(k)) = 0
        BY <1>7, <1>9, <2>4, <2>5 DEF Whole
    <2>7. \A q \in P \ R(k) : bet[q] = 0
        BY <2>2, <2>3, <2>6, SumIsNothing
    <2>8. QED
        BY <1>7, <2>7
<1>10. QED
    BY <1>1, <1>7, <1>8, <1>9

(* What an entry is paid, no later entry changes.                          *)
LEMMA PaidOnce ==
    ASSUME NEW ranking, NEW contenders, NEW bet, NEW pot, NEW after,
           Showdowns(ranking, contenders, bet), Steps(after, ranking, contenders, bet, pot),
           \A i \in 0 .. Len(ranking) : after[i] \in Settlements(DOMAIN bet),
           NEW k \in 1 .. Len(ranking)
    PROVE  \A i \in k .. Len(ranking) : after[i].is_defined =>
               /\ after[k].is_defined
               /\ after[i].pay[ranking[k]] = after[k].pay[ranking[k]]
<1> DEFINE n == Len(ranking)
           Kept(i) == after[i].is_defined =>
                          /\ after[k].is_defined
                          /\ after[i].pay[ranking[k]] = after[k].pay[ranking[k]]
           Good == {i \in 0 .. n : k <= i => Kept(i)}
<1>1. /\ n \in Nat /\ DOMAIN ranking = 1 .. n
      /\ \A j \in 1 .. n : ranking[j] \in DOMAIN bet
    BY LenProperties, ElementOfSeq DEF Showdowns
<1>2. 0 \in Good
    BY <1>1
<1>3. ASSUME NEW i \in 1 .. n, i - 1 \in Good PROVE i \in Good
    <2>1. SUFFICES ASSUME k <= i, after[i].is_defined PROVE Kept(i)
        BY <1>1
    <2>2. CASE i = k
        BY <2>1, <2>2
    <2>3. CASE i # k
        <3>1. i - 1 \in 0 .. n /\ k <= i - 1
            BY <1>1, <2>1, <2>3
        <3>2. Kept(i - 1)
            BY <1>3, <3>1
        <3>3. after[i - 1] \in Settlements(DOMAIN bet)
            BY <3>1
        <3>4. after[i] = Entered(after[i - 1], i, ranking, contenders, bet)
            BY DEF Steps
        <3>5. CASE after[i] = after[i - 1]
            BY <2>1, <3>2, <3>5
        <3>6. CASE after[i] # after[i - 1]
            <4>1. /\ after[i - 1].is_defined
                  /\ after[i] = PayEntry(after[i - 1], i, ranking, contenders, bet)
                BY <3>4, <3>6 DEF Entered
            <4>2. ranking[i] \in DOMAIN bet /\ ranking[k] \in DOMAIN bet \ {ranking[i]}
                BY <1>1, <2>3 DEF Showdowns
            <4>3. after[i].pay[ranking[k]] = after[i - 1].pay[ranking[k]]
                BY <2>1, <3>3, <4>1, <4>2, PayEntryIs
            <4>4. QED
                BY <3>2, <4>1, <4>3
        <3>7. QED
            BY <3>5, <3>6
    <2>4. QED
        BY <2>2, <2>3
<1>4. \A i \in 0 .. n : i \in Good
    <2>1. Good \in SUBSET (0 .. n)
        OBVIOUS
    <2> HIDE DEF Good
    <2>2. QED
        BY <1>1, <1>2, <1>3, <2>1, UpTo
<1>5. QED
    BY <1>1, <1>4

(* The first entry has from everyone who covers it as much as it has bet;  *)
(* and of two contenders the second, if he covers the first, what is left  *)
(* of his own bet.                                                         *)
LEMMA FirstTwoPaid ==
    ASSUME NEW ranking, NEW contenders, NEW bet, NEW pot,
           Showdowns(ranking, contenders, bet), Whole(ranking, bet, pot), Len(ranking) # 0,
           NEW s, s = Settle(ranking, contenders, bet, pot), s.is_defined
    PROVE  /\ ranking[1] \in contenders
           /\ Unreached(1, ranking, contenders) \in SUBSET contenders
           /\ s.pay[ranking[1]] = bet[ranking[1]] * (1 + Cardinality(
                  {o \in Unreached(1, ranking, contenders) : bet[o] >= bet[ranking[1]]}))
           /\ Cardinality(contenders) = 2 /\ bet[ranking[1]] <= bet[ranking[2]] =>
                  s.pay[ranking[2]] = bet[ranking[2]] - bet[ranking[1]]
<1> DEFINE P == DOMAIN bet
           n == Len(ranking)
           r1 == ranking[1]
           r2 == ranking[2]
<1>1. /\ IsFiniteSet(P) /\ bet \in [P -> Nat] /\ n \in Nat \ {0} /\ DOMAIN ranking = 1 .. n
      /\ \A j \in 1 .. n : ranking[j] \in P
      /\ Cardinality(contenders) <= n
      /\ 1 \in 1 .. n /\ 1 - 1 = 0 /\ 0 \in 0 .. n /\ 1 \in 0 .. n /\ n \in 1 .. n
    BY RankingCovers DEF Showdowns
<1>2. PICK after : /\ Steps(after, ranking, contenders, bet, pot)
                   /\ \A i \in 0 .. n : Within(after[i], i, ranking, contenders, bet)
    <2>1. pot \in Int
        <3>1. \A q \in P : bet[q] \in Nat
            BY <1>1
        <3>2. QED
            BY <1>1, <3>1, SumStep DEF Whole
    <2>2. QED
        BY <2>1, SettleSteps
<1>3. \A i \in 0 .. n : after[i] \in Settlements(P)
    BY <1>2 DEF Within
<1>4. after[n] = s
    BY <1>2 DEF Steps
<1>5. /\ after[1].is_defined /\ s.pay[r1] = after[1].pay[r1]
    BY <1>1, <1>2, <1>3, <1>4, PaidOnce
<1>6. after[0] = Unpaid(bet, pot) /\ after[1] = Entered(after[0], 1, ranking, contenders, bet)
    BY <1>1, <1>2 DEF Steps
<1>7. /\ after[0].is_defined /\ after[0].residual = bet /\ after[0].pot_diff = pot
      /\ \A q \in P : after[0].pay[q] = 0
    BY <1>6 DEF Unpaid
<1>8. after[1] = PayEntry(after[0], 1, ranking, contenders, bet)
    BY <1>6, <1>7 DEF Entered
<1> DEFINE covering == Covering(after[0], 1, ranking, contenders, bet)
<1>9. covering = {o \in Unreached(1, ranking, contenders) : bet[o] >= bet[r1]}
    BY <1>7 DEF Covering
<1>10. /\ r1 \in contenders /\ Unreached(1, ranking, contenders) \in SUBSET contenders
       /\ after[1].pot_diff = pot - bet[r1]
       /\ after[1].pay[r1] = bet[r1] * (1 + Cardinality(covering))
       /\ \A q \in P \ {r1} : after[1].pay[q] = 0
       /\ \A q \in P \cap covering : after[1].residual[q] = bet[q] - bet[r1]
    <2>1. after[0] \in Settlements(P) /\ r1 \in P
        BY <1>1, <1>3
    <2>2. QED
        BY <1>5, <1>7, <1>8, <2>1, PayEntryIs
<1>11. ASSUME Cardinality(contenders) = 2, bet[r1] <= bet[r2]
       PROVE  s.pay[r2] = bet[r2] - bet[r1]
    <2>1. 2 \in 1 .. n /\ 2 \in 0 .. n /\ 2 - 1 = 1 /\ n \in 2 .. n
        BY <1>1, <1>11
    <2>2. /\ r2 \in P /\ r2 # r1 /\ r2 \in P \ {r1}
          /\ bet[r1] \in Nat /\ bet[r2] \in Nat
        BY <1>1, <2>1 DEF Showdowns
    <2>3. after[2].is_defined /\ s.pay[r2] = after[2].pay[r2]
        BY <1>2, <1>3, <1>4, <2>1, PaidOnce
    <2>4. after[2] = Entered(after[1], 2, ranking, contenders, bet)
        BY <1>2, <2>1 DEF Steps
    <2>5. CASE after[1].pot_diff = 0
        <3>1. after[2] = after[1]
            BY <2>4, <2>5 DEF Entered
        <3>2. IsFiniteSet(P \ {r1}) /\ \A q \in P \ {r1} : bet[q] \in Nat
            BY <1>1, FS_Subset
        <3>3. pot = bet[r1] + SumOf(bet, P \ {r1})
            BY <1>1, SumStep DEF Whole
        <3>4. SumOf(bet, P \ {r1}) \in Nat
            BY <3>2, SumStep
        <3>5. SumOf(bet, P \ {r1}) = 0
            BY <1>10, <2>2, <2>5, <3>3, <3>4
        <3>6. bet[r2] = 0
            BY <2>2, <3>2, <3>5, SumIsNothing
        <3>7. QED
            BY <1>10, <1>11, <2>2, <2>3, <3>1, <3>6
    <2>6. CASE after[1].pot_diff # 0
        <3>1. after[2] = PayEntry(after[1], 2, ranking, contenders, bet)
            BY <1>5, <2>4, <2>6 DEF Entered
        <3>2. after[1] \in Settlements(P)
            BY <1>1, <1>3
        <3>3. after[2].pay[r2] =
                 after[1].residual[r2] * (1 + Cardinality(Covering(after[1], 2, ranking, contenders, bet)))
            BY <1>5, <2>2, <2>3, <3>1, <3>2, PayEntryIs
        <3>4. Covering(after[1], 2, ranking, contenders, bet) = {}
            <4>1. (2 + 1) .. Cardinality(contenders) = {}
                BY <1>11
            <4>2. QED
                BY <4>1 DEF Covering, Unreached
        <3>5. Cardinality({}) = 0
            BY FS_EmptySet
        <3>6. r2 \in covering
            <4>1. 2 \in (1 + 1) .. Cardinality(contenders)
                BY <1>11
            <4>2. r2 \in Unreached(1, ranking, contenders)
                BY <4>1 DEF Unreached
            <4>3. QED
                BY <1>9, <1>11, <2>2, <4>2
        <3>7. after[1].residual[r2] = bet[r2] - bet[r1]
            BY <1>10, <2>2, <3>6
        <3>8. (bet[r2] - bet[r1]) * (1 + 0) = bet[r2] - bet[r1]
            <4> DEFINE d == bet[r2] - bet[r1]
            <4>1. d \in Int
                BY <2>2
            <4> HIDE DEF d
            <4>2. d * (1 + 0) = d
                BY <4>1
            <4>3. QED
                BY <4>2 DEF d
        <3>9. QED
            BY <2>3, <3>3, <3>4, <3>5, <3>7, <3>8
    <2>7. QED
        BY <2>5, <2>6
<1>12. QED
    BY <1>5, <1>9, <1>10, <1>11
-----------------------------------------------------------------------------
(* The folds: what MapThenFoldSet's recursion over the places of a         *)
(* sequence is.                                                            *)
Fold(g, n, base, F) ==
    g = [s \in SUBSET (1 .. n) |-> IF s = {} THEN base
                                   ELSE F[<<g[s \ {Max(s)}], Max(s)>>]]

(* A set of numbers that is finite and not empty has a greatest, and only  *)
(* that one is no less than the others.                                    *)
LEMMA HighestIs ==
    ASSUME NEW n \in Nat, NEW s \in SUBSET (0 .. n), s # {}
    PROVE  Max(s) \in s /\ \A y \in s : Max(s) >= y
<1>1. \E x \in s : \A y \in s : x >= y
    <2> DEFINE Gaps == {n - y : y \in s}
    <2>1. Gaps \in SUBSET Nat /\ Gaps # {}
        <3>1. \A y \in s : n - y \in Nat OBVIOUS
        <3>. QED BY <3>1
    <2>2. PICK g \in Gaps : \A h \in Gaps : g <= h BY <2>1, LeastNat
    <2>3. PICK x \in s : g = n - x OBVIOUS
    <2>4. \A y \in s : n - x <= n - y BY <2>2, <2>3
    <2>. QED BY <2>4
<1>. QED BY <1>1 DEF Max


LEMMA MaxOnly ==
    ASSUME NEW s \in SUBSET Int, NEW x \in s, \A y \in s : y <= x
    PROVE  Max(s) = x
<1>1. x \in Int /\ \A y \in s : y \in Int /\ x >= y OBVIOUS
<1>2. Max(s) \in s /\ \A y \in s : Max(s) >= y BY <1>1 DEF Max
<1>3. Max(s) \in Int /\ x >= Max(s) /\ Max(s) >= x BY <1>1, <1>2
<1>. QED BY <1>1, <1>3


LEMMA MaxIs ==
    ASSUME NEW n \in Nat, NEW s \in SUBSET (1 .. n), s # {}
    PROVE  Max(s) \in s /\ \A y \in s : Max(s) >= y
<1>1. s \in SUBSET (0 .. n) OBVIOUS
<1>. QED BY <1>1, HighestIs

(* The greatest of the first n numbers.                                    *)
LEMMA MaxOfInterval ==
    ASSUME NEW n \in Nat \ {0}
    PROVE  Max(1 .. n) = n /\ (1 .. n) \ {n} = 1 .. (n - 1)
<1>1. Max(1 .. n) \in 1 .. n /\ \A y \in 1 .. n : Max(1 .. n) >= y BY MaxIs, 1 \in 1 .. n
<1>. QED BY <1>1

(* The recursion has a solution.                                           *)
LEMMA FoldExists ==
    ASSUME NEW n \in Nat, NEW base, NEW F
    PROVE  \E g : Fold(g, n, base, F)
<1> DEFINE T == 1 .. n
           Is(g, s) == g = [r \in SUBSET s |-> IF r = {} THEN base
                                               ELSE F[<<g[r \ {Max(r)}], Max(r)>>]]
           P == {s \in SUBSET T : \E g : Is(g, s)}
<1>1. IsFiniteSet(T) BY FS_Interval
<1>2. ASSUME NEW s \in SUBSET T, \A x \in s : s \ {x} \in P
      PROVE  s \in P
    <2>1. CASE s = {}
        <3> DEFINE g == [r \in SUBSET s |-> base]
        <3>1. Is(g, s) BY <2>1
        <3>. QED BY <3>1
    <2>2. CASE s # {}
        <3> DEFINE m == Max(s)
                   u == s \ {m}
        <3>1. m \in s /\ u \in SUBSET s /\ m \notin u BY <2>2, MaxIs
        <3>2. PICK g : Is(g, u) BY <1>2, <3>1
        <3>. DEFINE h == [r \in SUBSET s |->
                            IF r = {} THEN base
                            ELSE F[<<g[r \ {Max(r)}], Max(r)>>]]
        <3>3. ASSUME NEW r \in SUBSET s, r # {}
              PROVE  r \ {Max(r)} \in SUBSET u
            <4>1. r \in SUBSET T OBVIOUS
            <4>2. Max(r) \in r /\ \A y \in r : Max(r) >= y BY <4>1, <3>3, MaxIs
            <4>3. \A y \in s : m >= y BY <2>2, MaxIs
            <4>4. m \in Nat /\ Max(r) \in Nat
                <5>1. \A y \in T : y \in Nat OBVIOUS
                <5>2. m \in T BY <3>1
                <5>3. Max(r) \in T BY <4>1, <4>2
                <5> HIDE DEF m, T
                <5>. QED BY <5>1, <5>2, <5>3
            <4> HIDE DEF m
            <4>5. m \in r => Max(r) = m BY <4>2, <4>3, <4>4
            <4>. QED BY <4>2, <4>5 DEF u
        <3>4. ASSUME NEW r \in SUBSET u PROVE h[r] = g[r]
            <4>1. r \in SUBSET s OBVIOUS
            <4>2. g[r] = IF r = {} THEN base ELSE F[<<g[r \ {Max(r)}], Max(r)>>]
                BY <3>2
            <4>. QED BY <4>1, <4>2
        <3> HIDE DEF m, u
        <3>5. Is(h, s)
            <4>1. \A r \in SUBSET s : r # {} => h[r \ {Max(r)}] = g[r \ {Max(r)}]
                BY <3>3, <3>4
            <4> DEFINE k == [r \in SUBSET s |-> IF r = {} THEN base
                                               ELSE F[<<h[r \ {Max(r)}], Max(r)>>]]
            <4>2. \A r \in SUBSET s : h[r] = k[r]
                <5>1. ASSUME NEW r \in SUBSET s PROVE h[r] = k[r]
                    <6> DEFINE z == r \ {Max(r)}
                    <6>1. CASE r = {} BY <6>1
                    <6>2. CASE r # {}
                        <7>1. h[z] = g[z] BY <4>1, <6>2
                        <7>2. h[r] = F[<<g[z], Max(r)>>] BY <6>2
                        <7> HIDE DEF h
                        <7>3. k[r] = F[<<h[z], Max(r)>>] BY <6>2
                        <7>. QED BY <7>1, <7>2, <7>3
                    <6>. QED BY <6>1, <6>2
                <5>. QED BY <5>1
            <4>3. h = k
                <5>. QED BY <4>2
            <4>. QED BY <4>3
        <3>. QED BY <3>5
    <2>. QED BY <2>1, <2>2
<1> HIDE DEF P
<1>3. T \in P
    <2>1. P \in SUBSET (SUBSET T) BY DEF P
    <2> HIDE DEF T
    <2>2. \A s \in SUBSET T : s \in P BY <1>1, <1>2, <2>1, BySmaller
    <2>. QED BY <2>2
<1>. QED BY <1>3 DEF P, Fold
(* Its values over the first numbers are the steps of a loop.              *)
LEMMA FoldSteps ==
    ASSUME NEW n \in Nat, NEW base, NEW F, NEW g, Fold(g, n, base, F)
    PROVE  /\ g[1 .. 0] = base
           /\ \A i \in 1 .. n : g[1 .. i] = F[<<g[1 .. (i - 1)], i>>]
<1>1. \A s \in SUBSET (1 .. n) :
          g[s] = IF s = {} THEN base ELSE F[<<g[s \ {Max(s)}], Max(s)>>]
    BY DEF Fold
<1>2. g[1 .. 0] = base BY <1>1, 1 .. 0 = {}, {} \in SUBSET (1 .. n)
<1>3. ASSUME NEW i \in 1 .. n PROVE g[1 .. i] = F[<<g[1 .. (i - 1)], i>>]
    <2>1. Max(1 .. i) = i /\ (1 .. i) \ {i} = 1 .. (i - 1) BY MaxOfInterval
    <2>2. 1 .. i \in SUBSET (1 .. n) /\ 1 .. i # {} OBVIOUS
    <2>. QED BY <1>1, <2>1, <2>2
<1>. QED BY <1>2, <1>3

(* And its values stay where the steps stay.                               *)
LEMMA FoldValues ==
    ASSUME NEW n \in Nat, NEW base, NEW F, NEW g, Fold(g, n, base, F), NEW X, base \in X,
           \A x \in X, i \in 1 .. n : F[<<x, i>>] \in X
    PROVE  \A s \in SUBSET (1 .. n) : g[s] \in X
<1> DEFINE T == 1 .. n
           P == {s \in SUBSET T : g[s] \in X}
<1>1. \A s \in SUBSET T : g[s] = IF s = {} THEN base ELSE F[<<g[s \ {Max(s)}], Max(s)>>]
    BY DEF Fold
<1>2. ASSUME NEW s \in SUBSET T, \A x \in s : s \ {x} \in P PROVE s \in P
    <2>1. CASE s = {} BY <1>1, <2>1
    <2>2. CASE s # {}
        <3>1. Max(s) \in s /\ Max(s) \in 1 .. n BY <2>2, MaxIs
        <3>2. g[s \ {Max(s)}] \in X BY <1>2, <3>1
        <3>. QED BY <1>1, <2>2, <3>1, <3>2
    <2>. QED BY <2>1, <2>2
<1>3. P \in SUBSET (SUBSET T) /\ IsFiniteSet(T) BY FS_Interval
<1> HIDE DEF T
<1>4. \A s \in SUBSET T : s \in P BY <1>2, <1>3, BySmaller
<1>. QED BY <1>4 DEF T
=============================================================================
