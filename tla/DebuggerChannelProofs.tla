----------------------- MODULE DebuggerChannelProofs ------------------------
(***************************************************************************)
(* Proofs about DebuggerChannel for every answer, every division of the    *)
(* output by read() and every script that parses once for each end marker. *)
(***************************************************************************)
EXTENDS DebuggerChannel, SequenceTheorems, FiniteSetTheorems, WellFoundedInduction, TLAPS

-----------------------------------------------------------------------------
(* Counting in sequences                                                   *)

Count(s, x) == Cardinality(Places(s, x))

LEMMA CountIs ==
  ASSUME NEW s, Len(s) \in Nat, NEW x
  PROVE  /\ IsFiniteSet(Places(s, x)) /\ Count(s, x) \in Nat
         /\ Count(s, x) = 0 <=> \A i \in 1 .. Len(s) : s[i] # x
<1>1. IsFiniteSet(1 .. Len(s))
  BY FS_Interval
<1>2. IsFiniteSet(Places(s, x))
  BY <1>1, FS_Subset DEF Places
<1>3. Count(s, x) \in Nat
  BY <1>2, FS_CardinalityType DEF Count
<1>4. Count(s, x) = 0 <=> Places(s, x) = {}
  BY <1>2, FS_EmptySet DEF Count
<1> QED BY <1>2, <1>3, <1>4 DEF Places

(* One sequence is two others, one behind the other.                       *)
Joins(u, s, t) ==
  /\ Len(s) \in Nat /\ Len(t) \in Nat /\ Len(u) = Len(s) + Len(t)
  /\ \A i \in 1 .. Len(s) : u[i] = s[i]
  /\ \A i \in 1 .. Len(t) : u[Len(s) + i] = t[i]

LEMMA CountBoth ==
  ASSUME NEW s, NEW t, NEW u, Joins(u, s, t), NEW x
  PROVE  Count(u, x) = Count(s, x) + Count(t, x)
<1> USE DEF Joins
<1> DEFINE A == Places(s, x)
           B == Places(t, x)
           shift == [i \in B |-> Len(s) + i]
           C == {Len(s) + i : i \in B}
<1>1. IsFiniteSet(A) /\ IsFiniteSet(B)
  BY CountIs
<1>2. A \subseteq 1 .. Len(s) /\ B \subseteq 1 .. Len(t)
  BY DEF Places
<1>3. shift \in Bijection(B, C)
  <2>1. \A i, j \in B : Len(s) + i = Len(s) + j => i = j
    BY <1>2
  <2> HIDE DEF A, B
  <2> QED BY <2>1 DEF Bijection, Injection, Surjection, IsInjective
<1>4. IsFiniteSet(C) /\ Cardinality(C) = Cardinality(B)
  <2>1. ExistsBijection(B, C)
    BY <1>3 DEF ExistsBijection
  <2> HIDE DEF B, C
  <2> QED BY <1>1, <2>1, FS_Bijection
<1>5. A \cap C = {}
  BY <1>2
<1>6. Places(u, x) = A \cup C
  <2>1. ASSUME NEW i \in 1 .. Len(u), u[i] = x PROVE i \in A \cup C
    <3>1. CASE i \in 1 .. Len(s)
      BY <2>1, <3>1 DEF Places
    <3>2. CASE i \notin 1 .. Len(s)
      <4>1. i - Len(s) \in 1 .. Len(t) /\ Len(s) + (i - Len(s)) = i
        BY <3>2
      <4>2. i - Len(s) \in B
        BY <2>1, <4>1 DEF Places
      <4> HIDE DEF B
      <4> QED BY <4>1, <4>2
    <3> QED BY <3>1, <3>2
  <2>2. ASSUME NEW i \in A PROVE i \in 1 .. Len(u) /\ u[i] = x
    <3>1. i \in 1 .. Len(s) /\ s[i] = x
      BY DEF Places
    <3> QED BY <3>1
  <2>3. ASSUME NEW i \in B PROVE Len(s) + i \in 1 .. Len(u) /\ u[Len(s) + i] = x
    <3>1. i \in 1 .. Len(t) /\ t[i] = x
      BY DEF Places
    <3> QED BY <3>1
  <2> HIDE DEF A, B
  <2> QED BY <2>1, <2>2, <2>3 DEF Places
<1>7. Cardinality(A \cup C) = Cardinality(A) + Cardinality(C)
  <2>1. Cardinality(A \cap C) = 0
    BY <1>5, FS_EmptySet
  <2>2. Cardinality(A) \in Nat /\ Cardinality(C) \in Nat
    BY <1>1, <1>4, FS_CardinalityType
  <2>3. IsFiniteSet(A) /\ IsFiniteSet(C)
    BY <1>1, <1>4
  <2> HIDE DEF A, C
  <2>4. Cardinality(A \cup C) = Cardinality(A) + Cardinality(C) - Cardinality(A \cap C)
    BY ONLY <2>3, FS_Union
  <2> QED BY <2>1, <2>2, <2>4
<1> QED BY <1>4, <1>6, <1>7 DEF Count

LEMMA CountOne ==
  ASSUME NEW s, NEW x, NEW k, Places(s, x) = {k}
  PROVE  Count(s, x) = 1
BY FS_Singleton DEF Count

LEMMA CountConcat ==
  ASSUME NEW S, NEW s \in Seq(S), NEW t \in Seq(S), NEW x
  PROVE  Count(s \o t, x) = Count(s, x) + Count(t, x)
<1>1. Len(s) \in Nat /\ Len(t) \in Nat /\ Len(s \o t) = Len(s) + Len(t)
  BY LenProperties, ConcatProperties
<1>2. \A i \in 1 .. Len(s) + Len(t) : (s \o t)[i] = IF i <= Len(s) THEN s[i] ELSE t[i - Len(s)]
  BY ConcatProperties
<1>3. ASSUME NEW i \in 1 .. Len(s) PROVE (s \o t)[i] = s[i]
  BY <1>1, <1>2
<1>4. ASSUME NEW i \in 1 .. Len(t) PROVE (s \o t)[Len(s) + i] = t[i]
  <2>1. Len(s) + i \in 1 .. Len(s) + Len(t) /\ ~(Len(s) + i <= Len(s)) /\ (Len(s) + i) - Len(s) = i
    BY <1>1
  <2> QED BY <1>2, <2>1
<1>5. Joins(s \o t, s, t)
  BY <1>1, <1>3, <1>4 DEF Joins
<1> QED BY <1>5, CountBoth

LEMMA CountTail ==
  ASSUME NEW S, NEW s \in Seq(S), s # <<>>, NEW x
  PROVE  Count(s, x) = Count(Tail(s), x) + (IF Head(s) = x THEN 1 ELSE 0)
<1> DEFINE h == <<Head(s)>>
<1>1. /\ Len(s) \in Nat \ {0} /\ Tail(s) \in Seq(S) /\ Len(Tail(s)) = Len(s) - 1
      /\ \A i \in 1 .. Len(Tail(s)) : Tail(s)[i] = s[i + 1]
  BY EmptySeq, HeadTailProperties
<1>2. Len(h) = 1 /\ h[1] = Head(s) /\ Head(s) = s[1]
  OBVIOUS
<1> HIDE DEF h
<1>3. Count(s, x) = Count(h, x) + Count(Tail(s), x)
  <2>1. Len(h) \in Nat /\ Len(Tail(s)) \in Nat /\ Len(s) = Len(h) + Len(Tail(s))
    BY <1>1, <1>2
  <2>2. \A i \in 1 .. Len(h) : s[i] = h[i]
    BY <1>2
  <2>3. \A i \in 1 .. Len(Tail(s)) : s[Len(h) + i] = Tail(s)[i]
    BY <1>1, <1>2
  <2>4. Joins(s, h, Tail(s))
    BY <2>1, <2>2, <2>3 DEF Joins
  <2> QED BY <2>4, CountBoth
<1>4. Count(h, x) = IF Head(s) = x THEN 1 ELSE 0
  <2>1. CASE Head(s) = x
    <3>1. Places(h, x) = {1}
      BY <1>2, <2>1 DEF Places
    <3> QED BY <2>1, <3>1, CountOne
  <2>2. CASE Head(s) # x
    BY <1>2, <2>2, CountIs
  <2> QED BY <2>1, <2>2
<1>5. Count(Tail(s), x) \in Nat
  <2>1. Len(Tail(s)) \in Nat
    BY <1>1
  <2> QED BY <2>1, CountIs
<1> QED BY <1>3, <1>4, <1>5

LEMMA CountAppend ==
  ASSUME NEW S, NEW s \in Seq(S), NEW y \in S, NEW x
  PROVE  Count(Append(s, y), x) = Count(s, x) + (IF y = x THEN 1 ELSE 0)
<1> DEFINE e == <<y>>
<1>1. Len(e) = 1 /\ e[1] = y
  OBVIOUS
<1> HIDE DEF e
<1>2. /\ Len(s) \in Nat /\ Len(Append(s, y)) = Len(s) + 1 /\ Append(s, y)[Len(s) + 1] = y
      /\ \A i \in 1 .. Len(s) : Append(s, y)[i] = s[i]
  BY AppendProperties, LenProperties
<1>3. Count(Append(s, y), x) = Count(s, x) + Count(e, x)
  <2>1. Joins(Append(s, y), s, e)
    BY <1>1, <1>2 DEF Joins
  <2> QED BY <2>1, CountBoth
<1>4. Count(e, x) = IF y = x THEN 1 ELSE 0
  <2>1. CASE y = x
    <3>1. Places(e, x) = {1}
      BY <1>1, <2>1 DEF Places
    <3> QED BY <2>1, <3>1, CountOne
  <2>2. CASE y # x
    BY <1>1, <2>2, CountIs
  <2> QED BY <2>1, <2>2
<1> QED BY <1>3, <1>4

(* What a read() takes and what it leaves.                                 *)
LEMMA CutIs ==
  ASSUME NEW S, NEW s \in Seq(S), NEW n \in 1 .. Len(s)
  PROVE  LET a == SubSeq(s, 1, n)
             b == SubSeq(s, n + 1, Len(s))
         IN /\ a \in Seq(S) /\ b \in Seq(S) /\ Len(a) = n /\ Len(b) = Len(s) - n
            /\ \A i \in 1 .. n : a[i] = s[i]
            /\ \A i \in 1 .. Len(s) - n : b[i] = s[n + i]
            /\ \A x : Count(s, x) = Count(a, x) + Count(b, x)
<1> DEFINE a == SubSeq(s, 1, n)
           b == SubSeq(s, n + 1, Len(s))
<1>1. Len(s) \in Nat /\ \A i \in 1 .. Len(s) : s[i] \in S
  BY LenProperties, ElementOfSeq
<1>2. a \in Seq(S) /\ Len(a) = n /\ \A i \in 1 .. n : a[i] = s[i]
  <2>1. \A i \in 1 .. n : s[i] \in S
    BY <1>1
  <2>2. a \in Seq(S) /\ (Len(a) = IF 1 <= n THEN n - 1 + 1 ELSE 0) /\ \A i \in 1 .. n - 1 + 1 : a[i] = s[1 + i - 1]
    BY <2>1, SubSeqProperties
  <2> HIDE DEF a
  <2> QED BY <2>2
<1>3. b \in Seq(S) /\ Len(b) = Len(s) - n /\ \A i \in 1 .. Len(s) - n : b[i] = s[n + i]
  <2>1. \A i \in n + 1 .. Len(s) : s[i] \in S
    BY <1>1
  <2>2. /\ b \in Seq(S) /\ Len(b) = IF n + 1 <= Len(s) THEN Len(s) - (n + 1) + 1 ELSE 0
        /\ \A i \in 1 .. Len(s) - (n + 1) + 1 : b[i] = s[(n + 1) + i - 1]
    BY <1>1, <2>1, SubSeqProperties
  <2> HIDE DEF b
  <2>3. Len(b) = Len(s) - n
    BY <1>1, <2>2
  <2>4. ASSUME NEW i \in 1 .. Len(s) - n PROVE b[i] = s[n + i]
    <3>1. i \in 1 .. Len(s) - (n + 1) + 1 /\ (n + 1) + i - 1 = n + i
      BY <1>1
    <3> QED BY <2>2, <3>1
  <2> QED BY <2>2, <2>3, <2>4
<1> HIDE DEF a, b
<1>4. ASSUME NEW x PROVE Count(s, x) = Count(a, x) + Count(b, x)
  <2>1. Len(a) \in Nat /\ Len(b) \in Nat /\ Len(s) = Len(a) + Len(b)
    BY <1>1, <1>2, <1>3
  <2>2. Joins(s, a, b)
    BY <1>2, <1>3, <2>1 DEF Joins
  <2> QED BY <2>2, CountBoth
<1> QED BY <1>2, <1>3, <1>4 DEF a, b

-----------------------------------------------------------------------------
(* Induction, and functions that are given by a recurrence.                *)

(* Every non-empty set of natural numbers has a least element.             *)
LEMMA LeastNumber ==
  ASSUME NEW T \in SUBSET Nat, T # {}
  PROVE  \E x \in T : \A y \in T : x <= y
<1> DEFINE Less == {pair \in Nat \X Nat : pair[1] < pair[2]}
<1>1. IsWellFoundedOn(Less, Nat)
  BY NatLessThanWellFounded DEF OpToRel
<1> HIDE DEF Less
<1>2. PICK x \in T : \A y \in T : <<y, x>> \notin Less
  BY <1>1, WFMin
<1>3. \A y \in T : ~ (y < x)
  BY <1>2 DEF Less
<1>4. QED BY <1>3

(* Induction over the places 0 .. n, for a property stated as a set.       *)
LEMMA Induction ==
  ASSUME NEW n \in Nat, NEW S, 0 \in S, \A i \in 1 .. n : i - 1 \in S => i \in S
  PROVE  0 .. n \subseteq S
<1> SUFFICES ASSUME 0 .. n \ S # {} PROVE FALSE
  OBVIOUS
<1>1. PICK i \in 0 .. n \ S : \A j \in 0 .. n \ S : i <= j
  <2>1. (0 .. n \ S) \in SUBSET Nat
    OBVIOUS
  <2> QED BY <2>1, LeastNumber
<1>2. i \in 1 .. n /\ i - 1 \in 0 .. n
  BY <1>1
<1> QED BY <1>1, <1>2

(* There is a function that begins with a value and goes on as a turn says.*)
IsStep(turn, n, D) == turn \in [(1 .. n) \X D -> D]
Iterates(f, start, turn, n, D) ==
  f \in [0 .. n -> D] /\ f[0] = start /\ \A i \in 1 .. n : f[i] = turn[<<i, f[i - 1]>>]
LEMMA Iteration ==
  ASSUME NEW D, NEW start \in D, NEW n \in Nat, NEW turn, IsStep(turn, n, D)
  PROVE  \E f : Iterates(f, start, turn, n, D)
<1> DEFINE Goes(f, k) == f[0] = start /\ \A i \in 1 .. k : f[i] = turn[<<i, f[i - 1]>>]
           Solved == {k \in Nat : \E f \in [0 .. k -> D] : Goes(f, k)}
<1>1. 0 \in Solved
  <2>1. [i \in 0 .. 0 |-> start] \in [0 .. 0 -> D] /\ Goes([i \in 0 .. 0 |-> start], 0)
    OBVIOUS
  <2> HIDE DEF Goes
  <2> QED BY <2>1
<1>2. ASSUME NEW k \in 1 .. n, k - 1 \in Solved PROVE k \in Solved
  <2>1. PICK f \in [0 .. k - 1 -> D] : Goes(f, k - 1)
    BY <1>2
  <2> DEFINE g == [i \in 0 .. k |-> IF i = k THEN turn[<<k, f[k - 1]>>] ELSE f[i]]
  <2>2. f[k - 1] \in D /\ turn[<<k, f[k - 1]>>] \in D
    <3>1. k - 1 \in 0 .. k - 1
      OBVIOUS
    <3>2. f[k - 1] \in D
      BY <3>1
    <3>3. <<k, f[k - 1]>> \in (1 .. n) \X D
      BY <3>2
    <3> QED BY <3>2, <3>3 DEF IsStep
  <2>3. g \in [0 .. k -> D]
    BY <2>2
  <2>4. \A i \in 0 .. k - 1 : g[i] = f[i]
    OBVIOUS
  <2>5. g[k] = turn[<<k, f[k - 1]>>]
    OBVIOUS
  <2> HIDE DEF g
  <2>6. g[0] = start
    BY <2>1, <2>4
  <2>7. ASSUME NEW i \in 1 .. k PROVE g[i] = turn[<<i, g[i - 1]>>]
    <3>1. g[i - 1] = f[i - 1]
      BY <2>4
    <3>2. CASE i = k
      BY <2>5, <3>1, <3>2
    <3>3. CASE i \in 1 .. k - 1
      BY <2>1, <2>4, <3>1, <3>3
    <3> QED BY <3>2, <3>3
  <2> QED BY <2>3, <2>6, <2>7
<1> HIDE DEF Solved
<1>3. n \in Solved
  BY <1>1, <1>2, Induction
<1> QED BY <1>3 DEF Solved, Iterates


-----------------------------------------------------------------------------
(* Going through a sequence, one turn for each element                     *)

Through(turn, p, s) ==
  LET f[i \in 0 .. Len(s)] == IF i = 0 THEN p ELSE turn[<<f[i - 1], s[i]>>]
  IN f[Len(s)]

IsTurn(turn, D, E) == turn \in [D \X E -> D]
Goes(f, turn, p, s, D) ==
  /\ f \in [0 .. Len(s) -> D] /\ f[0] = p
  /\ \A i \in 1 .. Len(s) : f[i] = turn[<<f[i - 1], s[i]>>]

LEMMA OneWayToGo ==
  ASSUME NEW D, NEW turn, NEW p, NEW s, Len(s) \in Nat, NEW f, NEW g,
         Goes(f, turn, p, s, D), Goes(g, turn, p, s, D)
  PROVE  f[Len(s)] = g[Len(s)]
<1> DEFINE S == {i \in Nat : f[i] = g[i]}
<1>1. 0 \in S
  BY DEF Goes
<1>2. ASSUME NEW i \in 1 .. Len(s), i - 1 \in S PROVE i \in S
  <2>1. f[i] = turn[<<f[i - 1], s[i]>>] /\ g[i] = turn[<<g[i - 1], s[i]>>]
    BY DEF Goes
  <2>2. f[i - 1] = g[i - 1]
    BY <1>2
  <2>3. f[i] = g[i]
    BY <2>1, <2>2, Zenon
  <2> QED BY <2>3
<1> HIDE DEF S
<1>3. 0 .. Len(s) \subseteq S
  BY <1>1, <1>2, Induction
<1>4. Len(s) \in S
  BY <1>3
<1> QED BY <1>4 DEF S

LEMMA GoesThrough ==
  ASSUME NEW D, NEW E, NEW turn, IsTurn(turn, D, E), NEW p \in D, NEW s \in Seq(E)
  PROVE  /\ Len(s) \in Nat
         /\ \E f : Goes(f, turn, p, s, D) /\ Through(turn, p, s) = f[Len(s)]
<1>1. PICK n \in Nat : n = Len(s)
  BY LenProperties
<1>2. \A i \in 1 .. n : s[i] \in E
  BY <1>1, ElementOfSeq
<1>3. \A i \in 1 .. n : \A q \in D : turn[<<q, s[i]>>] \in D
  BY <1>2 DEF IsTurn
<1> DEFINE Whole(f) == [i \in 0 .. n |-> IF i = 0 THEN p ELSE turn[<<f[i - 1], s[i]>>]]
<1>4. \E f : f = Whole(f)
  <2> DEFINE step_ == [q \in (1 .. n) \X D |-> turn[<<q[2], s[q[1]]>>]]
  <2>1. IsStep(step_, n, D)
    <3>1. \A q \in (1 .. n) \X D : turn[<<q[2], s[q[1]]>>] \in D
      BY <1>3
    <3> QED BY <3>1 DEF IsStep
  <2>2. \A k \in 1 .. n, h \in D : step_[<<k, h>>] = turn[<<h, s[k]>>]
    OBVIOUS
  <2> HIDE DEF step_
  <2>3. PICK g : Iterates(g, p, step_, n, D)
    BY <2>1, Iteration
  <2>4. g \in [0 .. n -> D] /\ g[0] = p /\ \A k \in 1 .. n : g[k] = turn[<<g[k - 1], s[k]>>]
    <3>1. g \in [0 .. n -> D] /\ g[0] = p /\ \A k \in 1 .. n : g[k] = step_[<<k, g[k - 1]>>]
      BY <2>3 DEF Iterates
    <3>2. \A k \in 1 .. n : g[k - 1] \in D
      BY <3>1
    <3> QED BY <2>2, <3>1, <3>2
  <2>5. \A i \in 0 .. n : g[i] = IF i = 0 THEN p ELSE turn[<<g[i - 1], s[i]>>]
    BY <2>4
  <2>6. g = Whole(g)
    BY <2>4, <2>5
  <2> QED BY <2>6
<1>5. PICK f : f = Whole(f) /\ Through(turn, p, s) = f[n]
  BY <1>1, <1>4 DEF Through
<1>6. \A i \in 0 .. n : f[i] = IF i = 0 THEN p ELSE turn[<<f[i - 1], s[i]>>]
  <2> DEFINE h == Whole(f)
  <2>1. \A i \in 0 .. n : h[i] = IF i = 0 THEN p ELSE turn[<<f[i - 1], s[i]>>]
    OBVIOUS
  <2>2. f = h
    BY <1>5
  <2> HIDE DEF h
  <2> QED BY <2>1, <2>2
<1>7. DOMAIN f = 0 .. n /\ f = [i \in 0 .. n |-> f[i]]
  <2> DEFINE h == Whole(f)
  <2>1. DOMAIN h = 0 .. n /\ h = [i \in 0 .. n |-> h[i]]
    OBVIOUS
  <2>2. f = h
    BY <1>5
  <2> HIDE DEF h
  <2> QED BY <2>1, <2>2
<1> HIDE DEF Whole
<1> DEFINE S == {i \in Nat : f[i] \in D}
<1>8. 0 \in S
  <2>1. f[0] = p
    <3>1. 0 \in 0 .. n
      OBVIOUS
    <3> QED BY <1>6, <3>1, Zenon
  <2> QED BY <2>1
<1>9. ASSUME NEW i \in 1 .. n, i - 1 \in S PROVE i \in S
  <2>1. i \in 0 .. n /\ i # 0
    OBVIOUS
  <2>2. f[i] = turn[<<f[i - 1], s[i]>>]
    BY <1>6, <2>1, Zenon
  <2>3. f[i - 1] \in D
    BY <1>9
  <2>4. f[i] \in D
    BY <1>3, <2>2, <2>3, Zenon
  <2> QED BY <2>4
<1> HIDE DEF S
<1>10. 0 .. n \subseteq S
  BY <1>8, <1>9, Induction
<1>11. \A i \in 0 .. n : f[i] \in D
  BY <1>10 DEF S
<1>12. f \in [0 .. n -> D] /\ f[0] = p /\ \A i \in 1 .. n : f[i] = turn[<<f[i - 1], s[i]>>]
  BY <1>6, <1>7, <1>11
<1> QED BY <1>1, <1>5, <1>12 DEF Goes

LEMMA ConcatJoins ==
  ASSUME NEW S, NEW s \in Seq(S)
  PROVE  /\ \A t \in Seq(S) : s \o t \in Seq(S) /\ Joins(s \o t, s, t)
         /\ \A x \in S : /\ Append(s, x) \in Seq(S) /\ <<x>> \in Seq(S)
                         /\ Joins(Append(s, x), s, <<x>>)
         /\ s # <<>> => /\ Head(s) \in S /\ Tail(s) \in Seq(S) /\ <<Head(s)>> \in Seq(S)
                        /\ Joins(s, <<Head(s)>>, Tail(s))
<1>1. ASSUME NEW t \in Seq(S) PROVE s \o t \in Seq(S) /\ Joins(s \o t, s, t)
  <2>1. /\ s \o t \in Seq(S) /\ Len(s) \in Nat /\ Len(t) \in Nat /\ Len(s \o t) = Len(s) + Len(t)
        /\ \A i \in 1 .. Len(s) + Len(t) : (s \o t)[i] = IF i <= Len(s) THEN s[i] ELSE t[i - Len(s)]
    BY LenProperties, ConcatProperties
  <2>2. ASSUME NEW i \in 1 .. Len(s) PROVE (s \o t)[i] = s[i]
    BY <2>1
  <2>3. ASSUME NEW i \in 1 .. Len(t) PROVE (s \o t)[Len(s) + i] = t[i]
    <3>1. Len(s) + i \in 1 .. Len(s) + Len(t) /\ ~(Len(s) + i <= Len(s)) /\ (Len(s) + i) - Len(s) = i
      BY <2>1
    <3> QED BY <2>1, <3>1
  <2> QED BY <2>1, <2>2, <2>3 DEF Joins
<1>2. ASSUME NEW x \in S
      PROVE  Append(s, x) \in Seq(S) /\ <<x>> \in Seq(S) /\ Joins(Append(s, x), s, <<x>>)
  <2> DEFINE e == <<x>>
  <2>1. e \in Seq(S) /\ Len(e) = 1 /\ e[1] = x
    OBVIOUS
  <2> HIDE DEF e
  <2>2. /\ Append(s, x) \in Seq(S) /\ Len(s) \in Nat /\ Len(Append(s, x)) = Len(s) + 1
        /\ Append(s, x)[Len(s) + 1] = x /\ \A i \in 1 .. Len(s) : Append(s, x)[i] = s[i]
    BY AppendProperties, LenProperties
  <2>3. Joins(Append(s, x), s, e)
    BY <2>1, <2>2 DEF Joins
  <2> QED BY <2>1, <2>2, <2>3 DEF e
<1>3. ASSUME s # <<>>
      PROVE  /\ Head(s) \in S /\ Tail(s) \in Seq(S) /\ <<Head(s)>> \in Seq(S)
             /\ Joins(s, <<Head(s)>>, Tail(s))
  <2> DEFINE e == <<Head(s)>>
  <2>1. /\ Len(s) \in Nat \ {0} /\ Tail(s) \in Seq(S) /\ Len(Tail(s)) = Len(s) - 1
        /\ Head(s) = s[1] /\ Head(s) \in S
        /\ \A i \in 1 .. Len(Tail(s)) : Tail(s)[i] = s[i + 1]
    BY <1>3, EmptySeq, HeadTailProperties
  <2>2. e \in Seq(S) /\ Len(e) = 1 /\ e[1] = Head(s)
    BY <2>1
  <2> HIDE DEF e
  <2>3. \A i \in 1 .. Len(Tail(s)) : s[Len(e) + i] = Tail(s)[i]
    BY <2>1, <2>2
  <2>4. Joins(s, e, Tail(s))
    BY <2>1, <2>2, <2>3 DEF Joins
  <2> QED BY <2>1, <2>2, <2>4 DEF e
<1> QED BY <1>1, <1>2, <1>3

LEMMA GoingIsThrough ==
  ASSUME NEW D, NEW E, NEW turn, IsTurn(turn, D, E), NEW p \in D, NEW s \in Seq(E),
         NEW f, Goes(f, turn, p, s, D)
  PROVE  Through(turn, p, s) = f[Len(s)]
<1>1. PICK g : Goes(g, turn, p, s, D) /\ Through(turn, p, s) = g[Len(s)]
  BY GoesThrough
<1>2. Len(s) \in Nat
  BY LenProperties
<1> QED BY <1>1, <1>2, OneWayToGo

(* First through one part, then from there through the other.              *)
LEMMA ThroughJoined ==
  ASSUME NEW D, NEW E, NEW turn, IsTurn(turn, D, E), NEW p \in D,
         NEW s \in Seq(E), NEW t \in Seq(E), NEW u \in Seq(E), Joins(u, s, t)
  PROVE  /\ Through(turn, p, s) \in D
         /\ Through(turn, p, u) = Through(turn, Through(turn, p, s), t)
<1>1. PICK m \in Nat, n \in Nat : m = Len(s) /\ n = Len(t) /\ Len(u) = m + n
  BY DEF Joins
<1>2. PICK f : Goes(f, turn, p, u, D) /\ Through(turn, p, u) = f[m + n]
  <2>1. PICK f : Goes(f, turn, p, u, D) /\ Through(turn, p, u) = f[Len(u)]
    BY ONLY IsTurn(turn, D, E), p \in D, u \in Seq(E), GoesThrough
  <2> QED BY <1>1, <2>1
<1>3. /\ f \in [0 .. m + n -> D] /\ f[0] = p
      /\ \A i \in 1 .. m + n : f[i] = turn[<<f[i - 1], u[i]>>]
  BY <1>1, <1>2 DEF Goes
<1>4. /\ \A i \in 1 .. m : u[i] = s[i]
      /\ \A i \in 1 .. n : u[m + i] = t[i]
  BY <1>1 DEF Joins
<1> DEFINE a == [i \in 0 .. m |-> f[i]]
           b == [i \in 0 .. n |-> f[m + i]]
<1>5. Goes(a, turn, p, s, D)
  <2>1. a \in [0 .. m -> D] /\ a[0] = p
    <3>1. \A i \in 0 .. m : f[i] \in D
      BY <1>3
    <3> QED BY <1>3, <3>1
  <2>2. ASSUME NEW i \in 1 .. m PROVE a[i] = turn[<<a[i - 1], s[i]>>]
    <3>1. i \in 1 .. m + n /\ i - 1 \in 0 .. m /\ i \in 0 .. m
      OBVIOUS
    <3>2. f[i] = turn[<<f[i - 1], s[i]>>]
      BY <1>3, <1>4, <3>1
    <3> QED BY <3>1, <3>2
  <2> HIDE DEF a
  <2> QED BY <1>1, <2>1, <2>2 DEF Goes
<1>6. f[m] \in D
  BY <1>3
<1>7. Goes(b, turn, f[m], t, D)
  <2>1. b \in [0 .. n -> D] /\ b[0] = f[m]
    BY <1>3
  <2>2. ASSUME NEW i \in 1 .. n PROVE b[i] = turn[<<b[i - 1], t[i]>>]
    <3>1. m + i \in 1 .. m + n /\ i - 1 \in 0 .. n /\ i \in 0 .. n /\ (m + i) - 1 = m + (i - 1)
      OBVIOUS
    <3>2. f[m + i] = turn[<<f[(m + i) - 1], u[m + i]>>]
      BY <1>3, <3>1, Zenon
    <3>3. u[m + i] = t[i]
      BY <1>4
    <3>4. b[i] = f[m + i] /\ b[i - 1] = f[m + (i - 1)]
      BY <3>1
    <3> QED BY <3>1, <3>2, <3>3, <3>4
  <2> HIDE DEF b
  <2> QED BY <1>1, <2>1, <2>2 DEF Goes
<1>8. a[m] = f[m] /\ b[n] = f[m + n]
  OBVIOUS
<1> HIDE DEF a, b
<1>9. Through(turn, p, s) = f[m]
  BY <1>1, <1>5, <1>8, GoingIsThrough
<1>10. Through(turn, f[m], t) = f[m + n]
  BY <1>1, <1>6, <1>7, <1>8, GoingIsThrough
<1> QED BY <1>2, <1>6, <1>9, <1>10

LEMMA ThroughNone ==
  ASSUME NEW D, NEW E, NEW turn, IsTurn(turn, D, E), NEW p \in D
  PROVE  Through(turn, p, <<>>) = p
<1>1. PICK e \in Seq(E) : e = <<>> /\ Len(e) = 0
  BY EmptySeq
<1>2. PICK f : Goes(f, turn, p, e, D) /\ Through(turn, p, e) = f[Len(e)]
  BY GoesThrough
<1> QED BY <1>1, <1>2 DEF Goes

LEMMA ThroughOne ==
  ASSUME NEW D, NEW E, NEW turn, IsTurn(turn, D, E), NEW p \in D, NEW s \in Seq(E)
  PROVE  Len(s) = 1 => Through(turn, p, s) = turn[<<p, s[1]>>]
<1>1. PICK f : Goes(f, turn, p, s, D) /\ Through(turn, p, s) = f[Len(s)]
  BY ONLY IsTurn(turn, D, E), p \in D, s \in Seq(E), GoesThrough
<1>2. f[0] = p /\ \A i \in 1 .. Len(s) : f[i] = turn[<<f[i - 1], s[i]>>]
  BY <1>1 DEF Goes
<1>3. ASSUME Len(s) = 1 PROVE f[1] = turn[<<f[0], s[1]>>]
  BY <1>2, <1>3
<1> QED BY <1>1, <1>2, <1>3

LEMMA ThroughType ==
  ASSUME NEW D, NEW E, NEW turn, IsTurn(turn, D, E), NEW p \in D, NEW s \in Seq(E)
  PROVE  Through(turn, p, s) \in D
<1>1. Len(s) \in Nat
  BY LenProperties
<1>2. PICK f : Goes(f, turn, p, s, D) /\ Through(turn, p, s) = f[Len(s)]
  BY ONLY IsTurn(turn, D, E), p \in D, s \in Seq(E), GoesThrough
<1> QED BY <1>1, <1>2 DEF Goes

LEMMA ThroughElement ==
  ASSUME NEW D, NEW E, NEW turn, IsTurn(turn, D, E), NEW p \in D, NEW x \in E
  PROVE  Through(turn, p, <<x>>) = turn[<<p, x>>]
<1> DEFINE e == <<x>>
<1>1. e \in Seq(E) /\ Len(e) = 1 /\ e[1] = x
  OBVIOUS
<1> HIDE DEF e
<1>2. Through(turn, p, e) = turn[<<p, x>>]
  BY <1>1, ThroughOne
<1> QED BY <1>2 DEF e

LEMMA ThroughConcat ==
  ASSUME NEW D, NEW E, NEW turn, IsTurn(turn, D, E), NEW p \in D, NEW s \in Seq(E), NEW t \in Seq(E)
  PROVE  Through(turn, p, s \o t) = Through(turn, Through(turn, p, s), t)
<1>1. s \o t \in Seq(E) /\ Joins(s \o t, s, t)
  BY ConcatJoins
<1> DEFINE u == s \o t
<1>2. u \in Seq(E) /\ Joins(u, s, t)
  BY <1>1
<1> HIDE DEF u
<1>3. Through(turn, p, u) = Through(turn, Through(turn, p, s), t)
  BY ONLY IsTurn(turn, D, E), p \in D, s \in Seq(E), t \in Seq(E), <1>2, ThroughJoined
<1> QED BY <1>3 DEF u

LEMMA ThroughAppend ==
  ASSUME NEW D, NEW E, NEW turn, IsTurn(turn, D, E), NEW p \in D, NEW s \in Seq(E), NEW x \in E
  PROVE  Through(turn, p, Append(s, x)) = turn[<<Through(turn, p, s), x>>]
<1>1. Append(s, x) \in Seq(E) /\ <<x>> \in Seq(E) /\ Joins(Append(s, x), s, <<x>>)
  BY ConcatJoins
<1> DEFINE u == Append(s, x)
           e == <<x>>
<1>2. u \in Seq(E) /\ e \in Seq(E) /\ Joins(u, s, e)
  BY <1>1
<1>3. Through(turn, p, s) \in D
  BY ThroughType
<1>4. Through(turn, Through(turn, p, s), e) = turn[<<Through(turn, p, s), x>>]
  BY <1>3, ThroughElement
<1> HIDE DEF u, e
<1>5. Through(turn, p, u) = Through(turn, Through(turn, p, s), e)
  BY ONLY IsTurn(turn, D, E), p \in D, s \in Seq(E), <1>2, ThroughJoined
<1> QED BY <1>4, <1>5 DEF u

LEMMA ThroughFirst ==
  ASSUME NEW D, NEW E, NEW turn, IsTurn(turn, D, E), NEW p \in D, NEW s \in Seq(E), s # <<>>
  PROVE  Through(turn, p, s) = Through(turn, turn[<<p, Head(s)>>], Tail(s))
<1>1. Head(s) \in E /\ Tail(s) \in Seq(E) /\ <<Head(s)>> \in Seq(E) /\ Joins(s, <<Head(s)>>, Tail(s))
  BY ConcatJoins
<1> DEFINE h == <<Head(s)>>
           r == Tail(s)
<1>2. h \in Seq(E) /\ r \in Seq(E) /\ Joins(s, h, r)
  BY <1>1
<1>3. Through(turn, p, h) = turn[<<p, Head(s)>>]
  BY <1>1, ThroughElement
<1> HIDE DEF h, r
<1>4. Through(turn, p, s) = Through(turn, Through(turn, p, h), r)
  BY ONLY IsTurn(turn, D, E), p \in D, s \in Seq(E), <1>2, ThroughJoined
<1> QED BY <1>3, <1>4 DEF r

(* Every turn stays inside a set.                                          *)
LEMMA ThroughInside ==
  ASSUME NEW D, NEW E, NEW turn, IsTurn(turn, D, E), NEW P \in SUBSET D, NEW p \in P, NEW s \in Seq(E),
         \A q \in P : \A i \in 1 .. Len(s) : turn[<<q, s[i]>>] \in P
  PROVE  Through(turn, p, s) \in P
<1>1. p \in D
  OBVIOUS
<1>2. PICK f : Goes(f, turn, p, s, D) /\ Through(turn, p, s) = f[Len(s)]
  BY ONLY IsTurn(turn, D, E), <1>1, s \in Seq(E), GoesThrough
<1>3. Len(s) \in Nat
  BY LenProperties
<1> DEFINE S == {i \in Nat : f[i] \in P}
<1>4. 0 \in S
  BY <1>2 DEF Goes
<1>5. ASSUME NEW i \in 1 .. Len(s), i - 1 \in S PROVE i \in S
  <2>1. f[i] = turn[<<f[i - 1], s[i]>>]
    BY <1>2 DEF Goes
  <2>2. f[i - 1] \in P
    BY <1>5
  <2>3. f[i] \in P
    BY <2>1, <2>2, Zenon
  <2> QED BY <2>3
<1> HIDE DEF S
<1>6. 0 .. Len(s) \subseteq S
  BY <1>3, <1>4, <1>5, Induction
<1>7. Len(s) \in S
  BY <1>3, <1>6
<1> QED BY <1>2, <1>7 DEF S

(* A function given by the same recurrence ends where the turns lead.      *)
LEMMA ByTurns ==
  ASSUME NEW D, NEW E, NEW turn, IsTurn(turn, D, E), NEW p \in D, NEW s \in Seq(E), NEW f, f[0] = p,
         \A i \in 1 .. Len(s) : f[i - 1] \in D => f[i] = turn[<<f[i - 1], s[i]>>]
  PROVE  f[Len(s)] = Through(turn, p, s)
<1>1. PICK g : Goes(g, turn, p, s, D) /\ Through(turn, p, s) = g[Len(s)]
  BY ONLY IsTurn(turn, D, E), p \in D, s \in Seq(E), GoesThrough
<1>2. Len(s) \in Nat
  BY LenProperties
<1> DEFINE S == {i \in Nat : f[i] = g[i]}
<1>3. 0 \in S
  BY <1>1 DEF Goes
<1>4. ASSUME NEW i \in 1 .. Len(s), i - 1 \in S PROVE i \in S
  <2>1. g[i] = turn[<<g[i - 1], s[i]>>] /\ g[i - 1] \in D
    BY <1>1, SMTT(30) DEF Goes
  <2>2. f[i - 1] = g[i - 1]
    BY <1>4
  <2>3. f[i] = g[i]
    BY <2>1, <2>2, Zenon
  <2> QED BY <2>3
<1> HIDE DEF S
<1>5. 0 .. Len(s) \subseteq S
  BY <1>2, <1>3, <1>4, Induction
<1>6. Len(s) \in S
  BY <1>2, <1>5
<1> QED BY <1>1, <1>6 DEF S

-----------------------------------------------------------------------------
(* The parsers                                                             *)

Ends == {GdbEnd, PdbEnd}
EndFor(d) == IF d = "GDB" THEN GdbEnd ELSE PdbEnd

LEMMA CopyKeeps ==
  ASSUME NEW d, NEW p \in ParserState(d), NEW b, NEW x \in Pieces
  PROVE  /\ Copy(p, b, x) \in ParserState(d)
         /\ Copy(p, b, x).line = p.line /\ Copy(p, b, x).status = p.status
<1>1. CASE b \in Buffers
  <2> DEFINE o == [p.out EXCEPT ![b] = Append(p.out[b], x)]
  <2>1. p.out \in [Buffers -> Seq(Pieces)]
    BY DEF ParserState
  <2>2. Append(p.out[b], x) \in Seq(Pieces)
    BY <1>1, <2>1, AppendProperties
  <2>3. o \in [Buffers -> Seq(Pieces)]
    BY <2>1, <2>2
  <2>4. Copy(p, b, x) = [p EXCEPT !.out = o]
    BY <1>1 DEF Copy, ParserState
  <2> HIDE DEF o
  <2>5. Copy(p, b, x) = [line |-> p.line, out |-> o, status |-> p.status]
    BY <2>4 DEF ParserState
  <2> QED BY <2>3, <2>5 DEF ParserState
<1>2. CASE b \notin Buffers
  BY <1>2 DEF Copy
<1> QED BY <1>1, <1>2

(* One piece leaves a parser state, and only an end marker ends the        *)
(* reading.                                                                *)
Keeps(d, p, x, q) ==
  q \in ParserState(d) /\ (q.status = "DONE" => p.status = "DONE" \/ x = EndFor(d))

LEMMA TurnsKeep ==
  ASSUME NEW d, NEW p \in ParserState(d), NEW b, NEW x \in Pieces, NEW l \in LineStates(d)
  PROVE  /\ Keeps(d, p, x, p) /\ Keeps(d, p, x, Copy(p, b, x))
         /\ Keeps(d, p, x, [p EXCEPT !.line = l])
         /\ Keeps(d, p, x, [Copy(p, b, x) EXCEPT !.line = l])
         /\ Keeps(d, p, x, [p EXCEPT !.status = "LOOPS"])
         /\ x = EndFor(d) => Keeps(d, p, x, [p EXCEPT !.status = "DONE"])
<1>1. ASSUME NEW q \in ParserState(d)
      PROVE  [q EXCEPT !.line = l] \in ParserState(d) /\ [q EXCEPT !.line = l].status = q.status
  BY DEF ParserState
<1>2. ASSUME NEW s \in {"DONE", "LOOPS"}
      PROVE  [p EXCEPT !.status = s] \in ParserState(d) /\ [p EXCEPT !.status = s].status = s
  BY DEF ParserState
<1>3. Copy(p, b, x) \in ParserState(d) /\ Copy(p, b, x).status = p.status
  BY CopyKeeps
<1> QED BY <1>1, <1>2, <1>3 DEF Keeps

LEMMA PieceKeeps ==
  ASSUME NEW d \in {"GDB", "PDB"}, NEW p \in ParserState(d), NEW x \in Pieces
  PROVE  Keeps(d, p, x, Piece(d, p, x))
<1>1. /\ Keeps(d, p, x, p)
      /\ \A b : Keeps(d, p, x, Copy(p, b, x))
      /\ \A l \in LineStates(d) : Keeps(d, p, x, [p EXCEPT !.line = l])
      /\ \A b : \A l \in LineStates(d) : Keeps(d, p, x, [Copy(p, b, x) EXCEPT !.line = l])
      /\ Keeps(d, p, x, [p EXCEPT !.status = "LOOPS"])
      /\ x = EndFor(d) => Keeps(d, p, x, [p EXCEPT !.status = "DONE"])
  <2>1. "start" \in LineStates(d)
    BY DEF LineStates
  <2> QED BY <2>1, TurnsKeep
<1>2. CASE d = "GDB"
  <2>1. /\ {"start", "none", "program"} \subseteq LineStates(d) /\ EndFor(d) = GdbEnd
        /\ x \in DOMAIN GdbPrefix => GdbPrefix[x] \in LineStates(d)
    BY <1>2 DEF LineStates, EndFor, GdbPrefix
  <2>2. Keeps(d, p, x, GdbPiece(p, x))
    <3>1. CASE p.status # "RECEIVING"
      BY <1>1, <3>1 DEF GdbPiece
    <3>2. CASE p.status = "RECEIVING" /\ x \in {Newline, GdbPrompt}
      BY <1>1, <2>1, <3>2 DEF GdbPiece
    <3>3. CASE p.status = "RECEIVING" /\ x \notin {Newline, GdbPrompt} /\ p.line = "start"
      <4>1. CASE x \in DOMAIN GdbPrefix
        <5>1. GdbPiece(p, x) = [p EXCEPT !.line = GdbPrefix[x]]
          <6>1. x \notin Texts \cup {Done}
            BY <4>1, TextsAssumption DEF GdbPrefix, Done
          <6> QED BY <3>3, <4>1, <6>1 DEF GdbPiece
        <5> QED BY <1>1, <2>1, <4>1, <5>1
      <4>2. CASE x \in Texts \cup {Done}
        <5>1. GdbPiece(p, x) = [Copy(p, "program", x) EXCEPT !.line = "program"]
          <6>1. x \notin DOMAIN GdbPrefix
            BY <4>2, TextsAssumption DEF GdbPrefix, Done
          <6> QED BY <3>3, <4>2, <6>1 DEF GdbPiece
        <5> QED BY <1>1, <2>1, <5>1
      <4>3. CASE x \notin DOMAIN GdbPrefix /\ x \notin Texts \cup {Done}
        <5>1. GdbPiece(p, x) = [p EXCEPT !.line = "none"]
          BY <3>3, <4>3 DEF GdbPiece
        <5> QED BY <1>1, <2>1, <5>1
      <4> QED BY <4>1, <4>2, <4>3
    <3>4. CASE p.status = "RECEIVING" /\ x \notin {Newline, GdbPrompt} /\ p.line # "start"
      <4>1. CASE p.line = "cli" /\ x = GdbEnd
        <5>1. GdbPiece(p, x) = [p EXCEPT !.status = "DONE"]
          BY <3>4, <4>1 DEF GdbPiece, GdbEnd, Escape
        <5> QED BY <1>1, <2>1, <4>1, <5>1
      <4>2. CASE p.line = "cli" /\ x = Escape
        <5>1. GdbPiece(p, x) = [p EXCEPT !.status = "LOOPS"]
          BY <3>4, <4>2 DEF GdbPiece, GdbEnd, Escape
        <5> QED BY <1>1, <5>1
      <4>3. CASE ~(p.line = "cli" /\ x = GdbEnd) /\ ~(p.line = "cli" /\ x = Escape)
        <5>1. GdbPiece(p, x) = Copy(p, p.line, x)
          BY <3>4, <4>3 DEF GdbPiece
        <5> QED BY <1>1, <5>1
      <4> QED BY <4>1, <4>2, <4>3
    <3> QED BY <3>1, <3>2, <3>3, <3>4
  <2> QED BY <1>2, <2>2 DEF Piece
<1>3. CASE d = "PDB"
  <2>1. /\ {"start", "cli", "arrow", "program", "prompt", "behind", "overwrite"} \subseteq LineStates(d)
        /\ EndFor(d) = PdbEnd /\ p.line \in LineStates(d)
        /\ LineStates(d) = {"start", "cli", "arrow", "program", "prompt", "behind", "overwrite"}
    BY <1>3 DEF LineStates, EndFor, ParserState
  <2>2. Keeps(d, p, x, PdbLine(p, x))
    <3>1. CASE x = Arrow
      BY <1>1, <2>1, <3>1 DEF PdbLine, Arrow, Where, PdbPrompt, PdbEnd, Quote, Newline
    <3>2. CASE x = Where
      BY <1>1, <2>1, <3>2 DEF PdbLine, Arrow, Where, PdbPrompt, PdbEnd, Quote, Newline
    <3>3. CASE x = PdbPrompt
      BY <1>1, <2>1, <3>3 DEF PdbLine, Arrow, Where, PdbPrompt, PdbEnd, Quote, Newline
    <3>4. CASE x = PdbEnd
      BY <1>1, <2>1, <3>4 DEF PdbLine, Arrow, Where, PdbPrompt, PdbEnd, Quote, Newline
    <3>5. CASE x = Quote
      BY <1>1, <2>1, <3>5 DEF PdbLine, Arrow, Where, PdbPrompt, PdbEnd, Quote, Newline
    <3>6. CASE x = Newline
      BY <1>1, <2>1, <3>6 DEF PdbLine, Arrow, Where, PdbPrompt, PdbEnd, Quote, Newline
    <3>7. CASE x \notin {Arrow, Where, PdbPrompt, PdbEnd, Quote, Newline}
      BY <1>1, <2>1, <3>7 DEF PdbLine
    <3> QED BY <3>1, <3>2, <3>3, <3>4, <3>5, <3>6, <3>7
  <2>3. Keeps(d, p, x, PdbPiece(p, x))
    <3>1. CASE p.status # "RECEIVING"
      BY <1>1, <3>1 DEF PdbPiece
    <3>2. CASE p.status = "RECEIVING" /\ p.line = "start"
      BY <2>2, <3>2 DEF PdbPiece
    <3>3. CASE p.status = "RECEIVING" /\ p.line \in {"cli", "arrow", "program"}
      <4> DEFINE b == IF p.line = "program" THEN "program" ELSE "cli"
                 l == IF x = Newline THEN "start" ELSE p.line
      <4>1. PdbPiece(p, x) = [Copy(p, b, x) EXCEPT !.line = l]
        <5>1. Copy(p, b, x).line = p.line
          BY CopyKeeps
        <5> QED BY <3>3, <5>1 DEF PdbPiece
      <4>2. l \in LineStates(d)
        BY <2>1
      <4> HIDE DEF b, l
      <4> QED BY <1>1, <4>1, <4>2
    <3>4. CASE p.status = "RECEIVING" /\ p.line \in {"prompt", "behind"}
      <4>1. CASE p.line = "prompt" /\ x = PdbEnd
        <5>1. PdbPiece(p, x) = [p EXCEPT !.status = "DONE"]
          BY <3>4, <4>1 DEF PdbPiece, PdbEnd, PdbPrompt
        <5> QED BY <1>1, <2>1, <4>1, <5>1
      <4>2. CASE x = PdbPrompt
        <5>1. PdbPiece(p, x) = [p EXCEPT !.line = "overwrite"]
          BY <3>4, <4>2 DEF PdbPiece, PdbEnd, PdbPrompt
        <5> QED BY <1>1, <2>1, <5>1
      <4>3. CASE ~(p.line = "prompt" /\ x = PdbEnd) /\ x # PdbPrompt
        <5>1. PdbPiece(p, x) = [Copy(p, "cli", x) EXCEPT !.line = IF x = Newline THEN "start" ELSE "behind"]
          BY <3>4, <4>3 DEF PdbPiece
        <5>2. (IF x = Newline THEN "start" ELSE "behind") \in LineStates(d)
          BY <2>1
        <5> QED BY <1>1, <5>1, <5>2
      <4> QED BY <4>1, <4>2, <4>3
    <3>5. CASE p.status = "RECEIVING" /\ p.line = "overwrite"
      <4>1. CASE x \in {Newline, Null}
        <5>1. PdbPiece(p, x) = [p EXCEPT !.line = "start"]
          BY <3>5, <4>1 DEF PdbPiece
        <5> QED BY <1>1, <2>1, <5>1
      <4>2. CASE x \notin {Newline, Null}
        <5>1. PdbPiece(p, x) = [Copy(p, "program", x) EXCEPT !.line = "program"]
          BY <3>5, <4>2 DEF PdbPiece
        <5>2. "program" \in LineStates(d)
          BY <2>1
        <5> QED BY <1>1, <5>1, <5>2
      <4> QED BY <4>1, <4>2
    <3> QED BY <2>1, <3>1, <3>2, <3>3, <3>4, <3>5
  <2> QED BY <1>3, <2>3 DEF Piece
<1> QED BY <1>2, <1>3


PieceTurn(d) == [q \in ParserState(d) \X Pieces |-> Piece(d, q[1], q[2])]
After(d, p, s) == Through(PieceTurn(d), p, s)

LEMMA PieceTurns ==
  ASSUME NEW d \in {"GDB", "PDB"}
  PROVE  /\ IsTurn(PieceTurn(d), ParserState(d), Pieces)
         /\ \A p \in ParserState(d), x \in Pieces : PieceTurn(d)[<<p, x>>] = Piece(d, p, x)
<1> DEFINE PS == ParserState(d)
<1>1. \A p \in PS, x \in Pieces : Piece(d, p, x) \in PS
  BY PieceKeeps DEF Keeps
<1> HIDE DEF PS
<1>2. PieceTurn(d) = [q \in PS \X Pieces |-> Piece(d, q[1], q[2])]
  BY DEF PieceTurn, PS
<1>3. \A q \in PS \X Pieces : Piece(d, q[1], q[2]) \in PS
  BY <1>1
<1>4. PieceTurn(d) \in [PS \X Pieces -> PS]
  BY <1>2, <1>3
<1>5. \A p \in PS, x \in Pieces : PieceTurn(d)[<<p, x>>] = Piece(d, p, x)
  BY <1>2
<1> QED BY <1>4, <1>5 DEF IsTurn, PS

LEMMA AtStartIs ==
  ASSUME NEW d, NEW out \in [Buffers -> Seq(Pieces)]
  PROVE  /\ AtStart(out) \in ParserState(d)
         /\ AtStart(out).line = "start" /\ AtStart(out).out = out /\ AtStart(out).status = "RECEIVING"
BY DEF AtStart, ParserState, LineStates

(* Parsing a chunk is going through it piece by piece.                     *)
LEMMA ParsedIsAfter ==
  ASSUME NEW d \in {"GDB", "PDB"}, NEW chunk \in Seq(Pieces), NEW out \in [Buffers -> Seq(Pieces)]
  PROVE  Parsed(d, chunk, out) = After(d, AtStart(out), chunk)
<1> DEFINE PS == ParserState(d)
           D == [PS -> PS]
           Row(f, i) == [p \in PS |-> IF i > Len(chunk) THEN p ELSE f[i + 1][Piece(d, p, chunk[i])]]
           Whole(f) == [i \in 1 .. Len(chunk) + 1 |-> Row(f, i)]
<1>1. PICK n \in Nat : n = Len(chunk)
  BY LenProperties
<1>2. \A i \in 1 .. n : chunk[i] \in Pieces
  BY <1>1, ElementOfSeq
<1>3. \A i \in 1 .. n : \A p \in PS : Keeps(d, p, chunk[i], Piece(d, p, chunk[i]))
  BY <1>2, PieceKeeps
<1>4. \E f : f = Whole(f)
  <2> DEFINE start == [p \in PS |-> p]
             turn(k, h) == [p \in PS |-> h[Piece(d, p, chunk[n + 1 - k])]]
             step_ == [q \in (1 .. n) \X D |-> turn(q[1], q[2])]
  <2>1. start \in D
    OBVIOUS
  <2>2. ASSUME NEW k \in 1 .. n, NEW h \in D PROVE turn(k, h) \in D
    <3>1. n + 1 - k \in 1 .. n
      OBVIOUS
    <3>2. \A p \in PS : Piece(d, p, chunk[n + 1 - k]) \in PS
      BY <1>3, <3>1 DEF Keeps
    <3> HIDE DEF PS
    <3> QED BY <3>2
  <2> HIDE DEF turn, start
  <2>3. IsStep(step_, n, D)
    <3> HIDE DEF D
    <3>1. \A q \in (1 .. n) \X D : turn(q[1], q[2]) \in D
      BY <2>2
    <3> QED BY <3>1 DEF IsStep
  <2>4. \A k \in 1 .. n, h \in D : step_[<<k, h>>] = turn(k, h)
    OBVIOUS
  <2> HIDE DEF step_, D
  <2>5. PICK g : Iterates(g, start, step_, n, D)
    BY <2>1, <2>3, Iteration
  <2>6. /\ g \in [0 .. n -> D] /\ g[0] = start
        /\ \A k \in 1 .. n : g[k] = turn(k, g[k - 1])
    <3>1. /\ g \in [0 .. n -> D] /\ g[0] = start
          /\ \A k \in 1 .. n : g[k] = step_[<<k, g[k - 1]>>]
      BY <2>5 DEF Iterates
    <3>2. \A k \in 1 .. n : g[k - 1] \in D
      BY <3>1
    <3> QED BY <2>4, <3>1, <3>2
  <2> DEFINE f == [i \in 1 .. n + 1 |-> g[n + 1 - i]]
  <2>7. ASSUME NEW i \in 1 .. n + 1 PROVE f[i] = Row(f, i)
    <3>1. CASE i = n + 1
      <4>1. f[i] = start
        BY <2>6, <3>1
      <4>2. Row(f, i) = [p \in PS |-> p]
        BY <1>1, <3>1
      <4> QED BY <4>1, <4>2 DEF start
    <3>2. CASE i # n + 1
      <4>1. n + 1 - i \in 1 .. n /\ n + 1 - (n + 1 - i) = i /\ (n + 1 - i) - 1 = n + 1 - (i + 1) /\ i + 1 \in 1 .. n + 1
        BY <3>2
      <4>2. f[i + 1] = g[(n + 1 - i) - 1]
        BY <4>1
      <4>3. f[i] = turn(n + 1 - i, f[i + 1])
        BY <2>6, <4>1, <4>2
      <4> HIDE DEF f
      <4>4. turn(n + 1 - i, f[i + 1]) = [p \in PS |-> f[i + 1][Piece(d, p, chunk[i])]]
        BY <4>1 DEF turn
      <4>5. Row(f, i) = [p \in PS |-> f[i + 1][Piece(d, p, chunk[i])]]
        <5>1. ~(i > Len(chunk))
          BY <1>1, <3>2
        <5> QED BY <5>1
      <4> QED BY <4>3, <4>4, <4>5
    <3> QED BY <3>1, <3>2
  <2>8. f = Whole(f)
    <3> HIDE DEF Row
    <3> QED BY <1>1, <2>7
  <2> QED BY <2>8
<1>5. PICK from : from = Whole(from) /\ Parsed(d, chunk, out) = from[1][AtStart(out)]
  BY <1>4 DEF Parsed
<1>6. \A i \in 1 .. n + 1 : from[i] = Row(from, i)
  <2> DEFINE h == Whole(from)
  <2> HIDE DEF Row
  <2>1. \A i \in 1 .. n + 1 : h[i] = Row(from, i)
    BY <1>1
  <2>2. from = h
    BY <1>5
  <2> HIDE DEF h
  <2> QED BY <2>1, <2>2
<1>7. AtStart(out) \in PS
  BY AtStartIs
<1> HIDE DEF PS
<1>8. PICK g : Goes(g, PieceTurn(d), AtStart(out), chunk, PS) /\ After(d, AtStart(out), chunk) = g[n]
  <2>1. IsTurn(PieceTurn(d), PS, Pieces)
    BY PieceTurns DEF PS
  <2>2. PICK g : /\ Goes(g, PieceTurn(d), AtStart(out), chunk, PS)
                 /\ Through(PieceTurn(d), AtStart(out), chunk) = g[Len(chunk)]
    BY ONLY <1>7, <2>1, chunk \in Seq(Pieces), GoesThrough
  <2> QED BY <1>1, <2>2 DEF After
<1>9. /\ g \in [0 .. n -> PS] /\ g[0] = AtStart(out)
      /\ \A i \in 1 .. n : g[i] = Piece(d, g[i - 1], chunk[i])
  <2>1. /\ g \in [0 .. n -> PS] /\ g[0] = AtStart(out)
        /\ \A i \in 1 .. n : g[i] = PieceTurn(d)[<<g[i - 1], chunk[i]>>]
    BY <1>1, <1>8 DEF Goes
  <2>2. \A i \in 1 .. n : g[i - 1] \in PS
    BY <2>1
  <2> QED BY <1>2, <2>1, <2>2, PieceTurns DEF PS
<1> DEFINE T == {k \in Nat : from[k + 1][g[k]] = from[1][AtStart(out)]}
<1>10. 0 \in T
  BY <1>9
<1>11. ASSUME NEW k \in 1 .. n, k - 1 \in T PROVE k \in T
  <2>1. from[k] = [p \in PS |-> from[k + 1][Piece(d, p, chunk[k])]]
    <3>1. from[k] = Row(from, k) /\ ~(k > Len(chunk))
      BY <1>1, <1>6
    <3> QED BY <3>1
  <2>2. g[k - 1] \in PS /\ g[k] = Piece(d, g[k - 1], chunk[k])
    BY <1>9
  <2>3. from[k][g[k - 1]] = from[k + 1][g[k]]
    BY <2>1, <2>2
  <2>4. from[(k - 1) + 1][g[k - 1]] = from[1][AtStart(out)] /\ (k - 1) + 1 = k
    BY <1>11
  <2> QED BY <2>3, <2>4
<1>12. n \in T
  <2> HIDE DEF T
  <2>1. 0 .. n \subseteq T
    BY <1>10, <1>11, Induction
  <2> QED BY <2>1
<1>13. from[n + 1] = [p \in PS |-> p]
  <2>1. from[n + 1] = Row(from, n + 1) /\ n + 1 > Len(chunk)
    BY <1>1, <1>6
  <2> QED BY <2>1
<1>14. from[n + 1][g[n]] = g[n]
  BY <1>9, <1>13
<1> QED BY <1>5, <1>8, <1>12, <1>14

(* It leaves a parser state, and ends the reading only if there is an end  *)
(* marker in the chunk.                                                    *)
LEMMA ParsedIs ==
  ASSUME NEW d \in {"GDB", "PDB"}, NEW chunk \in Seq(Pieces), NEW out \in [Buffers -> Seq(Pieces)]
  PROVE  /\ Parsed(d, chunk, out) \in ParserState(d)
         /\ Parsed(d, chunk, out).status = "DONE" => \E i \in 1 .. Len(chunk) : chunk[i] = EndFor(d)
<1> DEFINE q == Parsed(d, chunk, out)
           Open == {p \in ParserState(d) : p.status # "DONE"}
<1>1. q = Through(PieceTurn(d), AtStart(out), chunk)
  BY ParsedIsAfter DEF After
<1>2. AtStart(out) \in Open
  BY AtStartIs
<1>3. q \in ParserState(d)
  BY <1>1, <1>2, PieceTurns, ThroughType
<1>4. ASSUME \A i \in 1 .. Len(chunk) : chunk[i] # EndFor(d) PROVE q \in Open
  <2>1. ASSUME NEW p \in Open, NEW i \in 1 .. Len(chunk) PROVE PieceTurn(d)[<<p, chunk[i]>>] \in Open
    <3>1. chunk[i] \in Pieces
      BY ElementOfSeq
    <3>2. Keeps(d, p, chunk[i], Piece(d, p, chunk[i]))
      BY <3>1, PieceKeeps
    <3>3. Piece(d, p, chunk[i]) \in Open
      BY <1>4, <3>2 DEF Keeps
    <3> QED BY <3>1, <3>3, PieceTurns
  <2>2. Open \in SUBSET ParserState(d) /\ IsTurn(PieceTurn(d), ParserState(d), Pieces)
    BY PieceTurns
  <2> HIDE DEF Open, q
  <2>3. Through(PieceTurn(d), AtStart(out), chunk) \in Open
    BY ONLY <1>2, <2>1, <2>2, chunk \in Seq(Pieces), ThroughInside
  <2> QED BY <1>1, <2>3
<1> QED BY <1>3, <1>4

LEMMA ChunkIs ==
  ASSUME NEW d \in {"GDB", "PDB"}, NEW chunk \in Seq(Pieces), NEW out \in [Buffers -> Seq(Pieces)],
         NEW p \in ParsePieces(d, chunk, out)
  PROVE  /\ p \in ParserState(d)
         /\ p.status = "DONE" /\ ~(d = "PDB" /\ RunsOver(chunk, out)) =>
              \E i \in 1 .. Len(chunk) : chunk[i] = EndFor(d)
<1>1. CASE d = "GDB" \/ ~RunsOver(chunk, out)
  <2>1. p = Parsed(d, chunk, out)
    BY <1>1 DEF ParsePieces, ParseGdb, ParsePdb
  <2> QED BY <2>1, ParsedIs
<1>2. CASE d = "PDB" /\ RunsOver(chunk, out)
  <2>1. PICK tail \in LeftBehind : p = Parsed(d, chunk \o tail, out)
    BY <1>2 DEF ParsePieces, ParsePdb
  <2>2. tail \in Seq(Pieces)
    <3>1. {Null, Newline, PdbEnd} \subseteq Pieces
      BY DEF Pieces
    <3>2. <<Null, Newline>> \in Seq(Pieces) /\ <<Null, Newline, PdbEnd>> \in Seq(Pieces)
      BY <3>1
    <3> QED BY <3>2 DEF LeftBehind
  <2>3. chunk \o tail \in Seq(Pieces)
    BY <2>2, ConcatProperties
  <2> QED BY <1>2, <2>1, <2>3, ParsedIs
<1> QED BY <1>1, <1>2

-----------------------------------------------------------------------------
(* The answers                                                             *)

(* Flattening is going through the parts and putting each behind the last. *)
ConcatTurn(S) == [q \in Seq(S) \X Seq(S) |-> q[1] \o q[2]]

LEMMA ConcatTurns ==
  ASSUME NEW S
  PROVE  /\ IsTurn(ConcatTurn(S), Seq(S), Seq(S))
         /\ \A s, t \in Seq(S) : ConcatTurn(S)[<<s, t>>] = s \o t
<1> DEFINE D == Seq(S)
<1>1. \A s, t \in D : s \o t \in D
  BY ConcatProperties
<1>2. ConcatTurn(S) = [q \in D \X D |-> q[1] \o q[2]]
  BY DEF ConcatTurn
<1> HIDE DEF D
<1>3. \A q \in D \X D : q[1] \o q[2] \in D
  BY <1>1
<1>4. ConcatTurn(S) \in [D \X D -> D]
  BY <1>2, <1>3
<1>5. \A s, t \in D : ConcatTurn(S)[<<s, t>>] = s \o t
  BY <1>2
<1> QED BY <1>4, <1>5 DEF IsTurn, D

LEMMA FlattenIsThrough ==
  ASSUME NEW S, NEW ss \in Seq(Seq(S))
  PROVE  FlattenSeq(ss) = Through(ConcatTurn(S), <<>>, ss)
<1>1. PICK n \in Nat : n = Len(ss)
  BY LenProperties
<1>2. PICK e \in Seq(S) : e = <<>>
  BY EmptySeq
<1>3. CASE n = 0
  <2>1. ss = <<>>
    BY <1>1, <1>3, EmptySeq
  <2>2. Through(ConcatTurn(S), e, <<>>) = e
    BY ConcatTurns, ThroughNone
  <2> QED BY <1>1, <1>2, <1>3, <2>1, <2>2 DEF FlattenSeq
<1>4. CASE n # 0
  <2> DEFINE D == Seq(S)
             Row(f, i) == IF i = 1 THEN ss[i] ELSE f[i - 1] \o ss[i]
             Whole(f) == [i \in 1 .. Len(ss) |-> Row(f, i)]
  <2>1. \A i \in 1 .. n : ss[i] \in D
    BY <1>1, ElementOfSeq
  <2>2. e \in D /\ IsTurn(ConcatTurn(S), D, D) /\ \A s, t \in D : ConcatTurn(S)[<<s, t>>] = s \o t
    BY ConcatTurns
  <2>3. \A s \in D : e \o s = s
    BY <1>2, ConcatEmptySeq
  <2>4. ss \in Seq(D)
    OBVIOUS
  <2> HIDE DEF D
  <2>5. \E f : f = Whole(f)
    <3>1. PICK g : Goes(g, ConcatTurn(S), e, ss, D)
      BY ONLY <2>2, <2>4, GoesThrough
    <3>2. g[0] = e /\ \A i \in 1 .. n : g[i - 1] \in D /\ g[i] = ConcatTurn(S)[<<g[i - 1], ss[i]>>]
      <4>1. /\ g \in [0 .. n -> D] /\ g[0] = e
            /\ \A i \in 1 .. n : g[i] = ConcatTurn(S)[<<g[i - 1], ss[i]>>]
        BY <1>1, <3>1 DEF Goes
      <4>2. \A i \in 1 .. n : g[i - 1] \in D
        BY <4>1
      <4> QED BY <4>1, <4>2
    <3> DEFINE f == [i \in 1 .. n |-> g[i]]
    <3>3. ASSUME NEW i \in 1 .. n PROVE f[i] = Row(f, i)
      <4>1. g[i] = g[i - 1] \o ss[i]
        BY <2>1, <2>2, <3>2
      <4>2. CASE i = 1
        <5>1. g[i - 1] = e /\ ss[i] \in D
          BY <2>1, <3>2, <4>2
        <5>2. g[i] = ss[i]
          BY <2>3, <4>1, <5>1
        <5> QED BY <4>2, <5>2
      <4>3. CASE i # 1
        <5>1. i - 1 \in 1 .. n
          BY <4>3
        <5> QED BY <4>1, <4>3, <5>1
      <4> QED BY <4>2, <4>3
    <3> HIDE DEF Row
    <3>4. f = Whole(f)
      BY <1>1, <3>3
    <3> QED BY <3>4
  <2>6. PICK flatten : flatten = Whole(flatten) /\ FlattenSeq(ss) = flatten[n]
    <3>1. ~(Len(ss) = 0)
      BY <1>1, <1>4
    <3> QED BY <1>1, <2>5, <3>1 DEF FlattenSeq
  <2>7. \A i \in 1 .. n : flatten[i] = Row(flatten, i)
    <3> DEFINE h == Whole(flatten)
    <3> HIDE DEF Row
    <3>1. \A i \in 1 .. n : h[i] = Row(flatten, i)
      BY <1>1
    <3>2. flatten = h
      BY <2>6
    <3> HIDE DEF h
    <3> QED BY <3>1, <3>2
  <2> DEFINE f == [i \in 0 .. n |-> IF i = 0 THEN e ELSE flatten[i]]
  <2>8. f[0] = e /\ f[n] = flatten[n]
    BY <1>4
  <2>9. ASSUME NEW i \in 1 .. Len(ss), f[i - 1] \in D PROVE f[i] = ConcatTurn(S)[<<f[i - 1], ss[i]>>]
    <3>1. i \in 1 .. n /\ i - 1 \in 0 .. n /\ i \in 0 .. n /\ ss[i] \in D
      BY <1>1, <2>1
    <3>2. flatten[i] = f[i - 1] \o ss[i]
      <4>1. CASE i = 1
        BY <2>3, <2>7, <3>1, <4>1, SMTT(30)
      <4>2. CASE i # 1
        <5>1. flatten[i] = flatten[i - 1] \o ss[i]
          BY <2>7, <3>1, <4>2
        <5>2. f[i - 1] = flatten[i - 1]
          <6>1. i - 1 # 0
            BY <4>2
          <6> QED BY <3>1, <6>1
        <5> HIDE DEF f
        <5> QED BY <5>1, <5>2, Zenon
      <4> QED BY <4>1, <4>2
    <3>3. f[i] = flatten[i]
      BY <3>1
    <3> HIDE DEF f
    <3> QED BY <2>2, <2>9, <3>1, <3>2, <3>3
  <2> HIDE DEF f, Row, Whole
  <2>10. f[Len(ss)] = Through(ConcatTurn(S), e, ss)
    BY ONLY <2>2, <2>4, <2>8, <2>9, ByTurns
  <2> QED BY <1>1, <1>2, <2>6, <2>8, <2>10
<1> QED BY <1>3, <1>4

(* What is flattened has the elements of its parts.                        *)
LEMMA FlattenIs ==
  ASSUME NEW S, NEW ss \in Seq(Seq(S))
  PROVE  FlattenSeq(ss) \in Seq(S)
<1>1. PICK e \in Seq(S) : e = <<>>
  BY EmptySeq
<1>2. FlattenSeq(ss) = Through(ConcatTurn(S), e, ss)
  BY <1>1, FlattenIsThrough
<1> QED BY <1>2, ConcatTurns, ThroughType

(* The answer to a command has no end marker, that to the marker has one   *)
(* and no text.                                                            *)
LEMMA AnswersAre ==
  ASSUME debugger \in Debuggers
  PROVE  /\ \A c \in Commands : AnswerPieces(c) \in Seq(Pieces \ Ends)
         /\ AnswerPieces(Marker) \in Seq(Pieces) /\ Count(AnswerPieces(Marker), EndOf) = 1
         /\ \A i \in 1 .. Len(AnswerPieces(Marker)) : AnswerPieces(Marker)[i] \notin Texts
         /\ PromptOf \in Pieces \ Ends /\ PromptOf \notin Texts /\ EndOf \notin Texts
         /\ debugger \in {"GDB", "PDB"} /\ EndOf = EndFor(debugger)
<1>1. debugger \in {"GDB", "PDB"} /\ EndOf = EndFor(debugger) /\ EndOf \in Ends
  BY ChannelAssumption DEF EndOf, EndFor, Ends
<1>2. PromptOf \in {GdbPrompt, PdbPrompt}
  BY DEF PromptOf
<1>3. {GdbPrompt, PdbPrompt, Newline, Done, Escape, "~", "^", "*", Arrow, Where, Quote} \subseteq Pieces \ Ends
  BY DEF Pieces, Ends, GdbPrefix, GdbPrompt, PdbPrompt, Newline, Done, Escape, Arrow, Where, Quote, GdbEnd, PdbEnd
<1>4. Texts \subseteq Pieces \ Ends
  BY TextsAssumption DEF Pieces, Ends
<1>5. /\ Texts \cap {GdbPrompt, PdbPrompt, Newline, Done, "~", "^", GdbEnd, PdbEnd} = {}
  BY TextsAssumption DEF GdbPrefix
<1>6. <<PromptOf>> \in Seq(Pieces \ Ends) /\ Len(<<PromptOf>>) = 1 /\ <<PromptOf>>[1] = PromptOf
  BY <1>2, <1>3
<1>7. ASSUME NEW c \in Commands PROVE AnswerPieces(c) \in Seq(Pieces \ Ends)
  <2> DEFINE lines == Answers[debugger][c]
             parts == [i \in DOMAIN lines |-> LinePieces(lines[i])]
  <2>1. lines \in Seq(Line)
    BY ChannelAssumption
  <2>2. ASSUME NEW l \in Line PROVE LinePieces(l) \in Seq(Pieces \ Ends)
    <3>1. l.text \in Pieces \ Ends
      BY <1>3, <1>4 DEF Line
    <3>2. l.begins # "program" => l.begins \in Pieces \ Ends
      BY <1>3 DEF Line, LineBuffer, GdbPrefix
    <3>3. <<l.text, Newline>> \in Seq(Pieces \ Ends)
      BY <1>3, <3>1
    <3>4. (IF l.begins = "program" THEN <<>> ELSE <<l.begins>>) \in Seq(Pieces \ Ends)
      <4>1. CASE l.begins = "program"
        BY <4>1, EmptySeq
      <4>2. CASE l.begins # "program"
        BY <3>2, <4>2
      <4> QED BY <4>1, <4>2
    <3> QED BY <3>3, <3>4, ConcatProperties DEF LinePieces
  <2>3. parts \in Seq(Seq(Pieces \ Ends))
    <3>1. DOMAIN lines = 1 .. Len(lines) /\ Len(lines) \in Nat /\ \A i \in 1 .. Len(lines) : lines[i] \in Line
      BY <2>1, LenProperties, ElementOfSeq
    <3>2. \A i \in 1 .. Len(lines) : LinePieces(lines[i]) \in Seq(Pieces \ Ends)
      BY <2>2, <3>1
    <3> HIDE DEF lines
    <3>3. [i \in 1 .. Len(lines) |-> LinePieces(lines[i])] \in Seq(Seq(Pieces \ Ends))
      BY <3>1, <3>2, IsASeq
    <3> QED BY <3>1, <3>3
  <2>4. FlattenSeq(parts) \in Seq(Pieces \ Ends)
    <3> HIDE DEF parts
    <3> QED BY <2>3, FlattenIs
  <2>5. AnswerPieces(c) = FlattenSeq(parts) \o <<PromptOf>>
    <3>1. c # Marker
      BY ChannelAssumption
    <3> QED BY <3>1 DEF AnswerPieces
  <2> HIDE DEF parts
  <2> QED BY <1>6, <2>4, <2>5, ConcatProperties
<1> DEFINE record == IF debugger = "GDB" THEN <<"~", GdbEnd, Newline, "^", Done, Newline>>
                     ELSE <<PdbEnd, Newline>>
<1>8. record \in Seq(Pieces) /\ Count(record, EndOf) = 1 /\ \A i \in 1 .. Len(record) : record[i] \notin Texts
  <2>1. CASE debugger = "GDB"
    <3> DEFINE r == <<"~", GdbEnd, Newline, "^", Done, Newline>>
    <3>1. r \in Seq(Pieces)
      BY <1>3 DEF Pieces
    <3>2. /\ Len(r) = 6 /\ r[1] = "~" /\ r[2] = GdbEnd /\ r[3] = Newline /\ r[4] = "^"
          /\ r[5] = Done /\ r[6] = Newline
      OBVIOUS
    <3> HIDE DEF r
    <3>3. GdbEnd \notin {"~", Newline, "^", Done}
      BY DEF GdbEnd, Newline, Done
    <3>4. Places(r, GdbEnd) = {2}
      <4>1. 1 .. Len(r) = {1, 2, 3, 4, 5, 6}
        BY <3>2
      <4> QED BY <3>2, <3>3, <4>1 DEF Places
    <3>5. \A i \in 1 .. Len(r) : r[i] \notin Texts
      <4>1. 1 .. Len(r) = {1, 2, 3, 4, 5, 6}
        BY <3>2
      <4> QED BY <1>5, <3>2, <4>1
    <3> QED BY <2>1, <3>1, <3>4, <3>5, CountOne DEF r, EndOf
  <2>2. CASE debugger # "GDB"
    <3> DEFINE r == <<PdbEnd, Newline>>
    <3>1. r \in Seq(Pieces)
      BY <1>3 DEF Pieces
    <3>2. Len(r) = 2 /\ r[1] = PdbEnd /\ r[2] = Newline
      OBVIOUS
    <3> HIDE DEF r
    <3>3. PdbEnd # Newline /\ 1 .. Len(r) = {1, 2}
      BY <3>2 DEF PdbEnd, Newline
    <3>4. Places(r, PdbEnd) = {1}
      BY <3>2, <3>3 DEF Places
    <3>5. \A i \in 1 .. Len(r) : r[i] \notin Texts
      BY <1>5, <3>2, <3>3
    <3> QED BY <2>2, <3>1, <3>4, <3>5, CountOne DEF r, EndOf
  <2> QED BY <2>1, <2>2
<1>9. AnswerPieces(Marker) = record \o <<PromptOf>>
  BY DEF AnswerPieces
<1> HIDE DEF record
<1>10. PromptOf \in Pieces \ Ends /\ PromptOf \notin Texts /\ EndOf \notin Texts
  BY <1>1, <1>2, <1>3, <1>5 DEF Ends
<1>11. <<PromptOf>> \in Seq(Pieces)
  BY <1>10
<1>12. AnswerPieces(Marker) \in Seq(Pieces)
  BY <1>8, <1>9, <1>11, ConcatProperties
<1>13. Count(AnswerPieces(Marker), EndOf) = 1
  <2>1. Count(<<PromptOf>>, EndOf) = 0
    BY <1>1, <1>6, <1>10, CountIs
  <2>2. Count(record \o <<PromptOf>>, EndOf) = Count(record, EndOf) + Count(<<PromptOf>>, EndOf)
    BY <1>8, <1>11, CountConcat
  <2> QED BY <1>8, <1>9, <2>1, <2>2
<1>14. \A i \in 1 .. Len(AnswerPieces(Marker)) : AnswerPieces(Marker)[i] \notin Texts
  <2>1. /\ Len(record) \in Nat /\ Len(record \o <<PromptOf>>) = Len(record) + 1
        /\ \A i \in 1 .. Len(record) + 1 : (record \o <<PromptOf>>)[i] =
             IF i <= Len(record) THEN record[i] ELSE <<PromptOf>>[i - Len(record)]
    BY <1>6, <1>8, <1>11, ConcatProperties, LenProperties
  <2>2. ASSUME NEW i \in 1 .. Len(record) + 1 PROVE (record \o <<PromptOf>>)[i] \notin Texts
    <3>1. CASE i <= Len(record)
      BY <1>8, <2>1, <3>1
    <3>2. CASE ~(i <= Len(record))
      <4>1. i - Len(record) = 1
        BY <2>1, <3>2
      <4> QED BY <1>6, <1>10, <2>1, <3>2, <4>1
    <3> QED BY <3>1, <3>2
  <2> QED BY <1>9, <2>1, <2>2
<1> QED BY <1>1, <1>7, <1>10, <1>12, <1>13, <1>14


-----------------------------------------------------------------------------
(* The type invariant                                                      *)

LEMMA SuffixIs ==
  ASSUME NEW S, NEW s \in Seq(S), NEW t \in Seq(S)
  PROVE  IsSuffix(s, t) <=>
           Len(s) <= Len(t) /\ \A i \in 1 .. Len(s) : s[i] = t[Len(t) - Len(s) + i]
<1>1. PICK m \in Nat, n \in Nat : m = Len(s) /\ n = Len(t)
  BY LenProperties
<1>2. (\A i \in 1 .. m : s[i] \in S) /\ (\A i \in 1 .. n : t[i] \in S)
  BY <1>1, ElementOfSeq
<1> DEFINE r == [i \in 1 .. m |-> s[(m - i) + 1]]
           q == [i \in 1 .. n |-> t[(n - i) + 1]]
<1>3. r \in Seq(S) /\ q \in Seq(S) /\ Len(r) = m /\ Len(q) = n /\ Reverse(s) = r /\ Reverse(t) = q
  BY <1>1, <1>2 DEF Reverse
<1>4. SubSeq(r, 1, m) = r
  BY <1>3, SubSeqFull
<1> HIDE DEF r, q
<1>5. IsSuffix(s, t) <=> m <= n /\ r = SubSeq(q, 1, m)
  BY <1>3, <1>4 DEF IsSuffix, IsPrefix
<1>6. ASSUME m <= n
      PROVE  r = SubSeq(q, 1, m) <=> \A i \in 1 .. m : r[i] = q[i]
  <2>1. \A i \in 1 .. m : q[i] \in S
    BY <1>3, <1>6, ElementOfSeq
  <2>2. /\ SubSeq(q, 1, m) \in Seq(S) /\ Len(SubSeq(q, 1, m)) = IF 1 <= m THEN m - 1 + 1 ELSE 0
        /\ \A i \in 1 .. m - 1 + 1 : SubSeq(q, 1, m)[i] = q[1 + i - 1]
    BY <2>1, SubSeqProperties
  <2> DEFINE u == SubSeq(q, 1, m)
  <2> HIDE DEF u
  <2>3. u \in Seq(S) /\ Len(u) = m /\ \A i \in 1 .. m : u[i] = q[i]
    BY <2>2 DEF u
  <2>4. (\A i \in 1 .. m : r[i] = q[i]) => r = u
    BY <1>3, <2>3, SeqEqual
  <2>5. r = u <=> \A i \in 1 .. m : r[i] = q[i]
    BY <2>3, <2>4
  <2> QED BY <2>5 DEF u
<1>7. ASSUME m <= n
      PROVE  (\A i \in 1 .. m : r[i] = q[i]) <=> \A i \in 1 .. m : s[i] = t[n - m + i]
  <2>1. \A i \in 1 .. m : r[i] = s[(m - i) + 1] /\ q[i] = t[(n - i) + 1]
    BY <1>7 DEF r, q
  <2>2. ASSUME \A i \in 1 .. m : r[i] = q[i], NEW i \in 1 .. m PROVE s[i] = t[n - m + i]
    <3>1. m - i + 1 \in 1 .. m /\ (m - (m - i + 1)) + 1 = i /\ (n - (m - i + 1)) + 1 = n - m + i
      OBVIOUS
    <3>2. r[m - i + 1] = q[m - i + 1]
      BY <2>2, <3>1
    <3> QED BY <2>1, <3>1, <3>2
  <2>3. ASSUME \A i \in 1 .. m : s[i] = t[n - m + i], NEW i \in 1 .. m PROVE r[i] = q[i]
    <3>1. (m - i) + 1 \in 1 .. m /\ n - m + ((m - i) + 1) = (n - i) + 1
      OBVIOUS
    <3>2. s[(m - i) + 1] = t[n - m + ((m - i) + 1)]
      BY <2>3, <3>1
    <3> QED BY <2>1, <3>1, <3>2
  <2> QED BY <2>2, <2>3
<1> QED BY <1>1, <1>5, <1>6, <1>7

LEMMA TailIsSuffix ==
  ASSUME NEW S, NEW s \in Seq(S), NEW t \in Seq(S), IsSuffix(s, t)
  PROVE  IsSuffix(t, t) /\ (s # <<>> => IsSuffix(Tail(s), t))
<1>1. Len(s) \in Nat /\ Len(t) \in Nat
  BY LenProperties
<1>2. IsSuffix(t, t)
  BY <1>1, SuffixIs
<1>3. ASSUME s # <<>> PROVE IsSuffix(Tail(s), t)
  <2>1. /\ Tail(s) \in Seq(S) /\ Len(Tail(s)) = Len(s) - 1 /\ Len(s) \in Nat \ {0}
        /\ \A i \in 1 .. Len(Tail(s)) : Tail(s)[i] = s[i + 1]
    BY <1>3, HeadTailProperties, EmptySeq
  <2>2. Len(s) <= Len(t) /\ \A i \in 1 .. Len(s) : s[i] = t[Len(t) - Len(s) + i]
    BY SuffixIs
  <2>3. ASSUME NEW i \in 1 .. Len(Tail(s)) PROVE Tail(s)[i] = t[Len(t) - Len(Tail(s)) + i]
    <3>1. i + 1 \in 1 .. Len(s) /\ Len(t) - Len(s) + (i + 1) = Len(t) - Len(Tail(s)) + i
      BY <1>1, <2>1
    <3> QED BY <2>1, <2>2, <3>1
  <2>4. Len(Tail(s)) <= Len(t)
    BY <1>1, <2>1, <2>2
  <2> QED BY <2>1, <2>3, <2>4, SuffixIs
<1> QED BY <1>2, <1>3


Steps == {"idle", "run", "read", "parse", "loops", "state", "use"}
InParse == {"read", "parse", "loops", "state", "use"}

(* A thread inside parse_debugger_output() is there because its script     *)
(* says so.                                                                *)
TypeInv ==
  /\ TypeOK
  /\ left \in [Threads -> Script]
  /\ \A t \in Threads : step[t] \in InParse => left[t] # <<>> /\ Head(left[t]) = Parse

(* What a call, a start and a restart put before a thread.                 *)
LEMMA ScriptsAre ==
  ASSUME debugger \in Debuggers
  PROVE  /\ StartScript[debugger] \in Script
         /\ \A t \in Users : \A s \in Scripts[debugger][t] : s \in Script
         /\ \A s \in Script : IsSuffix(s, s)
         /\ \A s, l \in Script : IsSuffix(l, s) /\ l # <<>> => Tail(l) \in Script /\ IsSuffix(Tail(l), s)
<1>1. StartScript[debugger] \in Script /\ \A t \in Users : \A s \in Scripts[debugger][t] : s \in Script
  BY ChannelAssumption
<1>2. ASSUME NEW s \in Script PROVE IsSuffix(s, s)
  <2>1. s \in Seq(Commands \cup {Marker, Parse})
    BY DEF Script
  <2>2. Len(s) \in Nat
    BY <2>1, LenProperties
  <2> QED BY <2>1, <2>2, SuffixIs
<1>3. ASSUME NEW s \in Script, NEW l \in Script, IsSuffix(l, s), l # <<>>
      PROVE  Tail(l) \in Script /\ IsSuffix(Tail(l), s)
  <2>1. s \in Seq(Commands \cup {Marker, Parse}) /\ l \in Seq(Commands \cup {Marker, Parse})
    BY DEF Script
  <2>2. Tail(l) \in Seq(Commands \cup {Marker, Parse})
    BY <1>3, <2>1, HeadTailProperties
  <2> QED BY <1>3, <2>1, <2>2, TailIsSuffix DEF Script
<1> QED BY <1>1, <1>2, <1>3

LEMMA NextKeepsTypes == TypeInv /\ [Next]_vars => TypeInv'
<1> SUFFICES ASSUME TypeInv, [Next]_vars PROVE TypeInv'
  OBVIOUS
<1> USE DEF history, reader, pipes
<1>1. /\ debugger \in Debuggers /\ debugger \in {"GDB", "PDB"}
      /\ stdin \in Seq(Commands \cup {Marker}) /\ stdout \in Seq(Pieces)
      /\ ready \in BOOLEAN /\ reader_buffer \in Seq(Pieces) /\ reader_state \in {"RECEIVING", "DONE"}
      /\ buffers \in [Buffers -> Seq(Pieces)] /\ script \in [Threads -> Script]
      /\ \A t \in Threads : IsSuffix(left[t], script[t])
      /\ step \in [Threads -> Steps] /\ restarts \in 0 .. MaxRestarts
      /\ cut \in BOOLEAN /\ misread \in BOOLEAN
      /\ left \in [Threads -> Script]
      /\ \A t \in Threads : step[t] \in InParse => left[t] # <<>> /\ Head(left[t]) = Parse
  BY ChannelAssumption DEF TypeInv, TypeOK, Steps
<1>2. /\ StartScript[debugger] \in Script
      /\ \A t \in Users : \A s \in Scripts[debugger][t] : s \in Script
      /\ \A s \in Script : IsSuffix(s, s)
      /\ \A s, l \in Script : IsSuffix(l, s) /\ l # <<>> => Tail(l) \in Script /\ IsSuffix(Tail(l), s)
  BY <1>1, ScriptsAre
<1>3. PromptOf \in Pieces /\ <<PromptOf>> \in Seq(Pieces)
  BY <1>1, AnswersAre
(* A thread goes on to another step,                                       *)
<1>4. ASSUME NEW t \in Threads, NEW a \in Steps, step' = [step EXCEPT ![t] = a],
             a \in InParse => left[t] # <<>> /\ Head(left[t]) = Parse, UNCHANGED <<debugger, script, left>>,
             stdin' \in Seq(Commands \cup {Marker}), stdout' \in Seq(Pieces), ready' \in BOOLEAN,
             reader_buffer' \in Seq(Pieces), reader_state' \in {"RECEIVING", "DONE"},
             buffers' \in [Buffers -> Seq(Pieces)], restarts' \in 0 .. MaxRestarts,
             cut' \in BOOLEAN, misread' \in BOOLEAN
      PROVE  TypeInv'
  BY <1>1, <1>4 DEF TypeInv, TypeOK, Steps, InParse
(* or has done what its script said.                                       *)
<1>5. ASSUME NEW t \in Threads, left[t] # <<>>, left' = [left EXCEPT ![t] = Tail(left[t])],
             step' = [step EXCEPT ![t] = "run"], stdin' \in Seq(Commands \cup {Marker}),
             UNCHANGED <<debugger, stdout, ready, reader, script, restarts, history>>
      PROVE  TypeInv'
  <2>1. Tail(left[t]) \in Script /\ IsSuffix(Tail(left[t]), script[t])
    BY <1>1, <1>2, <1>5
  <2>2. /\ left' \in [Threads -> Script] /\ step' \in [Threads -> Steps]
        /\ \A u \in Threads : IsSuffix(left[u], script[u])'
        /\ \A u \in Threads : (step[u] \in InParse => left[u] # <<>> /\ Head(left[u]) = Parse)'
    BY <1>1, <1>5, <2>1 DEF Steps, InParse
  <2> QED BY <1>1, <1>5, <2>2 DEF TypeInv, TypeOK, Steps
<1>6. CASE Debugger
  <2>1. Head(stdin) \in Commands \cup {Marker} /\ Tail(stdin) \in Seq(Commands \cup {Marker})
    BY <1>1, <1>6, HeadTailProperties DEF Debugger
  <2>2. AnswerPieces(Head(stdin)) \in Seq(Pieces)
    <3>1. ASSUME NEW c \in Commands PROVE AnswerPieces(c) \in Seq(Pieces)
      <4>1. AnswerPieces(c) \in Seq(Pieces \ Ends)
        BY <1>1, AnswersAre
      <4> QED BY <4>1
    <3> QED BY <1>1, <2>1, <3>1, AnswersAre
  <2>3. stdout \o AnswerPieces(Head(stdin)) \in Seq(Pieces)
    BY <1>1, <2>2, ConcatProperties
  <2> QED BY <1>1, <1>6, <2>1, <2>3 DEF Debugger, TypeInv, TypeOK, Steps
<1>7. CASE Restart
  <2>1. main \in Threads /\ send_key \in Threads /\ main # send_key
    BY <1>7, ChannelAssumption DEF Restart, Threads
  <2>2. restarts + 1 \in 0 .. MaxRestarts
    BY <1>1, <1>7, ChannelAssumption DEF Restart
  <2>3. <<>> \in Seq(Commands \cup {Marker})
    BY EmptySeq
  <2>4. /\ left' \in [Threads -> Script] /\ script' \in [Threads -> Script] /\ step' \in [Threads -> Steps]
        /\ \A u \in Threads : IsSuffix(left[u], script[u])'
        /\ \A u \in Threads : (step[u] \in InParse => left[u] # <<>> /\ Head(left[u]) = Parse)'
    BY <1>1, <1>2, <1>7, <2>1 DEF Restart, Steps, InParse
  <2> QED BY <1>1, <1>3, <1>7, <2>2, <2>3, <2>4 DEF Restart, TypeInv, TypeOK, Steps
<1>8. ASSUME NEW t \in Users, NEW s \in Scripts[debugger][t], Call(t, s) PROVE TypeInv'
  <2>1. s \in Script /\ t \in Threads
    BY <1>2 DEF Threads
  <2>2. /\ left' \in [Threads -> Script] /\ script' \in [Threads -> Script] /\ step' \in [Threads -> Steps]
        /\ \A u \in Threads : IsSuffix(left[u], script[u])'
        /\ \A u \in Threads : (step[u] \in InParse => left[u] # <<>> /\ Head(left[u]) = Parse)'
    BY <1>1, <1>2, <1>8, <2>1 DEF Call, Steps, InParse
  <2> QED BY <1>1, <1>8, <2>2 DEF Call, TypeInv, TypeOK, Steps
<1>9. ASSUME NEW t \in Threads, ThreadStep(t) PROVE TypeInv'
  <2>1. CASE Send(t)
    <3>1. left[t] \in Seq(Commands \cup {Marker, Parse})
      BY <1>1 DEF Script
    <3>2. Head(left[t]) \in Commands \cup {Marker}
      BY <2>1, <3>1, HeadTailProperties DEF Send
    <3>3. Append(stdin, Head(left[t])) \in Seq(Commands \cup {Marker})
      BY <1>1, <3>2, AppendProperties
    <3>4. step' = [step EXCEPT ![t] = "run"]
      BY <1>1, <2>1 DEF Send
    <3> QED BY <1>5, <2>1, <3>3, <3>4 DEF Send
  <2>2. CASE Return(t)
    BY <1>1, <1>4, <2>2 DEF Return, Steps, InParse
  <2>3. CASE BeginParse(t)
    <3>1. NoOutput \in [Buffers -> Seq(Pieces)]
      BY EmptySeq DEF NoOutput
    <3> QED BY <1>1, <1>4, <2>3, <3>1 DEF BeginParse, Steps
  <2>4. CASE Read(t)
    <3>1. PICK n \in 1 .. Len(stdout) :
            reader_buffer' = SubSeq(stdout, 1, n) /\ stdout' = SubSeq(stdout, n + 1, Len(stdout))
      BY <2>4 DEF Read
    <3>2. reader_buffer' \in Seq(Pieces) /\ stdout' \in Seq(Pieces)
      BY <1>1, <3>1, CutIs
    <3>3. cut' \in BOOLEAN
      BY <1>1, <2>4 DEF Read, WholeLines
    <3>4. left[t] # <<>> /\ Head(left[t]) = Parse /\ "parse" \in Steps
      BY <1>1, <2>4 DEF Read, Steps, InParse
    <3> QED BY <1>1, <1>4, <2>4, <3>2, <3>3, <3>4 DEF Read
  <2>5. CASE WaitReady(t)
    <3>1. left[t] # <<>> /\ Head(left[t]) = Parse /\ "read" \in Steps
      BY <1>1, <2>5 DEF WaitReady, Steps, InParse
    <3>2. ready' \in BOOLEAN /\ misread' \in BOOLEAN
      BY <1>1, <2>5 DEF WaitReady
    <3> QED BY <1>1, <1>4, <2>5, <3>1, <3>2 DEF WaitReady
  <2>6. CASE ParseChunk(t)
    <3>1. PICK p \in ParsePieces(debugger, reader_buffer, buffers) :
            /\ buffers' = p.out
            /\ reader_state' = IF p.status = "DONE" THEN "DONE" ELSE reader_state
            /\ step' = [step EXCEPT ![t] = IF p.status = "LOOPS" THEN "loops" ELSE "state"]
      BY <2>6 DEF ParseChunk
    <3>2. p \in ParserState(debugger)
      BY <1>1, ChunkIs
    <3>3. buffers' \in [Buffers -> Seq(Pieces)] /\ reader_state' \in {"RECEIVING", "DONE"}
      BY <1>1, <3>1, <3>2 DEF ParserState
    <3>4. misread' \in BOOLEAN
      BY <1>1, <2>6 DEF ParseChunk
    <3>5. left[t] # <<>> /\ Head(left[t]) = Parse
      BY <1>1, <2>6 DEF ParseChunk, InParse
    <3>6. PICK a \in Steps : a = IF p.status = "LOOPS" THEN "loops" ELSE "state"
      BY DEF Steps
    <3> QED BY <1>1, <1>4, <2>6, <3>1, <3>3, <3>4, <3>5, <3>6 DEF ParseChunk
  <2>7. CASE CheckState(t)
    <3>1. left[t] # <<>> /\ Head(left[t]) = Parse
      BY <1>1, <2>7 DEF CheckState, InParse
    <3>2. PICK a \in Steps : a = IF reader_state = "DONE" THEN "use" ELSE "read"
      BY DEF Steps
    <3> QED BY <1>1, <1>4, <2>7, <3>1, <3>2 DEF CheckState
  <2>8. CASE Use(t)
    <3>1. left[t] # <<>>
      BY <1>1, <2>8 DEF Use, InParse
    <3> QED BY <1>1, <1>5, <2>8, <3>1 DEF Use
  <2> QED BY <1>9, <2>1, <2>2, <2>3, <2>4, <2>5, <2>6, <2>7, <2>8 DEF ThreadStep
<1>10. CASE UNCHANGED vars
  BY <1>10 DEF vars, TypeInv, TypeOK
<1> QED BY <1>6, <1>7, <1>8, <1>9, <1>10 DEF Next

LEMMA InitTypes == Init => TypeInv
<1> SUFFICES ASSUME Init PROVE TypeInv
  OBVIOUS
<1>1. debugger \in Debuggers
  BY DEF Init
<1>2. StartScript[debugger] \in Script /\ <<>> \in Script
  BY <1>1, ScriptsAre, EmptySeq DEF Script
<1>3. script \in [Threads -> Script] /\ left = script
  BY <1>2 DEF Init
<1>4. \A t \in Threads : IsSuffix(left[t], script[t])
  BY <1>1, <1>3, ScriptsAre
<1>5. step \in [Threads -> {"idle", "run", "read", "parse", "loops", "state", "use"}]
      /\ \A t \in Threads : step[t] \notin InParse
  BY DEF Init, InParse
<1>6. <<PromptOf>> \in Seq(Pieces)
  BY <1>1, AnswersAre
<1>7. NoOutput \in [Buffers -> Seq(Pieces)]
  BY EmptySeq DEF NoOutput
<1>8. restarts \in 0 .. MaxRestarts
  BY ChannelAssumption DEF Init
<1>9. <<>> \in Seq(Commands \cup {Marker}) /\ <<>> \in Seq(Pieces)
  BY EmptySeq
<1> QED BY <1>1, <1>3, <1>4, <1>5, <1>6, <1>7, <1>8, <1>9 DEF Init, TypeInv, TypeOK

(* Whatever the debugger prints, and however many threads share the        *)
(* channel.                                                                *)
THEOREM ChannelTypeCorrect == Spec => []TypeOK
<1>1. TypeInv => TypeOK
  BY DEF TypeInv
<1> QED BY <1>1, InitTypes, NextKeepsTypes, PTL DEF Spec

-----------------------------------------------------------------------------
(* With one user of the channel no output is left over                     *)

OneUser == ~({send_key, update_thread} \subseteq Users)

(* One thread at most is inside a call.                                    *)
Alone(t) == \A u \in Threads \ {t} : step[u] = "idle"

(* What the call of thread t has still to do.                              *)
Left(t) == IF step[t] = "idle" THEN <<>> ELSE left[t]

(* The end markers that are on their way and those that are still to be    *)
(* sent, and the calls of parse_debugger_output() that wait for one.       *)
Coming(t) ==
  Count(stdin, Marker) + Count(stdout, EndOf) + Count(Left(t), Marker)
    + (IF step[t] = "parse" THEN Count(reader_buffer, EndOf) ELSE 0)
Answered(t) == step[t] = "use" \/ (step[t] = "state" /\ reader_state = "DONE")
Owed(t) == Count(Left(t), Parse) - (IF Answered(t) THEN 1 ELSE 0)
Fits(t) ==
  /\ step[t] \in {"read", "parse"} => reader_state = "RECEIVING"
  /\ ~misread => Coming(t) <= Owed(t)

(* Behind every command and every text there is an end marker.             *)
FollowedIn(s) == \A i \in 1 .. Len(s) : s[i] \in Commands => \E j \in i .. Len(s) : s[j] = Marker
Covered(t) == Count(stdin, Marker) > 0 \/ Count(Left(t), Marker) > 0
TextsCovered(s) == \A i \in 1 .. Len(s) : s[i] \in Texts => \E j \in i .. Len(s) : s[j] = EndOf
Followed(t) ==
  /\ FollowedIn(Left(t))
  /\ stdin # <<>> => Last(stdin) = Marker \/ Count(Left(t), Marker) > 0
  /\ TextsCovered(stdout) \/ Covered(t)

ChannelInv ==
  /\ TypeInv
  /\ restarts > 0 => send_key \in Users
  /\ \E t \in Threads : Alone(t) /\ Fits(t) /\ Followed(t)


LEMMA EndsOf ==
  ASSUME NEW S, NEW s \in Seq(S), s # <<>>
  PROVE  /\ Count(s, Last(s)) > 0
         /\ Tail(s) # <<>> => Last(Tail(s)) = Last(s)
         /\ FollowedIn(s) => FollowedIn(Tail(s))
         /\ FollowedIn(s) /\ Head(s) \in Commands => Count(Tail(s), Marker) > 0
<1>1. /\ Len(s) \in Nat \ {0} /\ Tail(s) \in Seq(S) /\ Len(Tail(s)) = Len(s) - 1
      /\ \A i \in 1 .. Len(Tail(s)) : Tail(s)[i] = s[i + 1]
  BY EmptySeq, HeadTailProperties
<1>2. Last(s) = s[Len(s)] /\ Head(s) = s[1]
  BY DEF Last
<1>3. Count(s, Last(s)) > 0
  BY <1>1, <1>2, CountIs
<1>4. ASSUME Tail(s) # <<>> PROVE Last(Tail(s)) = Last(s)
  <2>1. Len(Tail(s)) \in 1 .. Len(Tail(s))
    BY <1>1, <1>4, EmptySeq, LenProperties
  <2>2. Tail(s)[Len(Tail(s))] = s[Len(s)]
    BY <1>1, <2>1
  <2> QED BY <1>2, <2>2 DEF Last
<1>5. ASSUME FollowedIn(s), NEW i \in 1 .. Len(Tail(s)), Tail(s)[i] \in Commands
      PROVE  \E j \in i .. Len(Tail(s)) : Tail(s)[j] = Marker
  <2>1. i + 1 \in 1 .. Len(s) /\ s[i + 1] \in Commands
    BY <1>1, <1>5
  <2>2. PICK j \in i + 1 .. Len(s) : s[j] = Marker
    BY <1>5, <2>1 DEF FollowedIn
  <2>3. j - 1 \in i .. Len(Tail(s)) /\ (j - 1) + 1 = j
    BY <1>1, <2>2
  <2>4. j - 1 \in 1 .. Len(Tail(s))
    BY <1>1, <2>3
  <2> QED BY <1>1, <2>2, <2>3, <2>4
<1>6. ASSUME FollowedIn(s), Head(s) \in Commands PROVE Count(Tail(s), Marker) > 0
  <2>1. PICK j \in 1 .. Len(s) : s[j] = Marker
    BY <1>1, <1>2, <1>6 DEF FollowedIn
  <2>2. j # 1
    BY <1>2, <1>6, <2>1, ChannelAssumption
  <2>3. j - 1 \in 1 .. Len(Tail(s)) /\ (j - 1) + 1 = j
    BY <1>1, <2>1, <2>2
  <2>4. Tail(s)[j - 1] = Marker
    BY <1>1, <2>1, <2>3
  <2>5. Len(Tail(s)) \in Nat
    BY <1>1
  <2> DEFINE r == Tail(s)
  <2> HIDE DEF r
  <2>6. Count(r, Marker) \in Nat /\ (Count(r, Marker) = 0 => \A i \in 1 .. Len(r) : r[i] # Marker)
    BY <2>5, CountIs DEF r
  <2>7. ~ \A i \in 1 .. Len(r) : r[i] # Marker
    BY <2>3, <2>4 DEF r
  <2> QED BY <2>6, <2>7 DEF r
<1> QED BY <1>3, <1>4, <1>5, <1>6 DEF FollowedIn

LEMMA Counted ==
  ASSUME TypeInv, NEW t \in Threads
  PROVE  /\ Count(stdin, Marker) \in Nat /\ Count(stdout, EndOf) \in Nat
         /\ Count(reader_buffer, EndOf) \in Nat
         /\ Left(t) \in Seq(Commands \cup {Marker, Parse})
         /\ Count(Left(t), Marker) \in Nat /\ Count(Left(t), Parse) \in Nat
         /\ Count(<<>>, Marker) = 0 /\ Count(<<>>, Parse) = 0
<1>1. stdin \in Seq(Commands \cup {Marker}) /\ stdout \in Seq(Pieces) /\ reader_buffer \in Seq(Pieces)
  BY DEF TypeInv, TypeOK
<1>2. Left(t) \in Seq(Commands \cup {Marker, Parse})
  BY EmptySeq DEF TypeInv, Left, Script
<1>3. Len(stdin) \in Nat /\ Len(stdout) \in Nat /\ Len(reader_buffer) \in Nat /\ Len(Left(t)) \in Nat
  BY <1>1, <1>2, LenProperties
<1>4. Len(<<>>) = 0
  BY EmptySeq
<1>5. Count(<<>>, Marker) = 0 /\ Count(<<>>, Parse) = 0
  BY <1>4, CountIs
<1> QED BY <1>2, <1>3, <1>5, CountIs


(* A step of a thread that is inside a call.                               *)
LEMMA CallKeeps ==
  ASSUME TypeInv, NEW t \in Threads, ThreadStep(t), Alone(t), Fits(t), Followed(t)
  PROVE  Alone(t)' /\ Fits(t)' /\ Followed(t)'
<1> USE DEF history, reader, pipes
<1>1. /\ debugger \in Debuggers /\ debugger \in {"GDB", "PDB"}
      /\ stdin \in Seq(Commands \cup {Marker}) /\ stdout \in Seq(Pieces)
      /\ reader_buffer \in Seq(Pieces) /\ reader_state \in {"RECEIVING", "DONE"}
      /\ buffers \in [Buffers -> Seq(Pieces)]
      /\ step \in [Threads -> Steps] /\ left \in [Threads -> Script]
      /\ left[t] \in Seq(Commands \cup {Marker, Parse})
      /\ step[t] \in InParse => left[t] # <<>> /\ Head(left[t]) = Parse
  BY ChannelAssumption DEF TypeInv, TypeOK, Steps, Script
<1>2. /\ Count(stdin, Marker) \in Nat /\ Count(stdout, EndOf) \in Nat /\ Count(reader_buffer, EndOf) \in Nat
      /\ Count(Left(t), Marker) \in Nat /\ Count(Left(t), Parse) \in Nat
      /\ Count(<<>>, Marker) = 0 /\ Count(<<>>, Parse) = 0
  BY Counted
<1>3. Left(t) = left[t] /\ step[t] # "idle"
  BY DEF Left, ThreadStep, Send, Return, BeginParse, Read, WaitReady, ParseChunk, CheckState, Use
<1>4. debugger' = debugger /\ EndOf' = EndOf
  BY DEF EndOf, ThreadStep, Send, Return, BeginParse, Read, WaitReady, ParseChunk, CheckState, Use
<1>5. Alone(t)'
  <2>1. \A u \in Threads : u # t => step'[u] = step[u]
    BY <1>1 DEF ThreadStep, Send, Return, BeginParse, Read, WaitReady, ParseChunk, CheckState, Use
  <2> QED BY <2>1 DEF Alone
<1>6. Marker \notin Commands /\ Parse \notin Commands /\ Marker # Parse
  BY ChannelAssumption
<1>7. CASE Send(t)
  <2> DEFINE h == Head(left[t])
             r == Tail(left[t])
             q == Append(stdin, h)
  <2>1. h \in Commands \cup {Marker} /\ r \in Seq(Commands \cup {Marker, Parse})
    BY <1>1, <1>7, HeadTailProperties DEF Send
  <2>2. stdin' = q /\ step' = step /\ Left(t)' = r
        /\ stdout' = stdout /\ reader_buffer' = reader_buffer /\ reader_state' = reader_state
        /\ misread' = misread /\ step[t] = "run"
    BY <1>1, <1>7 DEF Send, Left
  <2>3. Count(q, Marker) = Count(stdin, Marker) + (IF h = Marker THEN 1 ELSE 0)
    BY <1>1, <2>1, CountAppend
  <2>4. /\ Count(left[t], Marker) = Count(r, Marker) + (IF h = Marker THEN 1 ELSE 0)
        /\ Count(left[t], Parse) = Count(r, Parse)
    <3>1. left[t] # <<>> /\ h # Parse
      BY <1>6, <2>1, <1>7 DEF Send
    <3>2. \A x : Count(left[t], x) = Count(r, x) + (IF h = x THEN 1 ELSE 0)
      BY <1>1, <3>1, CountTail
    <3>3. Len(r) \in Nat
      BY <2>1, LenProperties
    <3>4. Count(r, Parse) \in Nat
      BY <3>3, CountIs
    <3> QED BY <3>1, <3>2, <3>4
  <2>5. Count(r, Marker) \in Nat
    <3>1. Len(r) \in Nat
      BY <2>1, LenProperties
    <3> QED BY <3>1, CountIs
  <2>6. FollowedIn(r) /\ (h \in Commands => Count(r, Marker) > 0)
    <3>1. left[t] # <<>> /\ FollowedIn(left[t])
      BY <1>3, <1>7 DEF Send, Followed
    <3> QED BY <1>1, <3>1, EndsOf
  <2>7. q # <<>> /\ Last(q) = h
    <3>1. Len(stdin) \in Nat /\ Len(q) = Len(stdin) + 1 /\ q[Len(stdin) + 1] = h
      BY <1>1, <2>1, AppendProperties, LenProperties
    <3>2. Len(<<>>) = 0
      OBVIOUS
    <3> HIDE DEF q
    <3> QED BY <3>1, <3>2 DEF Last
  <2> HIDE DEF h, r, q
  <2>8. Fits(t)'
    BY <1>2, <1>3, <1>4, <2>2, <2>3, <2>4, <2>5 DEF Fits, Coming, Owed, Answered
  <2>9. TextsCovered(stdout)' = TextsCovered(stdout)
    BY <1>4, <2>2 DEF TextsCovered
  <2>10. Covered(t) => Covered(t)'
    BY <1>2, <1>3, <2>2, <2>3, <2>4, <2>5 DEF Covered
  <2>11. Followed(t)'
    BY <2>1, <2>2, <2>6, <2>7, <2>9, <2>10 DEF Followed
  <2> QED BY <1>5, <2>8, <2>11
(* Nothing moves in the pipes.                                             *)
<1>8. ASSUME stdin' = stdin, stdout' = stdout, Left(t)' = Left(t) PROVE Followed(t)'
  BY <1>4, <1>8 DEF Followed, TextsCovered, Covered
<1>9. CASE Return(t)
  <2>1. Left(t)' = Left(t)
    BY <1>1, <1>3, <1>9 DEF Return, Left
  <2>2. stdin' = stdin /\ stdout' = stdout /\ misread' = misread /\ step[t] = "run" /\ step'[t] = "idle"
    BY <1>1, <1>9 DEF Return
  <2>3. Fits(t)'
    BY <1>2, <1>4, <2>1, <2>2 DEF Fits, Coming, Owed, Answered
  <2> QED BY <1>5, <1>8, <2>1, <2>2, <2>3
<1>10. CASE BeginParse(t)
  <2>1. Left(t)' = Left(t)
    BY <1>1, <1>3, <1>10 DEF BeginParse, Left
  <2>2. /\ stdin' = stdin /\ stdout' = stdout /\ misread' = misread /\ step[t] = "run" /\ step'[t] = "read"
        /\ reader_state' = "RECEIVING"
    BY <1>1, <1>10 DEF BeginParse
  <2>3. Fits(t)'
    BY <1>2, <1>4, <2>1, <2>2 DEF Fits, Coming, Owed, Answered
  <2> QED BY <1>5, <1>8, <2>1, <2>2, <2>3
<1>11. CASE Read(t)
  <2>1. PICK n \in 1 .. Len(stdout) :
          reader_buffer' = SubSeq(stdout, 1, n) /\ stdout' = SubSeq(stdout, n + 1, Len(stdout))
    BY <1>11 DEF Read
  <2>2. /\ Left(t)' = Left(t) /\ stdin' = stdin /\ misread' = misread
        /\ step[t] = "read" /\ step'[t] = "parse" /\ reader_state' = reader_state
    BY <1>1, <1>3, <1>11 DEF Read, Left
  <2>3. /\ reader_buffer' \in Seq(Pieces) /\ stdout' \in Seq(Pieces) /\ Len(stdout') = Len(stdout) - n
        /\ \A i \in 1 .. Len(stdout) - n : stdout'[i] = stdout[n + i]
        /\ Count(stdout, EndOf) = Count(reader_buffer', EndOf) + Count(stdout', EndOf)
    <3> DEFINE a == SubSeq(stdout, 1, n)
               b == SubSeq(stdout, n + 1, Len(stdout))
    <3>1. /\ a \in Seq(Pieces) /\ b \in Seq(Pieces) /\ Len(b) = Len(stdout) - n
          /\ \A i \in 1 .. Len(stdout) - n : b[i] = stdout[n + i]
          /\ \A x : Count(stdout, x) = Count(a, x) + Count(b, x)
      BY <1>1, CutIs
    <3>2. reader_buffer' = a /\ stdout' = b
      BY <2>1
    <3> HIDE DEF a, b
    <3> QED BY <3>1, <3>2
  <2>4. Count(reader_buffer', EndOf) \in Nat /\ Count(stdout', EndOf) \in Nat
    <3>1. Len(reader_buffer') \in Nat /\ Len(stdout') \in Nat
      BY <2>3, LenProperties
    <3> QED BY <3>1, CountIs
  <2>5. Fits(t)'
    BY <1>2, <1>4, <2>2, <2>3, <2>4 DEF Fits, Coming, Owed, Answered
  <2>6. ASSUME TextsCovered(stdout) PROVE TextsCovered(stdout)'
    <3>1. PICK m \in Nat : m = Len(stdout)
      BY <1>1, LenProperties
    <3>2. ASSUME NEW i \in 1 .. m - n, stdout'[i] \in Texts
          PROVE  \E j \in i .. m - n : stdout'[j] = EndOf
      <4>1. n + i \in 1 .. m /\ stdout[n + i] \in Texts
        BY <2>3, <3>1, <3>2
      <4>2. PICK j \in n + i .. m : stdout[j] = EndOf
        BY <2>6, <3>1, <4>1 DEF TextsCovered
      <4>3. j - n \in i .. m - n /\ n + (j - n) = j /\ j - n \in 1 .. m - n
        BY <4>2
      <4> QED BY <2>3, <3>1, <4>2, <4>3
    <3> QED BY <1>4, <2>3, <3>1, <3>2 DEF TextsCovered
  <2>7. Followed(t)'
    BY <2>2, <2>6 DEF Followed, Covered
  <2> QED BY <1>5, <2>5, <2>7
<1>12. CASE WaitReady(t)
  <2>1. Left(t)' = Left(t)
    BY <1>1, <1>3, <1>12 DEF WaitReady, Left
  <2>2. /\ stdin' = stdin /\ stdout' = stdout /\ (~misread' => ~misread)
        /\ step[t] = "parse" /\ step'[t] = "read" /\ reader_state' = reader_state
    BY <1>1, <1>12 DEF WaitReady
  <2>3. Fits(t)'
    BY <1>2, <1>4, <2>1, <2>2 DEF Fits, Coming, Owed, Answered
  <2> QED BY <1>5, <1>8, <2>1, <2>2, <2>3
<1>13. CASE ParseChunk(t)
  <2>1. PICK p \in ParsePieces(debugger, reader_buffer, buffers) :
          /\ reader_state' = IF p.status = "DONE" THEN "DONE" ELSE reader_state
          /\ step' = [step EXCEPT ![t] = IF p.status = "LOOPS" THEN "loops" ELSE "state"]
    BY <1>13 DEF ParseChunk
  <2>2. /\ Left(t)' = Left(t) /\ stdin' = stdin /\ stdout' = stdout /\ step[t] = "parse"
        /\ step'[t] \in {"loops", "state"} /\ reader_state = "RECEIVING"
    BY <1>1, <1>3, <1>13, <2>1 DEF ParseChunk, Left, Fits
  <2>3. ASSUME Answered(t)', ~misread' PROVE Count(reader_buffer, EndOf) # 0
    <3>1. p.status = "DONE"
      BY <2>1, <2>2, <2>3 DEF Answered
    <3>2. ~(debugger = "PDB" /\ RunsOver(reader_buffer, buffers))
      BY <1>13, <2>3 DEF ParseChunk
    <3>3. \E i \in 1 .. Len(reader_buffer) : reader_buffer[i] = EndOf
      BY <1>1, <3>1, <3>2, ChunkIs, AnswersAre
    <3>4. Len(reader_buffer) \in Nat
      BY <1>1, LenProperties
    <3> QED BY <3>3, <3>4, CountIs
  <2>4. ~misread' => ~misread
    BY <1>13 DEF ParseChunk
  <2>5. Fits(t)'
    <3>1. ~Answered(t)
      BY <2>2 DEF Answered
    <3> QED BY <1>2, <1>4, <2>2, <2>3, <2>4, <3>1 DEF Fits, Coming, Owed
  <2> QED BY <1>5, <1>8, <2>2, <2>5
<1>14. CASE CheckState(t)
  <2>1. /\ Left(t)' = Left(t) /\ stdin' = stdin /\ stdout' = stdout /\ misread' = misread
        /\ step[t] = "state" /\ step'[t] \in {"use", "read"} /\ reader_state' = reader_state
        /\ step'[t] = "use" <=> reader_state = "DONE"
    BY <1>1, <1>3, <1>14 DEF CheckState, Left
  <2>2. Fits(t)'
    BY <1>1, <1>2, <1>4, <2>1 DEF Fits, Coming, Owed, Answered
  <2> QED BY <1>5, <1>8, <2>1, <2>2
<1>15. CASE Use(t)
  <2> DEFINE r == Tail(left[t])
  <2>1. /\ left[t] # <<>> /\ Head(left[t]) = Parse /\ r \in Seq(Commands \cup {Marker, Parse})
        /\ step[t] = "use" /\ step'[t] = "run" /\ Left(t)' = r
        /\ stdin' = stdin /\ stdout' = stdout /\ misread' = misread
    BY <1>1, <1>15, HeadTailProperties DEF Use, Left, InParse
  <2>2. Count(r, Marker) \in Nat /\ Count(r, Parse) \in Nat
    <3>1. Len(r) \in Nat
      BY <2>1, LenProperties
    <3> QED BY <3>1, CountIs
  <2>3. Count(left[t], Marker) = Count(r, Marker) /\ Count(left[t], Parse) = Count(r, Parse) + 1
    <3>1. \A x : Count(left[t], x) = Count(r, x) + (IF Parse = x THEN 1 ELSE 0)
      BY <1>1, <2>1, CountTail
    <3> QED BY <1>6, <2>2, <3>1
  <2>4. FollowedIn(r)
    BY <1>1, <1>3, <2>1, EndsOf DEF Followed
  <2> HIDE DEF r
  <2>5. Fits(t)'
    BY <1>2, <1>3, <1>4, <2>1, <2>2, <2>3 DEF Fits, Coming, Owed, Answered
  <2>6. Followed(t)'
    BY <1>3, <1>4, <2>1, <2>3, <2>4 DEF Followed, TextsCovered, Covered
  <2> QED BY <1>5, <2>5, <2>6
<1> QED BY <1>7, <1>9, <1>10, <1>11, <1>12, <1>13, <1>14, <1>15 DEF ThreadStep


(* The debugger answers while a thread is inside a call, or nobody is.     *)
LEMMA AnswerKeeps ==
  ASSUME TypeInv, NEW t \in Threads, Debugger, Alone(t), Fits(t), Followed(t)
  PROVE  Alone(t)' /\ Fits(t)' /\ Followed(t)'
<1> USE DEF history, reader, pipes
<1> DEFINE h == Head(stdin)
           q == Tail(stdin)
           a == AnswerPieces(h)
           o == stdout \o a
<1>1. /\ debugger \in Debuggers /\ stdin \in Seq(Commands \cup {Marker}) /\ stdout \in Seq(Pieces)
      /\ stdin # <<>> /\ Marker \notin Commands
  BY ChannelAssumption DEF TypeInv, TypeOK, Debugger
<1>2. /\ Count(stdin, Marker) \in Nat /\ Count(stdout, EndOf) \in Nat /\ Count(reader_buffer, EndOf) \in Nat
      /\ Count(Left(t), Marker) \in Nat /\ Count(Left(t), Parse) \in Nat
  BY Counted
<1>3. /\ stdin' = q /\ stdout' = o /\ debugger' = debugger /\ EndOf' = EndOf /\ step' = step
      /\ Left(t)' = Left(t) /\ reader_buffer' = reader_buffer /\ reader_state' = reader_state
      /\ misread' = misread
  BY DEF Debugger, Left, EndOf
<1>4. h \in Commands \cup {Marker} /\ q \in Seq(Commands \cup {Marker})
  BY <1>1, HeadTailProperties
<1>5. Count(stdin, Marker) = Count(q, Marker) + (IF h = Marker THEN 1 ELSE 0)
  BY <1>1, CountTail
<1>6. Count(q, Marker) \in Nat
  <2>1. Len(q) \in Nat
    BY <1>4, LenProperties
  <2> QED BY <2>1, CountIs
<1>7. a \in Seq(Pieces) /\ Len(a) \in Nat /\ Count(a, EndOf) = IF h = Marker THEN 1 ELSE 0
  <2>1. CASE h = Marker
    BY <1>1, <2>1, AnswersAre, LenProperties
  <2>2. CASE h \in Commands
    <3>1. a \in Seq(Pieces \ Ends) /\ EndOf \in Ends
      BY <1>1, <2>2, AnswersAre DEF Ends, EndFor
    <3> HIDE DEF a
    <3>2. Len(a) \in Nat /\ \A i \in 1 .. Len(a) : a[i] \in Pieces \ Ends
      BY <3>1, LenProperties, ElementOfSeq
    <3>3. Count(a, EndOf) = 0
      BY <3>1, <3>2, CountIs
    <3>4. a \in Seq(Pieces)
      BY <3>1
    <3> QED BY <1>1, <2>2, <3>2, <3>3, <3>4
  <2> QED BY <1>4, <2>1, <2>2
<1>8. Count(o, EndOf) = Count(stdout, EndOf) + (IF h = Marker THEN 1 ELSE 0)
  <2>1. Count(stdout \o a, EndOf) = Count(stdout, EndOf) + Count(a, EndOf)
    BY <1>1, <1>7, CountConcat
  <2> QED BY <1>7, <2>1
<1>9. /\ Len(stdout) \in Nat /\ Len(o) = Len(stdout) + Len(a)
      /\ \A i \in 1 .. Len(stdout) + Len(a) :
           o[i] = IF i <= Len(stdout) THEN stdout[i] ELSE a[i - Len(stdout)]
  BY <1>1, <1>7, ConcatProperties, LenProperties
<1>10. /\ Count(stdin, Last(stdin)) > 0
       /\ q # <<>> => Last(q) = Last(stdin)
  BY <1>1, EndsOf
<1>11. ASSUME h = Marker, TextsCovered(stdout) \/ Count(stdin, Marker) > 0 PROVE TextsCovered(o)
  <2>1. PICK m \in Nat, n \in Nat : m = Len(stdout) /\ n = Len(a)
    BY <1>7, <1>9
  <2>2. PICK k \in 1 .. n : a[k] = EndOf
    BY <1>7, <1>11, <2>1, CountIs
  <2>3. o[m + k] = EndOf
    <3>1. m + k \in 1 .. m + n /\ ~(m + k <= m) /\ (m + k) - m = k
      OBVIOUS
    <3> HIDE DEF o
    <3> QED BY <1>9, <2>1, <2>2, <3>1
  <2>4. ASSUME NEW i \in 1 .. m + n, o[i] \in Texts PROVE i <= m
    <3> SUFFICES ASSUME ~(i <= m) PROVE FALSE
      OBVIOUS
    <3>1. i - m \in 1 .. n /\ o[i] = a[i - m]
      BY <1>9, <2>1
    <3> HIDE DEF o
    <3> QED BY <1>1, <1>11, <2>1, <2>4, <3>1, AnswersAre
  <2>5. ASSUME NEW i \in 1 .. m + n, i <= m PROVE m + k \in i .. m + n
    BY <2>5
  <2> HIDE DEF o
  <2> QED BY <1>9, <2>1, <2>3, <2>4, <2>5 DEF TextsCovered
<1> HIDE DEF h, q, a, o
<1>12. Alone(t)' /\ Fits(t)'
  BY <1>2, <1>3, <1>5, <1>6, <1>8 DEF Alone, Fits, Coming, Owed, Answered
<1>13. TextsCovered(o) \/ Count(q, Marker) > 0 \/ Count(Left(t), Marker) > 0
  <2>1. CASE h = Marker
    BY <1>2, <1>5, <1>6, <1>11, <2>1
  <2>2. CASE h # Marker
    <3>1. Last(stdin) = Marker \/ Count(Left(t), Marker) > 0
      BY <1>1 DEF Followed
    <3> QED BY <1>2, <1>5, <1>6, <1>10, <2>2, <3>1
  <2> QED BY <2>1, <2>2
<1>14. Followed(t)'
  <2>1. TextsCovered(stdout)' = TextsCovered(o)
    BY <1>3 DEF TextsCovered
  <2>2. Covered(t)' = (Count(q, Marker) > 0 \/ Count(Left(t), Marker) > 0)
    BY <1>3 DEF Covered
  <2> QED BY <1>1, <1>3, <1>10, <1>13, <2>1, <2>2 DEF Followed
<1> QED BY <1>12, <1>14


(* A script that is put before a thread when nothing is on its way.        *)
LEMMA ScriptKeeps ==
  ASSUME NEW t \in Threads, NEW s \in {StartScript[debugger]} \cup UNION {Scripts[debugger][u] : u \in Users},
         TypeInv, debugger' = debugger, step'[t] = "run", Left(t)' = s,
         Count(stdin', Marker) = 0, Count(stdout', EndOf) = 0,
         stdin' = <<>> \/ (stdin' = stdin /\ Followed(t) /\ step[t] = "idle"),
         TextsCovered(stdout')
  PROVE  Fits(t)' /\ Followed(t)'
<1>1. debugger \in Debuggers /\ EndOf' = EndOf
  BY DEF TypeInv, TypeOK, EndOf
<1>2. Count(s, Marker) = Count(s, Parse) /\ FollowedIn(s)
  BY <1>1, ScriptsAssumption DEF Count, FollowedIn
<1>3. s \in Seq(Commands \cup {Marker, Parse})
  BY <1>1, ScriptsAre DEF Script
<1>4. Count(s, Marker) \in Nat
  <2>1. Len(s) \in Nat
    BY <1>3, LenProperties
  <2> QED BY <2>1, CountIs
<1>5. Fits(t)'
  BY <1>1, <1>2, <1>4 DEF Fits, Coming, Owed, Answered
<1>6. stdin' # <<>> => Last(stdin') = Marker
  <2> SUFFICES ASSUME stdin' = stdin, Followed(t), step[t] = "idle", stdin # <<>>
               PROVE  Last(stdin) = Marker
    OBVIOUS
  <2>1. Count(Left(t), Marker) = 0
    BY Counted DEF Left
  <2> QED BY <2>1 DEF Followed
<1>7. Followed(t)'
  <2>1. TextsCovered(stdout)'
    BY <1>1 DEF TextsCovered
  <2> QED BY <1>2, <1>6, <2>1 DEF Followed
<1> QED BY <1>5, <1>7

LEMMA ChannelInvKept == OneUser /\ ChannelInv /\ [Next]_vars => ChannelInv'
<1> SUFFICES ASSUME OneUser, ChannelInv, [Next]_vars PROVE ChannelInv'
  OBVIOUS
<1> USE DEF history, reader, pipes
<1>1. TypeInv /\ TypeInv'
  BY NextKeepsTypes DEF ChannelInv
<1>2. PICK t \in Threads : Alone(t) /\ Fits(t) /\ Followed(t)
  BY DEF ChannelInv
<1>3. step \in [Threads -> Steps] /\ left \in [Threads -> Script] /\ restarts \in Nat
  BY <1>1 DEF TypeInv, TypeOK, Steps
<1>4. main \in Threads /\ main \notin Users /\ Users \subseteq {send_key, update_thread}
  BY ChannelAssumption DEF Threads
<1>5. CASE Debugger
  <2>1. restarts' = restarts
    BY <1>5 DEF Debugger
  <2> QED BY <1>1, <1>2, <1>5, <2>1, AnswerKeeps DEF ChannelInv
<1>6. CASE Restart
  <2>1. /\ send_key \in Users /\ stdin' = <<>> /\ stdout' = <<PromptOf>> /\ debugger' = debugger
        /\ step' = [step EXCEPT ![main] = "run", ![send_key] = "idle"]
        /\ left' = [left EXCEPT ![main] = StartScript[debugger]]
    BY <1>6 DEF Restart
  <2>2. step'[main] = "run" /\ Left(main)' = StartScript[debugger]
    BY <1>3, <1>4, <2>1 DEF Left
  <2>3. \A u \in Threads \ {main} : u = send_key
    BY <1>4, <2>1 DEF OneUser, Threads
  <2>4. Alone(main)'
    BY <1>3, <2>1, <2>3 DEF Alone
  <2>5. Count(stdin', Marker) = 0
    BY <1>1, <1>4, <2>1, Counted
  <2>6. PromptOf \notin Texts /\ PromptOf # EndOf
    <3>1. debugger \in Debuggers
      BY <1>1 DEF TypeInv, TypeOK
    <3> QED BY <3>1, AnswersAre DEF Ends, EndFor
  <2>7. Count(stdout', EndOf) = 0 /\ TextsCovered(stdout')
    <3> DEFINE o == <<PromptOf>>
    <3>1. Len(o) = 1 /\ o[1] = PromptOf
      OBVIOUS
    <3> HIDE DEF o
    <3>2. stdout' = o
      BY <2>1 DEF o
    <3> QED BY <2>6, <3>1, <3>2, CountIs DEF TextsCovered
  <2>8. Fits(main)' /\ Followed(main)'
    <3>1. StartScript[debugger] \in {StartScript[debugger]} \cup UNION {Scripts[debugger][w] : w \in Users}
      OBVIOUS
    <3>2. stdin' = <<>> \/ (stdin' = stdin /\ Followed(main) /\ step[main] = "idle")
      BY <2>1
    <3> QED BY <1>1, <1>4, <2>1, <2>2, <2>5, <2>7, <3>1, <3>2, ScriptKeeps
  <2> QED BY <1>1, <1>4, <2>1, <2>4, <2>8 DEF ChannelInv
<1>7. ASSUME NEW u \in Users, NEW s \in Scripts[debugger][u], Call(u, s) PROVE ChannelInv'
  <2>1. /\ stdin' = stdin /\ stdout' = stdout /\ debugger' = debugger /\ restarts' = restarts
        /\ step' = [step EXCEPT ![u] = "run"] /\ left' = [left EXCEPT ![u] = s]
        /\ step[u] = "idle" /\ ~misread
    BY <1>7 DEF Call
  <2>2. step[main] = "idle"
    <3>1. ~(u = update_thread /\ restarts > 0)
      BY <1>4 DEF ChannelInv, OneUser
    <3> QED BY <1>7, <3>1 DEF Call, Serving
  <2>3. u \in Threads /\ \A w \in Threads : w = main \/ w = u
    BY <1>4 DEF OneUser, Threads
  <2>4. \A w \in Threads : step[w] = "idle"
    BY <2>1, <2>2, <2>3
  <2>5. Count(stdin, Marker) = 0 /\ Count(stdout, EndOf) = 0 /\ Left(t) = <<>>
    <3>1. Left(t) = <<>> /\ ~Answered(t) /\ step[t] # "parse"
      BY <2>4 DEF Left, Answered
    <3>2. Coming(t) <= Owed(t)
      BY <1>2, <2>1 DEF Fits
    <3>3. /\ Count(stdin, Marker) \in Nat /\ Count(stdout, EndOf) \in Nat
          /\ Count(<<>>, Marker) = 0 /\ Count(<<>>, Parse) = 0
      BY <1>1, Counted
    <3> QED BY <3>1, <3>2, <3>3 DEF Coming, Owed
  <2>6. Left(u) = <<>>
    BY <2>1 DEF Left
  <2>7. Followed(u) /\ TextsCovered(stdout)
    BY <1>1, <1>2, <2>5, <2>6, Counted DEF Followed, Covered
  <2>8. step'[u] = "run" /\ Left(u)' = s /\ Alone(u)'
    BY <1>3, <2>1, <2>3, <2>4 DEF Left, Alone
  <2>9. EndOf' = EndOf /\ TextsCovered(stdout')
    BY <2>1, <2>7 DEF EndOf
  <2>10. Fits(u)' /\ Followed(u)'
    <3>1. s \in {StartScript[debugger]} \cup UNION {Scripts[debugger][w] : w \in Users}
      OBVIOUS
    <3> QED BY <1>1, <2>1, <2>3, <2>5, <2>7, <2>8, <2>9, <3>1, ScriptKeeps
  <2> QED BY <1>1, <2>1, <2>3, <2>8, <2>10 DEF ChannelInv
<1>8. ASSUME NEW u \in Threads, ThreadStep(u) PROVE ChannelInv'
  <2>1. step[u] # "idle" /\ restarts' = restarts
    BY <1>8 DEF ThreadStep, Send, Return, BeginParse, Read, WaitReady, ParseChunk, CheckState, Use
  <2>2. u = t
    BY <1>2, <2>1 DEF Alone
  <2> QED BY <1>1, <1>2, <1>8, <2>1, <2>2, CallKeeps DEF ChannelInv
<1>9. CASE UNCHANGED vars
  BY <1>1, <1>2, <1>9 DEF vars, ChannelInv, Alone, Fits, Followed, Coming, Owed, Answered, Left,
    TextsCovered, Covered, EndOf
<1> QED BY <1>5, <1>6, <1>7, <1>8, <1>9 DEF Next

LEMMA ChannelInitially == Init => ChannelInv
<1> SUFFICES ASSUME Init PROVE ChannelInv
  OBVIOUS
<1>1. TypeInv /\ debugger \in Debuggers
  BY InitTypes DEF TypeInv, TypeOK
<1>2. main \in Threads /\ step[main] = "run" /\ Left(main) = StartScript[debugger] /\ Alone(main)
  BY DEF Threads, Init, Left, Alone
<1>3. Count(stdin, Marker) = 0 /\ stdin = <<>>
  BY <1>1, <1>2, Counted DEF Init
<1>4. PromptOf \notin Texts /\ PromptOf # EndOf
  BY <1>1, AnswersAre DEF Ends, EndFor
<1>5. Count(stdout, EndOf) = 0 /\ TextsCovered(stdout)
  <2> DEFINE o == <<PromptOf>>
  <2>1. Len(o) = 1 /\ o[1] = PromptOf
    OBVIOUS
  <2> HIDE DEF o
  <2>2. stdout = o
    BY DEF o, Init
  <2> QED BY <1>4, <2>1, <2>2, CountIs DEF TextsCovered
<1>6. Count(Left(main), Marker) = Count(Left(main), Parse) /\ FollowedIn(Left(main))
  BY <1>1, <1>2, ScriptsAssumption DEF Count, FollowedIn
<1>7. Count(Left(main), Parse) \in Nat
  BY <1>1, <1>2, Counted
<1>8. Fits(main) /\ Followed(main)
  BY <1>2, <1>3, <1>5, <1>6, <1>7 DEF Fits, Followed, Coming, Owed, Answered
<1>9. restarts = 0
  BY DEF Init
<1> QED BY <1>1, <1>2, <1>8, <1>9 DEF ChannelInv

LEMMA CleanAtRest == ChannelInv => CleanWhenIdle
<1> SUFFICES ASSUME ChannelInv, \A t \in Threads : step[t] = "idle", ~misread
             PROVE  stdin = <<>> /\ ToSet(stdout) \cap (Texts \cup {EndOf}) = {}
  BY DEF CleanWhenIdle
<1>1. PICK t \in Threads : Fits(t) /\ Followed(t)
  BY DEF ChannelInv
<1>2. Left(t) = <<>> /\ ~Answered(t) /\ step[t] # "parse"
  BY DEF Left, Answered
<1>3. /\ Count(stdin, Marker) \in Nat /\ Count(stdout, EndOf) \in Nat
      /\ Count(<<>>, Marker) = 0 /\ Count(<<>>, Parse) = 0
  BY Counted DEF ChannelInv
<1>4. Count(stdin, Marker) = 0 /\ Count(stdout, EndOf) = 0
  <2>1. Coming(t) <= Owed(t)
    BY <1>1 DEF Fits
  <2> QED BY <1>2, <1>3, <2>1 DEF Coming, Owed
<1>5. stdin \in Seq(Commands \cup {Marker}) /\ stdout \in Seq(Pieces)
  BY DEF ChannelInv, TypeInv, TypeOK
<1>6. stdin = <<>>
  BY <1>1, <1>2, <1>3, <1>4, <1>5, EndsOf DEF Followed
<1>7. TextsCovered(stdout)
  BY <1>1, <1>2, <1>3, <1>4 DEF Followed, Covered
<1>8. \A i \in 1 .. Len(stdout) : stdout[i] # EndOf
  <2>1. Len(stdout) \in Nat
    BY <1>5, LenProperties
  <2> QED BY <1>4, <2>1, CountIs
<1>9. \A i \in 1 .. Len(stdout) : stdout[i] \notin Texts
  <2> SUFFICES ASSUME NEW i \in 1 .. Len(stdout), stdout[i] \in Texts PROVE FALSE
    OBVIOUS
  <2>1. PICK j \in i .. Len(stdout) : stdout[j] = EndOf
    BY <1>7 DEF TextsCovered
  <2>2. Len(stdout) \in Nat
    BY <1>5, LenProperties
  <2> QED BY <1>8, <2>1, <2>2
<1> QED BY <1>5, <1>6, <1>8, <1>9 DEF ToSet

(* However the output was cut into read()s, and after any restarts: as     *)
(* long as one thread uses the channel and no end marker was misread, a    *)
(* session at rest has a clean one.                                        *)
THEOREM OneUserLeavesNothing ==
  ASSUME OneUser
  PROVE  Spec => []CleanWhenIdle
<1>1. Init => ChannelInv
  BY ChannelInitially
<1>2. ChannelInv => CleanWhenIdle
  BY CleanAtRest
<1>3. ChannelInv /\ [Next]_vars => ChannelInv'
  BY ChannelInvKept
<1> QED BY <1>1, <1>2, <1>3, PTL DEF Spec


-----------------------------------------------------------------------------
(* The texts among the pieces                                              *)

TextTurn == [q \in Seq(Texts) \X Pieces |-> IF q[2] \in Texts THEN Append(q[1], q[2]) ELSE q[1]]

LEMMA TextTurns ==
  /\ IsTurn(TextTurn, Seq(Texts), Pieces)
  /\ \A q \in Seq(Texts), x \in Pieces :
       TextTurn[<<q, x>>] = IF x \in Texts THEN Append(q, x) ELSE q
<1> DEFINE next(q, x) == IF x \in Texts THEN Append(q, x) ELSE q
<1>1. ASSUME NEW q \in Seq(Texts), NEW x \in Pieces PROVE next(q, x) \in Seq(Texts)
  BY AppendProperties
<1>2. TextTurn = [q \in Seq(Texts) \X Pieces |-> next(q[1], q[2])]
  BY DEF TextTurn
<1> HIDE DEF next
<1>3. \A q \in Seq(Texts) \X Pieces : next(q[1], q[2]) \in Seq(Texts)
  BY <1>1
<1>4. TextTurn \in [Seq(Texts) \X Pieces -> Seq(Texts)]
  BY <1>2, <1>3
<1>5. \A q \in Seq(Texts), x \in Pieces : TextTurn[<<q, x>>] = next(q, x)
  BY <1>2
<1> QED BY <1>4, <1>5 DEF IsTurn, next

LEMMA TextsAreThrough ==
  ASSUME NEW s \in Seq(Pieces)
  PROVE  TextsOf(s) = Through(TextTurn, <<>>, s)
<1> DEFINE Row(f, i) == IF i = 0 THEN <<>>
                        ELSE IF s[i] \in Texts THEN Append(f[i - 1], s[i]) ELSE f[i - 1]
           Whole(f) == [i \in 0 .. Len(s) |-> Row(f, i)]
<1>1. Len(s) \in Nat /\ \A i \in 1 .. Len(s) : s[i] \in Pieces
  BY LenProperties, ElementOfSeq
<1>2. PICK e \in Seq(Texts) : e = <<>>
  BY EmptySeq
<1>3. \E f : f = Whole(f)
  <2>1. PICK g : Goes(g, TextTurn, e, s, Seq(Texts))
    BY ONLY e \in Seq(Texts), s \in Seq(Pieces), TextTurns, GoesThrough
  <2>2. g \in [0 .. Len(s) -> Seq(Texts)] /\ g[0] = <<>>
    BY <1>2, <2>1 DEF Goes
  <2>3. ASSUME NEW i \in 0 .. Len(s) PROVE g[i] = Row(g, i)
    <3>1. CASE i = 0
      BY <2>2, <3>1
    <3>2. CASE i # 0
      <4>1. g[i] = TextTurn[<<g[i - 1], s[i]>>] /\ g[i - 1] \in Seq(Texts) /\ s[i] \in Pieces
        BY <1>1, <2>1, <3>2 DEF Goes
      <4> QED BY <3>2, <4>1, TextTurns
    <3> QED BY <3>1, <3>2
  <2> HIDE DEF Row
  <2>4. g = Whole(g)
    BY <2>2, <2>3
  <2> QED BY <2>4
<1>4. PICK texts : texts = Whole(texts) /\ TextsOf(s) = texts[Len(s)]
  BY <1>3 DEF TextsOf
<1>5. \A i \in 0 .. Len(s) : texts[i] = Row(texts, i)
  <2> DEFINE h == Whole(texts)
  <2> HIDE DEF Row
  <2>1. \A i \in 0 .. Len(s) : h[i] = Row(texts, i)
    OBVIOUS
  <2>2. texts = h
    BY <1>4
  <2> HIDE DEF h
  <2> QED BY <2>1, <2>2
<1>6. texts[0] = e
  BY <1>1, <1>2, <1>5
<1>7. ASSUME NEW i \in 1 .. Len(s), texts[i - 1] \in Seq(Texts)
      PROVE  texts[i] = TextTurn[<<texts[i - 1], s[i]>>]
  <2>1. i \in 0 .. Len(s) /\ i # 0 /\ s[i] \in Pieces
    BY <1>1
  <2>2. texts[i] = IF s[i] \in Texts THEN Append(texts[i - 1], s[i]) ELSE texts[i - 1]
    BY <1>5, <2>1
  <2> QED BY <1>7, <2>1, <2>2, TextTurns
<1> HIDE DEF Row, Whole
<1>8. texts[Len(s)] = Through(TextTurn, e, s)
  BY <1>6, <1>7, TextTurns, ByTurns
<1> QED BY <1>2, <1>4, <1>8

LEMMA TextsAre ==
  ASSUME NEW s \in Seq(Pieces)
  PROVE  /\ TextsOf(s) \in Seq(Texts)
         /\ TextsOf(<<>>) = <<>>
         /\ \A x \in Pieces : TextsOf(Append(s, x)) = IF x \in Texts THEN Append(TextsOf(s), x) ELSE TextsOf(s)
<1>1. PICK e \in Seq(Texts) : e = <<>>
  BY EmptySeq
<1>2. PICK n \in Seq(Pieces) : n = <<>>
  BY EmptySeq
<1>3. Through(TextTurn, e, s) \in Seq(Texts)
  BY TextTurns, ThroughType
<1>4. TextsOf(s) = Through(TextTurn, e, s) /\ TextsOf(n) = Through(TextTurn, e, n)
  BY <1>1, TextsAreThrough
<1>5. ASSUME NEW x \in Pieces
      PROVE  TextsOf(Append(s, x)) = IF x \in Texts THEN Append(TextsOf(s), x) ELSE TextsOf(s)
  <2> DEFINE u == Append(s, x)
  <2>1. u \in Seq(Pieces)
    BY AppendProperties
  <2>2. Through(TextTurn, e, u) = TextTurn[<<Through(TextTurn, e, s), x>>]
    BY TextTurns, ThroughAppend
  <2> HIDE DEF u
  <2>3. TextsOf(u) = Through(TextTurn, e, u)
    BY <1>1, <2>1, TextsAreThrough
  <2>4. TextsOf(u) = TextTurn[<<TextsOf(s), x>>] /\ TextsOf(s) \in Seq(Texts)
    BY <1>3, <1>4, <2>2, <2>3
  <2> QED BY <2>4, TextTurns DEF u
<1>6. Through(TextTurn, e, <<>>) = e
  BY TextTurns, ThroughNone
<1> QED BY <1>1, <1>2, <1>3, <1>4, <1>5, <1>6


-----------------------------------------------------------------------------
(* Sequences that are put in the place of each element and flattened       *)

FlatMap(m, q) == FlattenSeq([i \in DOMAIN q |-> m[q[i]]])
MapTurn(m, E, S) == [q \in Seq(S) \X E |-> q[1] \o m[q[2]]]
IsMap(m, E, S) == m \in [E -> Seq(S)]

LEMMA MapTurns ==
  ASSUME NEW E, NEW S, NEW m, IsMap(m, E, S)
  PROVE  /\ IsTurn(MapTurn(m, E, S), Seq(S), E)
         /\ \A s \in Seq(S), x \in E : MapTurn(m, E, S)[<<s, x>>] = s \o m[x]
<1> DEFINE D == Seq(S)
<1>1. \A s, t \in D : s \o t \in D
  BY ConcatProperties
<1>2. MapTurn(m, E, S) = [q \in D \X E |-> q[1] \o m[q[2]]] /\ \A x \in E : m[x] \in D
  BY DEF MapTurn, IsMap
<1> HIDE DEF D
<1>3. \A q \in D \X E : q[1] \o m[q[2]] \in D
  BY <1>1, <1>2
<1>4. MapTurn(m, E, S) \in [D \X E -> D]
  BY <1>2, <1>3
<1>5. \A s \in D, x \in E : MapTurn(m, E, S)[<<s, x>>] = s \o m[x]
  BY <1>2
<1> QED BY <1>4, <1>5 DEF IsTurn, D

LEMMA FlatMapIsThrough ==
  ASSUME NEW E, NEW S, NEW m, IsMap(m, E, S), NEW q \in Seq(E)
  PROVE  FlatMap(m, q) = Through(MapTurn(m, E, S), <<>>, q)
<1> DEFINE D == Seq(S)
           ss == [i \in DOMAIN q |-> m[q[i]]]
<1>1. PICK n \in Nat : n = Len(q) /\ DOMAIN q = 1 .. n /\ \A i \in 1 .. n : q[i] \in E
  BY LenProperties, ElementOfSeq
<1>2. PICK e \in D : e = <<>>
  BY EmptySeq
<1>3. \A i \in 1 .. n : m[q[i]] \in D
  BY <1>1 DEF IsMap
<1> HIDE DEF D
<1>4. ss \in Seq(D) /\ Len(ss) = n /\ \A i \in 1 .. n : ss[i] = m[q[i]]
  <2>1. [i \in 1 .. n |-> m[q[i]]] \in Seq(D)
    BY <1>3, IsASeq
  <2>2. ss = [i \in 1 .. n |-> m[q[i]]]
    BY <1>1
  <2>3. Len([i \in 1 .. n |-> m[q[i]]]) = n
    OBVIOUS
  <2> QED BY <2>1, <2>2, <2>3
<1>5. FlatMap(m, q) = FlattenSeq(ss)
  BY DEF FlatMap
<1> HIDE DEF ss
<1>6. FlattenSeq(ss) = Through(ConcatTurn(S), e, ss)
  BY <1>2, <1>4, FlattenIsThrough DEF D
<1>7. IsTurn(ConcatTurn(S), D, D) /\ IsTurn(MapTurn(m, E, S), D, E)
  BY ConcatTurns, MapTurns DEF D
<1>8. PICK f : Goes(f, ConcatTurn(S), e, ss, D) /\ Through(ConcatTurn(S), e, ss) = f[Len(ss)]
  BY ONLY <1>4, <1>7, e \in D, GoesThrough
<1>9. f[0] = e
  BY <1>8 DEF Goes
<1>10. ASSUME NEW i \in 1 .. Len(q), f[i - 1] \in D PROVE f[i] = MapTurn(m, E, S)[<<f[i - 1], q[i]>>]
  <2>1. f[i] = ConcatTurn(S)[<<f[i - 1], ss[i]>>] /\ ss[i] = m[q[i]] /\ ss[i] \in D /\ q[i] \in E
    BY <1>1, <1>3, <1>4, <1>8 DEF Goes
  <2>2. ConcatTurn(S)[<<f[i - 1], ss[i]>>] = f[i - 1] \o ss[i]
    BY <1>10, <2>1, ConcatTurns DEF D
  <2>3. MapTurn(m, E, S)[<<f[i - 1], q[i]>>] = f[i - 1] \o m[q[i]]
    <3>1. /\ IsTurn(MapTurn(m, E, S), D, E)
          /\ \A s \in D, x \in E : MapTurn(m, E, S)[<<s, x>>] = s \o m[x]
      BY MapTurns DEF D
    <3> QED BY <1>10, <2>1, <3>1
  <2> QED BY <2>1, <2>2, <2>3
<1>11. f[Len(q)] = Through(MapTurn(m, E, S), e, q)
  BY ONLY <1>7, <1>9, <1>10, e \in D, q \in Seq(E), ByTurns
<1> QED BY <1>1, <1>2, <1>4, <1>5, <1>6, <1>8, <1>11

LEMMA FlatMapType ==
  ASSUME NEW E, NEW S, NEW m, IsMap(m, E, S), NEW q \in Seq(E)
  PROVE  FlatMap(m, q) \in Seq(S)
<1>1. PICK e \in Seq(S) : e = <<>>
  BY EmptySeq
<1>2. FlatMap(m, q) = Through(MapTurn(m, E, S), e, q)
  BY <1>1, FlatMapIsThrough
<1> QED BY <1>2, MapTurns, ThroughType

LEMMA FlatMapNone ==
  ASSUME NEW E, NEW S, NEW m, IsMap(m, E, S)
  PROVE  FlatMap(m, <<>>) = <<>>
<1>1. PICK e \in Seq(S) : e = <<>>
  BY EmptySeq
<1>2. PICK q \in Seq(E) : q = <<>>
  BY EmptySeq
<1>3. FlatMap(m, q) = Through(MapTurn(m, E, S), e, q)
  BY <1>1, FlatMapIsThrough
<1>4. Through(MapTurn(m, E, S), e, <<>>) = e
  BY MapTurns, ThroughNone
<1> QED BY <1>1, <1>2, <1>3, <1>4

LEMMA FlatMapAppend ==
  ASSUME NEW E, NEW S, NEW m, IsMap(m, E, S), NEW q \in Seq(E), NEW x \in E
  PROVE  FlatMap(m, Append(q, x)) = FlatMap(m, q) \o m[x]
<1> DEFINE u == Append(q, x)
<1>1. PICK e \in Seq(S) : e = <<>>
  BY EmptySeq
<1>2. u \in Seq(E)
  BY AppendProperties
<1>3. Through(MapTurn(m, E, S), e, u) = MapTurn(m, E, S)[<<Through(MapTurn(m, E, S), e, q), x>>]
  BY MapTurns, ThroughAppend
<1> HIDE DEF u
<1>4. FlatMap(m, u) = Through(MapTurn(m, E, S), e, u) /\ FlatMap(m, q) = Through(MapTurn(m, E, S), e, q)
  BY <1>1, <1>2, FlatMapIsThrough
<1>5. FlatMap(m, q) \in Seq(S)
  BY FlatMapType
<1>6. MapTurn(m, E, S)[<<FlatMap(m, q), x>>] = FlatMap(m, q) \o m[x]
  <2>1. /\ IsTurn(MapTurn(m, E, S), Seq(S), E)
        /\ \A s \in Seq(S), y \in E : MapTurn(m, E, S)[<<s, y>>] = s \o m[y]
    BY MapTurns
  <2> QED BY <1>5, <2>1
<1> QED BY <1>3, <1>4, <1>6 DEF u

(* What was there before stays in front.                                   *)
LEMMA MapBehind ==
  ASSUME NEW E, NEW S, NEW m, IsMap(m, E, S), NEW a \in Seq(S), NEW q \in Seq(E)
  PROVE  Through(MapTurn(m, E, S), a, q) = a \o FlatMap(m, q)
<1> DEFINE D == Seq(S)
           turn == MapTurn(m, E, S)
<1>1. PICK e \in D : e = <<>>
  BY EmptySeq
<1>2. IsTurn(turn, D, E) /\ \A s \in D, x \in E : turn[<<s, x>>] = s \o m[x]
  BY MapTurns
<1>3. FlatMap(m, q) = Through(turn, e, q)
  BY <1>1, FlatMapIsThrough
<1>4. a \o e = a /\ \A s, t \in D : a \o s \in D /\ a \o (s \o t) = (a \o s) \o t
  BY <1>1, ConcatEmptySeq, ConcatProperties, ConcatAssociative
<1>5. a \in D /\ \A x \in E : m[x] \in D
  BY DEF IsMap
<1> HIDE DEF D, turn
<1>6. PICK f : Goes(f, turn, e, q, D) /\ Through(turn, e, q) = f[Len(q)]
  BY ONLY <1>2, e \in D, q \in Seq(E), GoesThrough
<1>7. Len(q) \in Nat /\ \A i \in 1 .. Len(q) : q[i] \in E
  BY LenProperties, ElementOfSeq
<1> DEFINE g == [i \in 0 .. Len(q) |-> a \o f[i]]
<1>8. f \in [0 .. Len(q) -> D] /\ f[0] = e /\ \A i \in 1 .. Len(q) : f[i] = turn[<<f[i - 1], q[i]>>]
  BY <1>6 DEF Goes
<1>9. g[0] = a /\ g[Len(q)] = a \o f[Len(q)]
  BY <1>4, <1>7, <1>8
<1>10. ASSUME NEW i \in 1 .. Len(q) PROVE g[i] = turn[<<g[i - 1], q[i]>>]
  <2>1. i \in 0 .. Len(q) /\ i - 1 \in 0 .. Len(q) /\ f[i - 1] \in D /\ q[i] \in E
    BY <1>7, <1>8
  <2>2. g[i] = a \o f[i] /\ g[i - 1] = a \o f[i - 1]
    BY <2>1
  <2> HIDE DEF g
  <2>3. f[i] = f[i - 1] \o m[q[i]] /\ m[q[i]] \in D
    BY <1>2, <1>5, <1>8, <2>1
  <2>4. a \o f[i - 1] \in D /\ a \o (f[i - 1] \o m[q[i]]) = (a \o f[i - 1]) \o m[q[i]]
    BY <1>4, <2>1, <2>3
  <2>5. turn[<<a \o f[i - 1], q[i]>>] = (a \o f[i - 1]) \o m[q[i]]
    BY <1>2, <2>1, <2>4
  <2> QED BY <2>2, <2>3, <2>4, <2>5
<1> HIDE DEF g
<1>11. g[Len(q)] = Through(turn, a, q)
  BY ONLY <1>2, <1>5, <1>9, <1>10, q \in Seq(E), ByTurns, SMTT(30)
<1> QED BY <1>3, <1>6, <1>9, <1>11 DEF turn

LEMMA FlatMapConcat ==
  ASSUME NEW E, NEW S, NEW m, IsMap(m, E, S), NEW q \in Seq(E), NEW r \in Seq(E)
  PROVE  FlatMap(m, q \o r) = FlatMap(m, q) \o FlatMap(m, r)
<1> DEFINE u == q \o r
<1>1. PICK e \in Seq(S) : e = <<>>
  BY EmptySeq
<1>2. u \in Seq(E)
  BY ConcatProperties
<1>3. Through(MapTurn(m, E, S), e, u) = Through(MapTurn(m, E, S), Through(MapTurn(m, E, S), e, q), r)
  BY MapTurns, ThroughConcat
<1> HIDE DEF u
<1>4. FlatMap(m, u) = Through(MapTurn(m, E, S), e, u) /\ FlatMap(m, q) = Through(MapTurn(m, E, S), e, q)
  BY <1>1, <1>2, FlatMapIsThrough
<1>5. FlatMap(m, q) \in Seq(S)
  BY FlatMapType
<1>6. Through(MapTurn(m, E, S), FlatMap(m, q), r) = FlatMap(m, q) \o FlatMap(m, r)
  BY <1>5, MapBehind
<1> QED BY <1>3, <1>4, <1>6 DEF u

-----------------------------------------------------------------------------
(* What a parser makes of a line, an answer and a call's answers           *)

LEMMA AfterType ==
  ASSUME NEW d \in {"GDB", "PDB"}, NEW p \in ParserState(d), NEW s \in Seq(Pieces)
  PROVE  After(d, p, s) \in ParserState(d)
BY PieceTurns, ThroughType DEF After

LEMMA AfterNone ==
  ASSUME NEW d \in {"GDB", "PDB"}, NEW p \in ParserState(d)
  PROVE  After(d, p, <<>>) = p
BY PieceTurns, ThroughNone DEF After

LEMMA AfterConcat ==
  ASSUME NEW d \in {"GDB", "PDB"}, NEW p \in ParserState(d), NEW s \in Seq(Pieces), NEW t \in Seq(Pieces)
  PROVE  After(d, p, s \o t) = After(d, After(d, p, s), t)
BY PieceTurns, ThroughConcat DEF After

LEMMA AfterOne ==
  ASSUME NEW d \in {"GDB", "PDB"}, NEW p \in ParserState(d), NEW x \in Pieces
  PROVE  After(d, p, <<x>>) = Piece(d, p, x)
<1>1. PieceTurn(d)[<<p, x>>] = Piece(d, p, x)
  BY PieceTurns
<1>2. Through(PieceTurn(d), p, <<x>>) = PieceTurn(d)[<<p, x>>]
  BY PieceTurns, ThroughElement
<1> QED BY <1>1, <1>2 DEF After

LEMMA AfterTwo ==
  ASSUME NEW d \in {"GDB", "PDB"}, NEW p \in ParserState(d), NEW x \in Pieces, NEW y \in Pieces
  PROVE  After(d, p, <<x, y>>) = Piece(d, Piece(d, p, x), y)
<1> DEFINE e == <<x, y>>
           PS == ParserState(d)
<1>0. e \in Seq(Pieces)
  OBVIOUS
<1>1. Len(e) = 2 /\ e[1] = x /\ e[2] = y
  OBVIOUS
<1>2. IsTurn(PieceTurn(d), PS, Pieces) /\ p \in PS
  BY PieceTurns
<1> HIDE DEF e, PS
<1>3. PICK f : Goes(f, PieceTurn(d), p, e, PS) /\ Through(PieceTurn(d), p, e) = f[Len(e)]
  BY ONLY <1>0, <1>2, GoesThrough
<1>4. /\ f \in [0 .. 2 -> PS] /\ f[0] = p
      /\ \A i \in 1 .. 2 : f[i] = PieceTurn(d)[<<f[i - 1], e[i]>>]
  BY <1>1, <1>3 DEF Goes
<1>5. f[1] \in PS /\ f[1] = PieceTurn(d)[<<f[0], x>>] /\ f[2] = PieceTurn(d)[<<f[1], y>>]
  BY <1>1, <1>4
<1>6. f[1] = Piece(d, p, x) /\ f[2] = Piece(d, f[1], y)
  BY <1>4, <1>5, PieceTurns DEF PS
<1> QED BY <1>1, <1>3, <1>6 DEF After, e

(* Once a parser has found the end marker, or hangs, nothing changes.      *)
LEMMA AfterEnded ==
  ASSUME NEW d \in {"GDB", "PDB"}, NEW p \in ParserState(d), p.status # "RECEIVING", NEW s \in Seq(Pieces)
  PROVE  After(d, p, s) = p
<1> DEFINE P == {p}
<1>1. ASSUME NEW q \in P, NEW i \in 1 .. Len(s) PROVE PieceTurn(d)[<<q, s[i]>>] \in P
  <2>1. s[i] \in Pieces /\ q = p
    BY ElementOfSeq
  <2>2. Piece(d, p, s[i]) = p
    BY DEF Piece, GdbPiece, PdbPiece
  <2>3. PieceTurn(d)[<<p, s[i]>>] = Piece(d, p, s[i])
    BY <2>1, PieceTurns
  <2> QED BY <2>1, <2>2, <2>3
<1>2. P \in SUBSET ParserState(d) /\ p \in P /\ IsTurn(PieceTurn(d), ParserState(d), Pieces)
  BY PieceTurns
<1> HIDE DEF P
<1>3. Through(PieceTurn(d), p, s) \in P
  BY ONLY <1>1, <1>2, s \in Seq(Pieces), ThroughInside
<1> QED BY <1>3 DEF P, After

(* What buffers show of lines.                                             *)
Shows(out, lines) == \A b \in Buffers : TextsOf(out[b]) = TextsOf(PrintedIn(b, lines))

LEMMA PrintedIs ==
  ASSUME NEW b, NEW lines \in Seq(Line)
  PROVE  /\ PrintedIn(b, lines) \in Seq(Pieces)
         /\ \A l \in Line :
              PrintedIn(b, Append(lines, l)) =
                Append(PrintedIn(b, lines), IF LineBuffer[l.begins] = b THEN l.text ELSE Newline)
<1> DEFINE piece(l) == IF LineBuffer[l.begins] = b THEN l.text ELSE Newline
<1>1. \A l \in Line : piece(l) \in Pieces
  BY DEF Line, Pieces
<1>2. /\ Len(lines) \in Nat /\ DOMAIN lines = 1 .. Len(lines)
      /\ \A i \in 1 .. Len(lines) : lines[i] \in Line
  BY LenProperties, ElementOfSeq
<1>3. PrintedIn(b, lines) = [i \in 1 .. Len(lines) |-> piece(lines[i])]
  BY <1>2 DEF PrintedIn
<1> HIDE DEF piece
<1>4. PrintedIn(b, lines) \in Seq(Pieces) /\ Len(PrintedIn(b, lines)) = Len(lines)
  <2>1. [i \in 1 .. Len(lines) |-> piece(lines[i])] \in Seq(Pieces)
    BY <1>1, <1>2, IsASeq
  <2>2. Len([i \in 1 .. Len(lines) |-> piece(lines[i])]) = Len(lines)
    BY <1>2
  <2> QED BY <1>3, <2>1, <2>2
<1>5. ASSUME NEW l \in Line PROVE PrintedIn(b, Append(lines, l)) = Append(PrintedIn(b, lines), piece(l))
  <2> DEFINE u == Append(lines, l)
             p == PrintedIn(b, lines)
             v == Append(p, piece(l))
  <2>1. /\ u \in Seq(Line) /\ Len(u) = Len(lines) + 1 /\ DOMAIN u = 1 .. Len(u)
        /\ u[Len(lines) + 1] = l /\ \A i \in 1 .. Len(lines) : u[i] = lines[i]
    BY AppendProperties, LenProperties
  <2>2. p \in Seq(Pieces) /\ Len(p) = Len(lines) /\ \A i \in 1 .. Len(lines) : p[i] = piece(lines[i])
    BY <1>3, <1>4
  <2> HIDE DEF p
  <2>3. /\ v \in Seq(Pieces) /\ Len(v) = Len(lines) + 1 /\ DOMAIN v = 1 .. Len(v)
        /\ v[Len(lines) + 1] = piece(l) /\ \A i \in 1 .. Len(lines) : v[i] = piece(lines[i])
    BY <1>1, <2>2, AppendProperties, LenProperties
  <2>4. PrintedIn(b, u) = [i \in 1 .. Len(lines) + 1 |-> piece(u[i])]
    BY <2>1 DEF PrintedIn, piece
  <2> HIDE DEF u, v
  <2>5. v = [i \in 1 .. Len(lines) + 1 |-> v[i]]
    BY <2>3
  <2>6. \A i \in 1 .. Len(lines) + 1 : v[i] = piece(u[i])
    BY <1>2, <2>1, <2>3
  <2> QED BY <2>4, <2>5, <2>6 DEF u, v, p
<1> QED BY <1>4, <1>5 DEF piece


(* A piece leaves a state that is in the middle of l, and what it adds to  *)
(* the texts is x in buffer b.                                             *)
Moves(d, p, q, l, b, x) ==
  /\ q \in ParserState(d) /\ q.line = l /\ q.status = "RECEIVING"
  /\ \A c \in Buffers : TextsOf(q.out[c]) = IF c = b /\ x \in Texts THEN Append(TextsOf(p.out[c]), x)
                                            ELSE TextsOf(p.out[c])

LEMMA MovesIs ==
  ASSUME NEW d, NEW p \in ParserState(d), p.status = "RECEIVING", NEW b, NEW x \in Pieces,
         NEW l \in LineStates(d)
  PROVE  /\ Moves(d, p, Copy(p, b, x), p.line, b, x)
         /\ Moves(d, p, [Copy(p, b, x) EXCEPT !.line = l], l, b, x)
         /\ x \notin Texts => Moves(d, p, [p EXCEPT !.line = l], l, b, x)
<1> DEFINE q == Copy(p, b, x)
<1>1. q \in ParserState(d) /\ q.line = p.line /\ q.status = "RECEIVING"
  BY CopyKeeps
<1>2. p.out \in [Buffers -> Seq(Pieces)]
  BY DEF ParserState
<1>3. ASSUME NEW c \in Buffers
      PROVE  TextsOf(q.out[c]) = IF c = b /\ x \in Texts THEN Append(TextsOf(p.out[c]), x)
                                 ELSE TextsOf(p.out[c])
  <2>1. p.out[c] \in Seq(Pieces)
    BY <1>2
  <2>2. q.out[c] = IF c = b THEN Append(p.out[c], x) ELSE p.out[c]
    BY <1>2 DEF Copy, ParserState
  <2>3. TextsOf(Append(p.out[c], x)) = IF x \in Texts THEN Append(TextsOf(p.out[c]), x) ELSE TextsOf(p.out[c])
    BY <2>1, TextsAre
  <2> QED BY <2>2, <2>3
<1> HIDE DEF q
<1>4. ASSUME NEW r \in ParserState(d)
      PROVE  /\ [r EXCEPT !.line = l] \in ParserState(d) /\ [r EXCEPT !.line = l].line = l
             /\ [r EXCEPT !.line = l].status = r.status /\ [r EXCEPT !.line = l].out = r.out
  BY DEF ParserState
<1> QED BY <1>1, <1>3, <1>4 DEF Moves, q

LEMMA MovesCopy ==
  ASSUME NEW d, NEW p \in ParserState(d), p.status = "RECEIVING", NEW b, NEW x \in Pieces
  PROVE  Moves(d, p, Copy(p, b, x), p.line, b, x)
<1>1. p.line \in LineStates(d)
  BY DEF ParserState
<1> QED BY <1>1, MovesIs

LEMMA MovesCopyTo ==
  ASSUME NEW d, NEW p \in ParserState(d), p.status = "RECEIVING", NEW b, NEW x \in Pieces,
         NEW l \in LineStates(d)
  PROVE  Moves(d, p, [Copy(p, b, x) EXCEPT !.line = l], l, b, x)
BY MovesIs

LEMMA MovesTo ==
  ASSUME NEW d, NEW p \in ParserState(d), p.status = "RECEIVING", NEW b, NEW x \in Pieces \ Texts,
         NEW l \in LineStates(d)
  PROVE  Moves(d, p, [p EXCEPT !.line = l], l, b, x)
BY MovesIs

(* What stands in a line, and that a line of a debugger begins its own way.*)
LineOf(l, d) == l \in Line /\ (l.begins = "program" \/ (l.begins \in DOMAIN GdbPrefix <=> d = "GDB"))

LEMMA LineOfIs ==
  ASSUME NEW d \in {"GDB", "PDB"}, NEW l, LineOf(l, d)
  PROVE  /\ l.text \in Texts \cup {Done, Escape} /\ l.text \in Pieces
         /\ Newline \in Pieces \ Texts
         /\ l.begins # "program" => l.begins \in Pieces \ Texts
         /\ d = "GDB" /\ l.begins # "program" => l.begins \in DOMAIN GdbPrefix
         /\ d = "PDB" /\ l.begins # "program" => l.begins \in {Arrow, Where, Quote}
<1>1. l.text \in Texts \cup {Done, Escape} /\ l.begins \in DOMAIN GdbPrefix \cup {Arrow, Where, Quote, "program"}
  BY DEF LineOf, Line, LineBuffer
<1>2. Newline \in Pieces /\ \A x \in Texts \cup {Done, Escape} : x \in Pieces
  BY DEF Pieces
<1>3. \A x \in DOMAIN GdbPrefix \cup {Arrow, Where, Quote} : x \in Pieces
  BY DEF Pieces
<1>4. Newline \notin Texts /\ \A x \in DOMAIN GdbPrefix \cup {Arrow, Where, Quote} : x \notin Texts
  BY TextsAssumption
<1> QED BY <1>1, <1>2, <1>3, <1>4 DEF LineOf

(* GDB: each line is in the buffer its first character says.               *)
LEMMA GdbLineMoves ==
  ASSUME NEW l, LineOf(l, "GDB"), NEW out \in [Buffers -> Seq(Pieces)]
  PROVE  LET q == After("GDB", AtStart(out), LinePieces(l))
         IN q.status = "LOOPS" \/ Moves("GDB", AtStart(out), q, "start", LineBuffer[l.begins], l.text)
<1> DEFINE d == "GDB"
           p == AtStart(out)
           x == l.text
           PS == ParserState(d)
           b == LineBuffer[l.begins]
           e == <<x, Newline>>
<1>0. d \in {"GDB", "PDB"}
  OBVIOUS
<1>1. p \in PS /\ p.line = "start" /\ p.out = out /\ p.status = "RECEIVING"
  BY AtStartIs
<1>2. x \in Texts \cup {Done, Escape} /\ x \in Pieces /\ Newline \in Pieces \ Texts
  BY LineOfIs
<1>3. e \in Seq(Pieces)
  BY <1>2
<1>4. {"start", "none", "program", "cli", "data", "async"} \subseteq LineStates(d)
  BY DEF LineStates
<1>5. x \notin {Newline, GdbPrompt} /\ x # GdbEnd /\ x \notin DOMAIN GdbPrefix /\ Escape \notin Texts \cup {Done}
  <2>1. Escape \notin {Newline, GdbPrompt, GdbEnd, Done} \cup DOMAIN GdbPrefix
    BY DEF Escape, Newline, GdbPrompt, GdbEnd, GdbPrefix, Done
  <2>2. Done \notin {Newline, GdbPrompt, GdbEnd} \cup DOMAIN GdbPrefix
    BY DEF Done, Newline, GdbPrompt, GdbEnd, GdbPrefix
  <2> QED BY <1>2, <2>1, <2>2, TextsAssumption
(* The newline ends the line.                                              *)
<1>6. ASSUME NEW q \in PS, q.status = "RECEIVING", NEW c, NEW k, Moves(d, p, q, k, c, x)
      PROVE  Moves(d, p, Piece(d, q, Newline), "start", c, x)
  <2>1. Piece(d, q, Newline) = [Copy(q, q.line, Newline) EXCEPT !.line = "start"]
    BY <1>6 DEF Piece, GdbPiece
  <2>2. Moves(d, q, Piece(d, q, Newline), "start", q.line, Newline)
    BY <1>2, <1>4, <1>6, <2>1, MovesCopyTo
  <2> QED BY <1>2, <1>6, <2>2 DEF Moves
<1>7. CASE l.begins = "program"
  <2>1. LinePieces(l) = e /\ b = "program"
    <3>1. <<>> \o e = e
      BY <1>3, ConcatEmptySeq
    <3>2. b = "program"
      BY <1>7 DEF LineBuffer, GdbPrefix, Arrow, Where
    <3> QED BY <1>7, <3>1, <3>2 DEF LinePieces
  <2> DEFINE q == Piece(d, p, x)
  <2>2. q \in PS /\ After(d, p, e) = Piece(d, q, Newline)
    BY <1>0, <1>1, <1>2, AfterTwo, PieceKeeps DEF Keeps
  <2>3. \E k : Moves(d, p, q, k, "program", x)
    <3>1. CASE x = Escape
      <4>1. q = [p EXCEPT !.line = "none"]
        BY <1>1, <1>5, <3>1 DEF Piece, GdbPiece
      <4>2. x \notin Texts
        BY <1>5, <3>1
      <4> HIDE DEF q, p
      <4> QED BY <1>1, <1>2, <1>4, <4>1, <4>2, MovesTo
    <3>2. CASE x # Escape
      <4>1. q = [Copy(p, "program", x) EXCEPT !.line = "program"]
        BY <1>1, <1>2, <1>5, <3>2 DEF Piece, GdbPiece
      <4> HIDE DEF q, p
      <4> QED BY <1>1, <1>2, <1>4, <4>1, MovesCopyTo
    <3> QED BY <3>1, <3>2
  <2>4. q.status = "RECEIVING"
    BY <2>3 DEF Moves
  <2> HIDE DEF q
  <2>5. Moves(d, p, Piece(d, q, Newline), "start", "program", x)
    BY <1>6, <2>2, <2>3, <2>4
  <2> QED BY <2>1, <2>2, <2>5
<1>8. CASE l.begins # "program"
  <2> DEFINE y == l.begins
             h == <<y>>
  <2>1. y \in DOMAIN GdbPrefix /\ y \in Pieces \ Texts
    BY <1>8, LineOfIs
  <2>2. LinePieces(l) = h \o e /\ h \in Seq(Pieces)
    BY <1>8, <2>1 DEF LinePieces
  <2>3. b = GdbPrefix[y] /\ b \in {"cli", "data", "async"}
    <3>1. b = GdbPrefix[y]
      BY <2>1 DEF LineBuffer
    <3> QED BY <2>1, <3>1 DEF GdbPrefix
  <2> DEFINE p1 == Piece(d, p, y)
             q == Piece(d, p1, x)
  <2>4. p1 \in PS /\ After(d, p, h) = p1
    BY <1>0, <1>1, <2>1, AfterOne, PieceKeeps DEF Keeps
  <2>5. q \in PS /\ After(d, p1, e) = Piece(d, q, Newline)
    BY <1>0, <1>2, <2>4, AfterTwo, PieceKeeps DEF Keeps
  <2>6. After(d, p, LinePieces(l)) = Piece(d, q, Newline)
    <3>1. After(d, p, h \o e) = After(d, After(d, p, h), e)
      BY <1>0, <1>1, <1>3, <2>2, AfterConcat
    <3> QED BY <2>2, <2>4, <2>5, <3>1
  <2>7. p1 = [p EXCEPT !.line = b]
    <3>1. y \notin {Newline, GdbPrompt} /\ y \notin Texts \cup {Done}
      BY <2>1 DEF GdbPrefix, Newline, GdbPrompt, Done
    <3> QED BY <1>1, <2>1, <2>3, <3>1 DEF Piece, GdbPiece
  <2>8. Moves(d, p, p1, b, "none", y)
    BY <1>1, <1>4, <2>1, <2>3, <2>7, MovesTo
  <2>9. p1.line = b /\ p1.status = "RECEIVING"
    BY <2>8 DEF Moves
  <2>10. CASE b = "cli" /\ x = Escape
    <3>1. q = [p1 EXCEPT !.status = "LOOPS"]
      BY <1>5, <2>3, <2>9, <2>10 DEF Piece, GdbPiece
    <3>2. q.status = "LOOPS"
      BY <2>4, <3>1 DEF ParserState
    <3>3. Piece(d, q, Newline) = q
      BY <3>2 DEF Piece, GdbPiece
    <3> QED BY <2>6, <3>2, <3>3
  <2>11. CASE ~(b = "cli" /\ x = Escape)
    <3>1. q = Copy(p1, b, x)
      BY <1>5, <2>3, <2>9, <2>11 DEF Piece, GdbPiece
    <3>2. Moves(d, p1, q, b, b, x)
      BY <1>2, <1>4, <2>4, <2>9, <3>1, MovesCopy
    <3>3. Moves(d, p, q, b, b, x) /\ q.status = "RECEIVING"
      BY <2>1, <2>8, <3>2 DEF Moves
    <3> HIDE DEF q
    <3>4. Moves(d, p, Piece(d, q, Newline), "start", b, x)
      BY <1>6, <2>5, <3>3
    <3> QED BY <2>6, <3>4
  <2> QED BY <2>10, <2>11
<1> QED BY <1>7, <1>8


(* PDB: its own lines are in cli_buffer, the others in program_buffer.     *)
LEMMA PdbLineMoves ==
  ASSUME NEW l, LineOf(l, "PDB"), NEW out \in [Buffers -> Seq(Pieces)]
  PROVE  LET q == After("PDB", AtStart(out), LinePieces(l))
         IN q.status = "LOOPS" \/ Moves("PDB", AtStart(out), q, "start", LineBuffer[l.begins], l.text)
<1> DEFINE d == "PDB"
           p == AtStart(out)
           x == l.text
           PS == ParserState(d)
           b == LineBuffer[l.begins]
           e == <<x, Newline>>
<1>0. d \in {"GDB", "PDB"}
  OBVIOUS
<1>1. p \in PS /\ p.line = "start" /\ p.out = out /\ p.status = "RECEIVING"
  BY AtStartIs
<1>2. x \in Texts \cup {Done, Escape} /\ x \in Pieces /\ Newline \in Pieces \ Texts
  BY LineOfIs
<1>3. e \in Seq(Pieces)
  BY <1>2
<1>4. {"start", "cli", "arrow", "program"} \subseteq LineStates(d)
  BY DEF LineStates
<1>5. x \notin {Arrow, Where, PdbPrompt, PdbEnd, Quote, Newline}
  <2>1. {Escape, Done} \cap {Arrow, Where, PdbPrompt, PdbEnd, Quote, Newline} = {}
    BY DEF Escape, Done, Arrow, Where, PdbPrompt, PdbEnd, Quote, Newline
  <2> QED BY <1>2, <2>1, TextsAssumption
(* Inside a line everything is copied, up to the newline.                  *)
<1>6. ASSUME NEW q \in PS, q.status = "RECEIVING", q.line \in {"cli", "arrow", "program"}, NEW y \in Pieces
      PROVE  Moves(d, q, Piece(d, q, y), IF y = Newline THEN "start" ELSE q.line,
                   IF q.line = "program" THEN "program" ELSE "cli", y)
  <2> DEFINE k == IF y = Newline THEN "start" ELSE q.line
             c == IF q.line = "program" THEN "program" ELSE "cli"
  <2>1. Piece(d, q, y) = [Copy(q, c, y) EXCEPT !.line = k]
    <3>1. Copy(q, c, y).line = q.line
      BY CopyKeeps
    <3> QED BY <1>6, <3>1 DEF Piece, PdbPiece
  <2>2. k \in LineStates(d)
    BY <1>4, <1>6
  <2> HIDE DEF k, c
  <2>3. Moves(d, q, Piece(d, q, y), k, c, y)
    BY <1>6, <2>1, <2>2, MovesCopyTo
  <2> QED BY <2>3 DEF k, c
<1>7. ASSUME NEW q, NEW k \in {"cli", "arrow", "program"}, NEW c, Moves(d, p, q, k, c, x),
             c = IF k = "program" THEN "program" ELSE "cli"
      PROVE  Moves(d, p, Piece(d, q, Newline), "start", c, x)
  <2>1. q \in PS /\ q.status = "RECEIVING" /\ q.line = k
    BY <1>7 DEF Moves
  <2>2. Moves(d, q, Piece(d, q, Newline), "start", c, Newline)
    BY <1>2, <1>6, <1>7, <2>1
  <2> QED BY <1>2, <1>7, <2>2 DEF Moves
<1>8. CASE l.begins = "program"
  <2>1. LinePieces(l) = e /\ b = "program"
    <3>1. <<>> \o e = e
      BY <1>3, ConcatEmptySeq
    <3>2. b = "program"
      BY <1>8 DEF LineBuffer, GdbPrefix, Arrow, Where
    <3> QED BY <1>8, <3>1, <3>2 DEF LinePieces
  <2> DEFINE q == Piece(d, p, x)
  <2>2. After(d, p, e) = Piece(d, q, Newline)
    BY <1>0, <1>1, <1>2, AfterTwo
  <2>3. q = [Copy(p, "program", x) EXCEPT !.line = "program"]
    BY <1>1, <1>5 DEF Piece, PdbPiece, PdbLine
  <2> HIDE DEF q, p
  <2>4. Moves(d, p, q, "program", "program", x)
    BY <1>1, <1>2, <1>4, <2>3, MovesCopyTo
  <2>5. Moves(d, p, Piece(d, q, Newline), "start", "program", x)
    BY <1>7, <2>4
  <2> QED BY <2>1, <2>2, <2>5 DEF p
<1>9. CASE l.begins # "program"
  <2> DEFINE y == l.begins
             h == <<y>>
             p1 == Piece(d, p, y)
             q == Piece(d, p1, x)
  <2>1. y \in {Arrow, Where, Quote} /\ y \in Pieces \ Texts
    BY <1>9, LineOfIs
  <2>2. LinePieces(l) = h \o e /\ h \in Seq(Pieces)
    BY <1>9, <2>1 DEF LinePieces
  <2>3. p1 \in PS /\ After(d, p, h) = p1
    BY <1>0, <1>1, <2>1, AfterOne, PieceKeeps DEF Keeps
  <2>4. After(d, p, LinePieces(l)) = After(d, p1, e)
    <3>1. After(d, p, h \o e) = After(d, After(d, p, h), e)
      BY <1>0, <1>1, <1>3, <2>2, AfterConcat
    <3> QED BY <2>2, <2>3, <3>1
  <2>5. CASE y = Quote
    <3>1. p1 = [p EXCEPT !.status = "LOOPS"]
      BY <1>1, <2>5 DEF Piece, PdbPiece, PdbLine, Arrow, Where, PdbPrompt, PdbEnd, Quote, Newline
    <3>2. p1.status = "LOOPS"
      BY <1>1, <3>1 DEF ParserState
    <3> HIDE DEF p1
    <3>3. After(d, p1, e) = p1
      BY <1>0, <1>3, <2>3, <3>2, AfterEnded
    <3> QED BY <2>4, <3>2, <3>3
  <2>6. CASE y # Quote
    <3>1. PICK k \in {"cli", "arrow"} : p1 = [Copy(p, "cli", y) EXCEPT !.line = k]
      <4>1. CASE y = Arrow
        BY <1>1, <4>1 DEF Piece, PdbPiece, PdbLine, Arrow, Where, PdbPrompt, PdbEnd, Quote, Newline
      <4>2. CASE y = Where
        BY <1>1, <4>2 DEF Piece, PdbPiece, PdbLine, Arrow, Where, PdbPrompt, PdbEnd, Quote, Newline
      <4> QED BY <2>1, <2>6, <4>1, <4>2
    <3>2. b = "cli"
      BY <2>1, <2>6 DEF LineBuffer, GdbPrefix, Arrow, Where, Quote
    <3>3. Moves(d, p, p1, k, "cli", y)
      BY <1>1, <1>4, <2>1, <3>1, MovesCopyTo
    <3>4. p1.line = k /\ p1.status = "RECEIVING"
      BY <3>3 DEF Moves
    <3>5. Moves(d, p1, q, k, "cli", x)
      BY <1>2, <1>5, <1>6, <2>3, <3>4
    <3>6. Moves(d, p, q, k, "cli", x)
      BY <2>1, <3>3, <3>5 DEF Moves
    <3> HIDE DEF p
    <3>7. Moves(d, p, Piece(d, q, Newline), "start", "cli", x)
      <4> HIDE DEF q
      <4> QED BY <1>7, <3>6
    <3>8. After(d, p1, e) = Piece(d, q, Newline)
      <4> HIDE DEF p1
      <4>1. After(d, p1, e) = Piece(d, Piece(d, p1, x), Newline)
        BY <1>0, <1>2, <2>3, AfterTwo
      <4> QED BY <4>1
    <3> QED BY <2>4, <3>2, <3>7, <3>8 DEF p
  <2> QED BY <2>5, <2>6
<1> QED BY <1>8, <1>9

(* After a line the parser is at the start of the next one, and the buffers*)
(* show one line more.                                                     *)
LEMMA LineShows ==
  ASSUME NEW d \in {"GDB", "PDB"}, NEW l, LineOf(l, d), NEW out \in [Buffers -> Seq(Pieces)],
         NEW before \in Seq(Line), Shows(out, before)
  PROVE  LET q == After(d, AtStart(out), LinePieces(l))
         IN q.status = "LOOPS" \/ (q = AtStart(q.out) /\ Shows(q.out, Append(before, l)))
<1> DEFINE p == AtStart(out)
           q == After(d, p, LinePieces(l))
           b == LineBuffer[l.begins]
<1>1. q.status = "LOOPS" \/ Moves(d, p, q, "start", b, l.text)
  BY GdbLineMoves, PdbLineMoves
<1>2. SUFFICES ASSUME Moves(d, p, q, "start", b, l.text)
               PROVE  q = AtStart(q.out) /\ Shows(q.out, Append(before, l))
  BY <1>1
<1>3. p.out = out /\ l \in Line /\ l.text \in Pieces /\ Newline \in Pieces \ Texts
  BY AtStartIs, LineOfIs DEF LineOf
<1> HIDE DEF p, q
<1>4. q = AtStart(q.out)
  BY <1>2 DEF Moves, AtStart, ParserState
<1>5. ASSUME NEW c \in Buffers PROVE TextsOf(q.out[c]) = TextsOf(PrintedIn(c, Append(before, l)))
  <2> DEFINE x == IF b = c THEN l.text ELSE Newline
             printed == PrintedIn(c, before)
  <2>1. printed \in Seq(Pieces) /\ PrintedIn(c, Append(before, l)) = Append(printed, x)
    BY <1>3, PrintedIs
  <2>2. x \in Pieces /\ (x \in Texts <=> c = b /\ l.text \in Texts)
    BY <1>3
  <2> HIDE DEF printed, x
  <2>3. TextsOf(Append(printed, x)) = IF x \in Texts THEN Append(TextsOf(printed), x) ELSE TextsOf(printed)
    BY <2>1, <2>2, TextsAre
  <2>4. TextsOf(q.out[c]) = IF c = b /\ l.text \in Texts THEN Append(TextsOf(out[c]), l.text)
                            ELSE TextsOf(out[c])
    BY <1>2, <1>3 DEF Moves
  <2>5. TextsOf(out[c]) = TextsOf(printed)
    BY DEF Shows, printed
  <2>6. x \in Texts => x = l.text
    BY <1>3 DEF x
  <2> QED BY <2>1, <2>2, <2>3, <2>4, <2>5, <2>6
<1> QED BY <1>4, <1>5 DEF Shows


(* Induction over sequences, for a property stated as a set.               *)
LEMMA SeqInduction ==
  ASSUME NEW S, NEW G, <<>> \in G, \A s \in Seq(S), x \in S : s \in G => Append(s, x) \in G
  PROVE  Seq(S) \subseteq G
<1> DEFINE T == {n \in Nat : \A s \in Seq(S) : Len(s) = n => s \in G}
<1>1. 0 \in T
  <2>1. \A s \in Seq(S) : Len(s) = 0 => s = <<>>
    BY EmptySeq
  <2> QED BY <2>1
<1>2. ASSUME NEW n \in Nat, NEW i \in 1 .. n, i - 1 \in T PROVE i \in T
  <2>1. ASSUME NEW s \in Seq(S), Len(s) = i PROVE s \in G
    <3>1. s # <<>>
      BY <2>1
    <3>2. PICK r \in Seq(S), x \in S : s = Append(r, x)
      BY <3>1, SequenceEmptyOrAppend
    <3>3. Len(r) \in Nat /\ Len(Append(r, x)) = Len(r) + 1
      BY AppendProperties, LenProperties
    <3>4. r \in G
      BY <1>2, <2>1, <3>2, <3>3
    <3> QED BY <3>2, <3>4
  <2> QED BY <2>1
<1> HIDE DEF T
<1>3. ASSUME NEW s \in Seq(S) PROVE s \in G
  <2>1. Len(s) \in Nat
    BY LenProperties
  <2>2. 0 .. Len(s) \subseteq T
    BY <1>1, <1>2, <2>1, Induction
  <2>3. Len(s) \in T
    BY <2>1, <2>2
  <2> QED BY <2>3 DEF T
<1> QED BY <1>3

PiecesOf == [l \in Line |-> LinePieces(l)]

(* There is neither a prompt nor an end marker in a line.                  *)
Stops == Ends \cup {GdbPrompt, PdbPrompt}

LEMMA LinePiecesAre ==
  ASSUME NEW l \in Line
  PROVE  LinePieces(l) \in Seq(Pieces \ Stops) /\ LinePieces(l) \in Seq(Pieces)
<1>1. {Newline, Done, Escape, Arrow, Where, Quote} \cup DOMAIN GdbPrefix \subseteq Pieces \ Stops
  BY DEF Pieces, Stops, Ends, GdbPrefix, Newline, Done, Escape, Arrow, Where, Quote, GdbEnd, PdbEnd, GdbPrompt,
    PdbPrompt
<1>2. Texts \subseteq Pieces \ Stops
  BY TextsAssumption DEF Pieces, Stops, Ends
<1>3. l.text \in Pieces \ Stops /\ (l.begins # "program" => l.begins \in Pieces \ Stops)
  BY <1>1, <1>2 DEF Line, LineBuffer
<1>4. <<l.text, Newline>> \in Seq(Pieces \ Stops)
  BY <1>1, <1>3
<1>5. (IF l.begins = "program" THEN <<>> ELSE <<l.begins>>) \in Seq(Pieces \ Stops)
  <2>1. CASE l.begins = "program"
    BY <2>1, EmptySeq
  <2>2. CASE l.begins # "program"
    BY <1>3, <2>2
  <2> QED BY <2>1, <2>2
<1>6. LinePieces(l) \in Seq(Pieces \ Stops)
  BY <1>4, <1>5, ConcatProperties DEF LinePieces
<1> QED BY <1>6

LEMMA PiecesOfIs ==
  /\ IsMap(PiecesOf, Line, Pieces) /\ IsMap(PiecesOf, Line, Pieces \ Stops)
  /\ \A l \in Line : PiecesOf[l] = LinePieces(l)
BY LinePiecesAre DEF PiecesOf, IsMap

(* After some lines the buffers show them all.                             *)
LEMMA LinesShow ==
  ASSUME NEW d \in {"GDB", "PDB"}, NEW lines \in Seq({l \in Line : LineOf(l, d)}),
         NEW out \in [Buffers -> Seq(Pieces)], NEW before \in Seq(Line), Shows(out, before)
  PROVE  LET q == After(d, AtStart(out), FlatMap(PiecesOf, lines))
         IN q.status = "LOOPS" \/ (q = AtStart(q.out) /\ Shows(q.out, before \o lines))
<1> DEFINE L == {l \in Line : LineOf(l, d)}
           p == AtStart(out)
           Good(q, s) == q.status = "LOOPS" \/ (q = AtStart(q.out) /\ Shows(q.out, before \o s))
           G == {s \in Seq(L) : Good(After(d, p, FlatMap(PiecesOf, s)), s)}
<1>1. p \in ParserState(d) /\ p.out = out
  BY AtStartIs
<1>2. <<>> \in G
  <2>1. FlatMap(PiecesOf, <<>>) = <<>>
    BY PiecesOfIs, FlatMapNone
  <2>2. After(d, p, <<>>) = p
    BY <1>1, AfterNone
  <2>3. before \o <<>> = before
    BY ConcatEmptySeq
  <2>4. Good(p, <<>>)
    BY <1>1, <2>3
  <2> HIDE DEF Good
  <2> QED BY <2>1, <2>2, <2>4
<1>3. ASSUME NEW s \in Seq(L), NEW l \in L, s \in G PROVE Append(s, l) \in G
  <2> DEFINE a == FlatMap(PiecesOf, s)
             b == LinePieces(l)
             q == After(d, p, a)
             r == After(d, p, FlatMap(PiecesOf, Append(s, l)))
  <2>1. s \in Seq(Line) /\ l \in Line /\ LineOf(l, d) /\ Append(s, l) \in Seq(L)
    BY AppendProperties
  <2>2. a \in Seq(Pieces)
    BY <2>1, PiecesOfIs, FlatMapType
  <2>3. b \in Seq(Pieces)
    BY <2>1, LinePiecesAre
  <2>4. FlatMap(PiecesOf, Append(s, l)) = a \o b
    <3>1. FlatMap(PiecesOf, Append(s, l)) = FlatMap(PiecesOf, s) \o PiecesOf[l]
      BY <2>1, PiecesOfIs, FlatMapAppend
    <3> QED BY <2>1, <3>1, PiecesOfIs
  <2>5. r = After(d, q, b)
    <3> HIDE DEF a, b, p
    <3>1. After(d, p, a \o b) = After(d, After(d, p, a), b)
      BY <1>1, <2>2, <2>3, AfterConcat
    <3> QED BY <2>4, <3>1
  <2>6. q \in ParserState(d) /\ Good(q, s)
    BY <1>1, <1>3, <2>2, AfterType
  <2> HIDE DEF q, r, a, b, p
  <2>7. CASE q.status = "LOOPS"
    <3>1. r = q
      BY <2>3, <2>5, <2>6, <2>7, AfterEnded
    <3> QED BY <2>1, <2>7, <3>1 DEF r
  <2>8. CASE q = AtStart(q.out) /\ Shows(q.out, before \o s)
    <3>1. q.out \in [Buffers -> Seq(Pieces)]
      BY <2>6 DEF ParserState
    <3>2. before \o s \in Seq(Line)
      BY <2>1, ConcatProperties
    <3>3. r.status = "LOOPS" \/ (r = AtStart(r.out) /\ Shows(r.out, Append(before \o s, l)))
      BY <2>1, <2>5, <2>8, <3>1, <3>2, LineShows DEF b
    <3>4. Append(before \o s, l) = before \o Append(s, l)
      <4>1. Append(before \o s, l) = (before \o s) \o <<l>> /\ Append(s, l) = s \o <<l>> /\ <<l>> \in Seq(Line)
        BY <2>1, <3>2, AppendIsConcat
      <4>2. (before \o s) \o <<l>> = before \o (s \o <<l>>)
        BY <2>1, <4>1, ConcatAssociative
      <4> QED BY <4>1, <4>2
    <3> QED BY <2>1, <3>3, <3>4 DEF r
  <2> QED BY <2>6, <2>7, <2>8
<1> HIDE DEF G
<1>4. Seq(L) \subseteq G
  <2> HIDE DEF L
  <2> QED BY <1>2, <1>3, SeqInduction
<1> QED BY <1>4 DEF G


(* How the answer to an end marker ends: the marker and what follows it.   *)
EndTrail ==
  IF debugger = "GDB" THEN <<GdbEnd, Newline, "^", Done, Newline, GdbPrompt>>
  ELSE <<PdbEnd, Newline, PdbPrompt>>

LEMMA MarkerAnswerIs ==
  ASSUME debugger \in Debuggers
  PROVE  LET s == AnswerPieces(Marker)
         IN /\ s \in Seq(Pieces) /\ EndTrail \in Seq(Pieces)
            /\ debugger = "GDB" =>
                 /\ Len(EndTrail) = 6 /\ Len(s) = 7 /\ s[1] = "~"
                 /\ EndTrail[1] = GdbEnd /\ EndTrail[2] = Newline /\ EndTrail[3] = "^"
                 /\ EndTrail[4] = Done /\ EndTrail[5] = Newline /\ EndTrail[6] = GdbPrompt
                 /\ \A i \in 1 .. 6 : s[i + 1] = EndTrail[i]
            /\ debugger # "GDB" =>
                 /\ Len(EndTrail) = 3 /\ s = EndTrail
                 /\ EndTrail[1] = PdbEnd /\ EndTrail[2] = Newline /\ EndTrail[3] = PdbPrompt
<1> DEFINE s == AnswerPieces(Marker)
<1>1. s \in Seq(Pieces)
  BY AnswersAre
<1>2. {"~", "^", GdbEnd, PdbEnd, Newline, Done, GdbPrompt, PdbPrompt} \subseteq Pieces
  BY DEF Pieces, GdbPrefix
<1>3. CASE debugger = "GDB"
  <2> DEFINE r == <<"~", GdbEnd, Newline, "^", Done, Newline>>
             e == <<GdbEnd, Newline, "^", Done, Newline, GdbPrompt>>
             h == <<GdbPrompt>>
  <2>1. /\ r \in Seq(Pieces) /\ Len(r) = 6 /\ r[1] = "~" /\ r[2] = GdbEnd /\ r[3] = Newline
        /\ r[4] = "^" /\ r[5] = Done /\ r[6] = Newline
    BY <1>2
  <2>2. /\ e \in Seq(Pieces) /\ Len(e) = 6 /\ e[1] = GdbEnd /\ e[2] = Newline /\ e[3] = "^"
        /\ e[4] = Done /\ e[5] = Newline /\ e[6] = GdbPrompt
    BY <1>2
  <2>3. h \in Seq(Pieces) /\ Len(h) = 1 /\ h[1] = GdbPrompt
    BY <1>2
  <2>4. s = r \o h /\ EndTrail = e
    BY <1>3 DEF AnswerPieces, PromptOf, EndTrail
  <2> HIDE DEF r, e, h
  <2>5. Len(s) = 7 /\ \A i \in 1 .. 7 : s[i] = IF i <= 6 THEN r[i] ELSE h[i - 6]
    <3>1. /\ Len(r \o h) = Len(r) + Len(h)
          /\ \A i \in 1 .. Len(r) + Len(h) : (r \o h)[i] = IF i <= Len(r) THEN r[i] ELSE h[i - Len(r)]
      BY <2>1, <2>3, ConcatProperties
    <3> HIDE DEF s
    <3> QED BY <2>1, <2>3, <2>4, <3>1
  <2> HIDE DEF s
  <2>6. s[1] = r[1] /\ s[2] = r[2] /\ s[3] = r[3] /\ s[4] = r[4] /\ s[5] = r[5] /\ s[6] = r[6] /\ s[7] = h[1]
    BY <2>5
  <2>7. \A i \in 1 .. 6 : i = 1 \/ i = 2 \/ i = 3 \/ i = 4 \/ i = 5 \/ i = 6
    OBVIOUS
  <2>8. \A i \in 1 .. 6 : s[i + 1] = e[i]
    BY <2>1, <2>2, <2>3, <2>6, <2>7
  <2> QED BY <1>1, <1>3, <2>1, <2>2, <2>4, <2>5, <2>6, <2>8 DEF s
<1>4. CASE debugger # "GDB"
  <2> DEFINE r == <<PdbEnd, Newline>>
             e == <<PdbEnd, Newline, PdbPrompt>>
             h == <<PdbPrompt>>
  <2>1. r \in Seq(Pieces) /\ Len(r) = 2 /\ r[1] = PdbEnd /\ r[2] = Newline
    BY <1>2
  <2>2. e \in Seq(Pieces) /\ Len(e) = 3 /\ e[1] = PdbEnd /\ e[2] = Newline /\ e[3] = PdbPrompt
    BY <1>2
  <2>3. h \in Seq(Pieces) /\ Len(h) = 1 /\ h[1] = PdbPrompt
    BY <1>2
  <2>4. s = r \o h /\ EndTrail = e
    BY <1>4 DEF AnswerPieces, PromptOf, EndTrail
  <2> HIDE DEF r, e, h
  <2>5. Len(s) = 3 /\ \A i \in 1 .. 3 : s[i] = IF i <= 2 THEN r[i] ELSE h[i - 2]
    <3>1. /\ Len(r \o h) = Len(r) + Len(h)
          /\ \A i \in 1 .. Len(r) + Len(h) : (r \o h)[i] = IF i <= Len(r) THEN r[i] ELSE h[i - Len(r)]
      BY <2>1, <2>3, ConcatProperties
    <3> HIDE DEF s
    <3> QED BY <2>1, <2>3, <2>4, <3>1
  <2> HIDE DEF s
  <2>6. s[1] = r[1] /\ s[2] = r[2] /\ s[3] = h[1]
    BY <2>5
  <2>7. \A i \in 1 .. 3 : s[i] = e[i]
    <3>1. \A i \in 1 .. 3 : i = 1 \/ i = 2 \/ i = 3
      OBVIOUS
    <3> QED BY <2>1, <2>2, <2>3, <2>6, <3>1
  <2>8. s = e
    BY <1>1, <2>2, <2>5, <2>7, SeqEqual DEF s
  <2> QED BY <1>1, <1>4, <2>2, <2>4, <2>8 DEF s
<1> QED BY <1>3, <1>4

LEMMA AfterFirst ==
  ASSUME NEW d \in {"GDB", "PDB"}, NEW p \in ParserState(d), NEW s \in Seq(Pieces), s # <<>>
  PROVE  /\ Head(s) \in Pieces /\ Tail(s) \in Seq(Pieces) /\ Piece(d, p, Head(s)) \in ParserState(d)
         /\ After(d, p, s) = After(d, Piece(d, p, Head(s)), Tail(s))
<1>1. Head(s) \in Pieces /\ Tail(s) \in Seq(Pieces)
  BY HeadTailProperties
<1>2. PieceTurn(d)[<<p, Head(s)>>] = Piece(d, p, Head(s)) /\ Piece(d, p, Head(s)) \in ParserState(d)
  BY <1>1, PieceTurns, PieceKeeps DEF Keeps
<1>3. Through(PieceTurn(d), p, s) = Through(PieceTurn(d), PieceTurn(d)[<<p, Head(s)>>], Tail(s))
  BY PieceTurns, ThroughFirst
<1> QED BY <1>1, <1>2, <1>3 DEF After

(* The answer to an end marker ends the reading, with the buffers as they  *)
(* were: at the start of a line, and under PDB behind a prompt.            *)
LEMMA MarkerEnds ==
  ASSUME debugger \in Debuggers, NEW p \in ParserState(debugger), p.status = "RECEIVING",
         p.line = "start" \/ (debugger = "PDB" /\ p.line = "prompt")
  PROVE  LET q == After(debugger, p, AnswerPieces(Marker)) IN q.status = "DONE" /\ q.out = p.out
<1> DEFINE s == AnswerPieces(Marker)
           q == Piece(debugger, p, Head(s))
<1>1. debugger \in {"GDB", "PDB"} /\ s \in Seq(Pieces)
  BY AnswersAre, MarkerAnswerIs
<1>2. Len(s) > 1 /\ Head(s) = s[1]
  BY MarkerAnswerIs
<1>3. s # <<>>
  BY <1>2
<1>4. q \in ParserState(debugger) /\ Tail(s) \in Seq(Pieces) /\ After(debugger, p, s) = After(debugger, q, Tail(s))
  BY <1>1, <1>3, AfterFirst
<1>5. CASE debugger = "GDB"
  <2> DEFINE r == Piece(debugger, q, Head(Tail(s)))
  <2>1. s[1] = "~" /\ s[2] = GdbEnd /\ Len(s) = 7
    <3>1. 1 + 1 = 2 /\ 1 \in 1 .. 6
      OBVIOUS
    <3> QED BY <1>5, <3>1, MarkerAnswerIs
  <2>2. q = [p EXCEPT !.line = "cli"]
    <3>1. /\ "~" \in DOMAIN GdbPrefix /\ "~" \notin {Newline, GdbPrompt} /\ GdbPrefix["~"] = "cli"
          /\ "~" \notin Texts \cup {Done}
      BY TextsAssumption DEF GdbPrefix, Newline, GdbPrompt, Done
    <3>2. q = GdbPiece(p, "~")
      BY <1>2, <1>5, <2>1 DEF Piece
    <3> HIDE DEF q
    <3> QED BY <1>5, <3>1, <3>2 DEF GdbPiece
  <2>3. q.line = "cli" /\ q.status = "RECEIVING" /\ q.out = p.out
    BY <2>2 DEF ParserState
  <2>4. Tail(s) # <<>> /\ Head(Tail(s)) = GdbEnd
    <3> HIDE DEF s, q
    <3>1. Len(Tail(s)) = Len(s) - 1 /\ \A i \in 1 .. Len(Tail(s)) : Tail(s)[i] = s[i + 1]
      BY <1>1, <1>3, HeadTailProperties
    <3>2. Len(Tail(s)) = 6 /\ Tail(s)[1] = s[2]
      BY <2>1, <3>1, SMTT(30)
    <3>3. PICK u \in Seq(Pieces) : u = Tail(s)
      BY <1>4
    <3>4. u # <<>>
      <4>1. Len(u) = 6
        BY <3>2, <3>3
      <4>2. u = <<>> => Len(u) = 0
        BY EmptySeq
      <4> QED BY <4>1, <4>2
    <3>5. Head(u) = u[1]
      OBVIOUS
    <3> QED BY <2>1, <3>2, <3>3, <3>4, <3>5
  <2> HIDE DEF q
  <2>5. r \in ParserState(debugger) /\ Tail(Tail(s)) \in Seq(Pieces)
        /\ After(debugger, q, Tail(s)) = After(debugger, r, Tail(Tail(s)))
    BY <1>1, <1>4, <2>4, AfterFirst
  <2>6. r = [q EXCEPT !.status = "DONE"]
    BY <1>5, <2>3, <2>4 DEF Piece, GdbPiece, GdbEnd, Escape, Newline, GdbPrompt
  <2>7. r.status = "DONE" /\ r.out = p.out
    BY <1>4, <2>3, <2>6 DEF ParserState
  <2> HIDE DEF r
  <2>8. After(debugger, r, Tail(Tail(s))) = r
    BY <1>1, <2>5, <2>7, AfterEnded
  <2> QED BY <1>4, <2>5, <2>7, <2>8
<1>6. CASE debugger = "PDB"
  <2>1. Head(s) = PdbEnd
    BY <1>2, <1>6, MarkerAnswerIs
  <2>2. q = [p EXCEPT !.status = "DONE"]
    <3>1. q = PdbPiece(p, PdbEnd)
      BY <1>6, <2>1 DEF Piece
    <3> HIDE DEF q
    <3>2. CASE p.line = "start"
      BY <3>1, <3>2 DEF PdbPiece, PdbLine, Arrow, Where, PdbPrompt, PdbEnd, Quote, Newline
    <3>3. CASE p.line = "prompt"
      BY <3>1, <3>3 DEF PdbPiece, PdbEnd, PdbPrompt
    <3> QED BY <3>2, <3>3
  <2>3. q.status = "DONE" /\ q.out = p.out
    BY <2>2 DEF ParserState
  <2> HIDE DEF q
  <2>4. After(debugger, q, Tail(s)) = q
    BY <1>1, <1>4, <2>3, AfterEnded
  <2> QED BY <1>4, <2>3, <2>4
<1> QED BY <1>1, <1>5, <1>6


(* The answer to a command is its lines and the prompt.                    *)
LEMMA CommandAnswerIs ==
  ASSUME debugger \in Debuggers, NEW c \in Commands
  PROVE  LET lines == Answers[debugger][c]
         IN /\ lines \in Seq({l \in Line : LineOf(l, debugger)}) /\ lines \in Seq(Line)
            /\ AnswerPieces(c) = FlatMap(PiecesOf, lines) \o <<PromptOf>>
<1> DEFINE lines == Answers[debugger][c]
           L == {l \in Line : LineOf(l, debugger)}
<1>1. lines \in Seq(Line) /\ c # Marker
  BY ChannelAssumption
<1>2. \A l \in ToSet(lines) : l.begins = "program" \/ (l.begins \in DOMAIN GdbPrefix <=> debugger = "GDB")
  BY AnswersAssumption
<1>3. AnswerPieces(c) = FlattenSeq([i \in DOMAIN lines |-> LinePieces(lines[i])]) \o <<PromptOf>>
  BY <1>1 DEF AnswerPieces
<1> HIDE DEF lines
<1>4. PICK n \in Nat : n = Len(lines) /\ DOMAIN lines = 1 .. n /\ lines = [i \in 1 .. n |-> lines[i]]
  BY <1>1, LenProperties
<1>5. \A i \in 1 .. n : lines[i] \in Line /\ lines[i] \in L
  BY <1>1, <1>2, <1>4, ElementOfSeq DEF ToSet, LineOf
<1> HIDE DEF L
<1>6. lines \in Seq(L)
  <2>1. [i \in 1 .. n |-> lines[i]] \in Seq(L)
    BY <1>5, IsASeq
  <2> QED BY <1>4, <2>1
<1>7. FlatMap(PiecesOf, lines) = FlattenSeq([i \in DOMAIN lines |-> LinePieces(lines[i])])
  <2>1. \A i \in DOMAIN lines : PiecesOf[lines[i]] = LinePieces(lines[i])
    BY <1>4, <1>5, PiecesOfIs
  <2>2. [i \in DOMAIN lines |-> PiecesOf[lines[i]]] = [i \in DOMAIN lines |-> LinePieces(lines[i])]
    BY <2>1
  <2> QED BY <2>2 DEF FlatMap
<1> QED BY <1>1, <1>3, <1>6, <1>7 DEF lines, L

(* After the answer to a command the buffers show its lines too.           *)
LEMMA CommandShows ==
  ASSUME debugger \in Debuggers, NEW c \in Commands, NEW out \in [Buffers -> Seq(Pieces)],
         NEW before \in Seq(Line), Shows(out, before)
  PROVE  LET q == After(debugger, AtStart(out), AnswerPieces(c))
         IN \/ q.status = "LOOPS"
            \/ /\ q \in ParserState(debugger) /\ q.status = "RECEIVING"
               /\ Shows(q.out, before \o Answers[debugger][c])
               /\ q.line = IF debugger = "GDB" THEN "start" ELSE "prompt"
<1> DEFINE lines == Answers[debugger][c]
           a == FlatMap(PiecesOf, lines)
           p == AtStart(out)
           r == After(debugger, p, a)
           q == After(debugger, p, AnswerPieces(c))
<1>1. debugger \in {"GDB", "PDB"} /\ PromptOf \in Pieces /\ p \in ParserState(debugger)
  BY AnswersAre, AtStartIs
<1>2. lines \in Seq({l \in Line : LineOf(l, debugger)}) /\ lines \in Seq(Line) /\ AnswerPieces(c) = a \o <<PromptOf>>
  BY CommandAnswerIs
<1>3. r.status = "LOOPS" \/ (r = AtStart(r.out) /\ Shows(r.out, before \o lines))
  BY <1>1, <1>2, LinesShow
<1>4. a \in Seq(Pieces)
  BY <1>2, PiecesOfIs, FlatMapType
<1>5. r \in ParserState(debugger)
  BY <1>1, <1>4, AfterType
<1>6. q = Piece(debugger, r, PromptOf)
  <2> DEFINE e == <<PromptOf>>
  <2>1. e \in Seq(Pieces)
    BY <1>1
  <2>2. After(debugger, r, e) = Piece(debugger, r, PromptOf)
    BY <1>1, <1>5, AfterOne
  <2>3. AnswerPieces(c) = a \o e
    BY <1>2
  <2> HIDE DEF e, a, p
  <2>4. After(debugger, p, a \o e) = After(debugger, After(debugger, p, a), e)
    BY <1>1, <1>4, <2>1, AfterConcat
  <2> QED BY <2>2, <2>3, <2>4
<1> HIDE DEF r, q, lines
<1>7. CASE r.status = "LOOPS"
  <2>1. q = r
    BY <1>6, <1>7 DEF Piece, GdbPiece, PdbPiece
  <2> QED BY <1>7, <2>1 DEF q
<1>8. CASE r = AtStart(r.out) /\ Shows(r.out, before \o lines)
  <2>1. r.line = "start" /\ r.status = "RECEIVING"
    BY <1>8 DEF AtStart
  <2>2. CASE debugger = "GDB"
    <3>1. q = [r EXCEPT !.line = "start"]
      BY <1>6, <2>1, <2>2 DEF Piece, GdbPiece, PromptOf, Copy, Buffers
    <3>2. q \in ParserState(debugger) /\ q.status = "RECEIVING" /\ q.out = r.out /\ q.line = "start"
      BY <1>5, <2>1, <3>1 DEF ParserState, LineStates
    <3> QED BY <1>8, <2>2, <3>2 DEF q, lines
  <2>3. CASE debugger # "GDB"
    <3>1. q = [r EXCEPT !.line = "prompt"]
      BY <1>6, <2>1, <2>3 DEF Piece, PdbPiece, PdbLine, PromptOf, PdbPrompt, PdbEnd, Quote, Newline, Arrow, Where
    <3>2. q \in ParserState(debugger) /\ q.status = "RECEIVING" /\ q.out = r.out /\ q.line = "prompt"
      BY <1>5, <2>1, <2>3, <3>1 DEF ParserState, LineStates
    <3> QED BY <1>8, <2>3, <3>2 DEF q, lines
  <2> QED BY <2>2, <2>3
<1> QED BY <1>3, <1>7, <1>8

(* What a thread may write, what the debugger says to it, and what of that *)
(* is the caller's own.                                                    *)
Words == Commands \cup {Marker, Parse}
ReplyTo == [x \in Words |-> IF x = Parse THEN <<>> ELSE AnswerPieces(x)]
OwnOf == [x \in Words |-> IF x \in Commands THEN Answers[debugger][x] ELSE <<>>]

LEMMA RepliesAre ==
  ASSUME debugger \in Debuggers
  PROVE  /\ IsMap(ReplyTo, Words, Pieces) /\ IsMap(OwnOf, Words, Line)
         /\ ReplyTo[Parse] = <<>> /\ ReplyTo[Marker] = AnswerPieces(Marker)
         /\ \A c \in Commands : ReplyTo[c] = AnswerPieces(c) /\ OwnOf[c] = Answers[debugger][c]
         /\ OwnOf[Parse] = <<>> /\ OwnOf[Marker] = <<>>
<1>1. Marker \notin Commands /\ Parse \notin Commands /\ Marker # Parse
  BY ChannelAssumption
<1>2. \A c \in Commands : AnswerPieces(c) \in Seq(Pieces) /\ Answers[debugger][c] \in Seq(Line)
  <2> SUFFICES ASSUME NEW c \in Commands
               PROVE  AnswerPieces(c) \in Seq(Pieces) /\ Answers[debugger][c] \in Seq(Line)
    OBVIOUS
  <2>1. AnswerPieces(c) \in Seq(Pieces \ Ends)
    BY AnswersAre
  <2>2. AnswerPieces(c) \in Seq(Pieces)
    BY <2>1
  <2> QED BY <2>2, CommandAnswerIs
<1>3. AnswerPieces(Marker) \in Seq(Pieces)
  BY AnswersAre
<1>4. <<>> \in Seq(Pieces) /\ <<>> \in Seq(Line)
  BY EmptySeq
<1>5. \A x \in Words : /\ (IF x = Parse THEN <<>> ELSE AnswerPieces(x)) \in Seq(Pieces)
                       /\ (IF x \in Commands THEN Answers[debugger][x] ELSE <<>>) \in Seq(Line)
  BY <1>2, <1>3, <1>4 DEF Words
<1>6. IsMap(ReplyTo, Words, Pieces) /\ IsMap(OwnOf, Words, Line)
  BY <1>5 DEF ReplyTo, OwnOf, IsMap
<1> QED BY <1>1, <1>6 DEF ReplyTo, OwnOf, Words

(* A call's commands, its end marker and its call of                       *)
(* parse_debugger_output().                                                *)
LEMMA ScriptIs ==
  ASSUME debugger \in Debuggers, NEW t \in Users, NEW s \in Scripts[debugger][t]
  PROVE  \E cs \in Seq(Commands) :
           /\ s = Append(Append(cs, Marker), Parse)
           /\ debugger = "PDB" => cs = <<>> \/ \E c \in Commands : cs = <<c>>
<1>1. s \in Seq(Words)
  BY ChannelAssumption DEF Script, Words
<1>2. PICK n \in Nat : n = Len(s) /\ n >= 2 /\ s[n] = Parse /\ s[n - 1] = Marker
                       /\ (\A i \in 1 .. n - 2 : s[i] \in Commands) /\ (debugger = "PDB" => n <= 3)
  BY <1>1, CallsAssumption, LenProperties
<1> DEFINE cs == [i \in 1 .. n - 2 |-> s[i]]
           m == Append(cs, Marker)
           u == Append(m, Parse)
<1>3. n - 2 \in Nat
  BY <1>2
<1>4. cs \in Seq(Commands) /\ Len(cs) = n - 2 /\ \A i \in 1 .. n - 2 : cs[i] = s[i]
  <2>1. cs \in Seq(Commands)
    BY <1>2, <1>3, IsASeq
  <2>2. Len(cs) = n - 2
    BY <1>3
  <2> QED BY <2>1, <2>2
<1> HIDE DEF cs
<1>5. Marker \in Words /\ Parse \in Words /\ cs \in Seq(Words)
  BY <1>4 DEF Words
<1>6. m \in Seq(Words) /\ Len(m) = n - 1 /\ m[n - 1] = Marker /\ \A i \in 1 .. n - 2 : m[i] = s[i]
  <2>1. /\ m \in Seq(Words) /\ Len(m) = Len(cs) + 1 /\ m[Len(cs) + 1] = Marker
        /\ \A i \in 1 .. Len(cs) : m[i] = cs[i]
    BY <1>5, AppendProperties
  <2> HIDE DEF m
  <2> QED BY <1>4, <2>1
<1> HIDE DEF m
<1>7. u \in Seq(Words) /\ Len(u) = n /\ u[n] = Parse /\ \A i \in 1 .. n - 1 : u[i] = m[i]
  <2>1. /\ u \in Seq(Words) /\ Len(u) = Len(m) + 1 /\ u[Len(m) + 1] = Parse
        /\ \A i \in 1 .. Len(m) : u[i] = m[i]
    BY <1>5, <1>6, AppendProperties
  <2> HIDE DEF u
  <2> QED BY <1>2, <1>6, <2>1
<1> HIDE DEF u
<1>8. \A i \in 1 .. n : u[i] = s[i]
  <2>1. \A i \in 1 .. n : i = n \/ i = n - 1 \/ i \in 1 .. n - 2
    OBVIOUS
  <2> QED BY <1>2, <1>6, <1>7, <2>1
<1>9. u = s
  BY <1>1, <1>2, <1>7, <1>8, SeqEqual
<1>10. debugger = "PDB" => cs = <<>> \/ \E c \in Commands : cs = <<c>>
  <2> SUFFICES ASSUME n <= 3 PROVE cs = <<>> \/ \E c \in Commands : cs = <<c>>
    BY <1>2
  <2>1. CASE n = 2
    BY <1>4, <2>1, EmptySeq
  <2>2. CASE n = 3
    <3> DEFINE c == cs[1]
               e == <<c>>
    <3>1. c \in Commands /\ Len(cs) = 1
      <4>1. Len(cs) = 1 /\ 1 \in 1 .. Len(cs)
        BY <1>4, <2>2
      <4> QED BY <1>4, <4>1, ElementOfSeq
    <3>2. e \in Seq(Commands) /\ Len(e) = 1 /\ e[1] = c
      BY <3>1
    <3> HIDE DEF e
    <3>3. \A i \in 1 .. 1 : i = 1
      OBVIOUS
    <3>4. cs = e
      BY <1>4, <3>1, <3>2, <3>3, SeqEqual
    <3> QED BY <3>1, <3>4 DEF e
  <2> QED BY <1>2, <2>1, <2>2
<1> QED BY <1>4, <1>9, <1>10 DEF u, m

LEMMA ScriptReplies ==
  ASSUME debugger \in Debuggers, NEW cs \in Seq(Commands)
  PROVE  LET s == Append(Append(cs, Marker), Parse)
         IN /\ s \in Seq(Words)
            /\ FlatMap(ReplyTo, s) = FlatMap(ReplyTo, cs) \o AnswerPieces(Marker)
            /\ FlatMap(OwnOf, s) = FlatMap(OwnOf, cs)
<1> DEFINE m == Append(cs, Marker)
           s == Append(m, Parse)
<1>1. Marker \in Words /\ Parse \in Words /\ cs \in Seq(Words)
  BY DEF Words
<1>2. m \in Seq(Words)
  BY <1>1, AppendProperties
<1>3. FlatMap(ReplyTo, m) = FlatMap(ReplyTo, cs) \o ReplyTo[Marker]
  BY <1>1, RepliesAre, FlatMapAppend
<1>4. FlatMap(OwnOf, m) = FlatMap(OwnOf, cs) \o OwnOf[Marker]
  BY <1>1, RepliesAre, FlatMapAppend
<1> HIDE DEF m
<1>5. s \in Seq(Words)
  BY <1>1, <1>2, AppendProperties
<1>6. FlatMap(ReplyTo, s) = FlatMap(ReplyTo, m) \o ReplyTo[Parse]
  BY <1>1, <1>2, RepliesAre, FlatMapAppend
<1>7. FlatMap(OwnOf, s) = FlatMap(OwnOf, m) \o OwnOf[Parse]
  BY <1>1, <1>2, RepliesAre, FlatMapAppend
<1>8. /\ FlatMap(ReplyTo, m) \in Seq(Pieces)
      /\ FlatMap(OwnOf, m) \in Seq(Line) /\ FlatMap(OwnOf, cs) \in Seq(Line)
  BY <1>1, <1>2, RepliesAre, FlatMapType
<1> HIDE DEF s
<1>9. FlatMap(ReplyTo, s) = FlatMap(ReplyTo, m)
  BY <1>6, <1>8, RepliesAre, ConcatEmptySeq
<1>10. FlatMap(OwnOf, s) = FlatMap(OwnOf, m) /\ FlatMap(OwnOf, m) = FlatMap(OwnOf, cs)
  BY <1>4, <1>7, <1>8, RepliesAre, ConcatEmptySeq
<1> QED BY <1>3, <1>5, <1>9, <1>10, RepliesAre DEF s, m

(* GDB answers the commands of a call one behind the other.                *)
LEMMA CommandsShow ==
  ASSUME debugger \in Debuggers, debugger = "GDB", NEW cs \in Seq(Commands),
         NEW out \in [Buffers -> Seq(Pieces)], Shows(out, <<>>)
  PROVE  LET q == After(debugger, AtStart(out), FlatMap(ReplyTo, cs))
         IN q.status = "LOOPS" \/ (q = AtStart(q.out) /\ Shows(q.out, FlatMap(OwnOf, cs)))
<1> DEFINE p == AtStart(out)
           PS == ParserState(debugger)
           Good(q, s) == q.status = "LOOPS" \/ (q = AtStart(q.out) /\ Shows(q.out, FlatMap(OwnOf, s)))
           G == {s \in Seq(Commands) : Good(After(debugger, p, FlatMap(ReplyTo, s)), s)}
<1>1. p \in PS /\ p.out = out /\ debugger \in {"GDB", "PDB"}
  BY AtStartIs, AnswersAre
<1>2. <<>> \in G
  <2>1. FlatMap(ReplyTo, <<>>) = <<>> /\ FlatMap(OwnOf, <<>>) = <<>>
    BY RepliesAre, FlatMapNone
  <2>2. After(debugger, p, <<>>) = p
    BY <1>1, AfterNone
  <2>3. <<>> \in Seq(Commands)
    BY EmptySeq
  <2>4. Good(p, <<>>)
    BY <1>1, <2>1
  <2> HIDE DEF Good, p
  <2> QED BY <2>1, <2>2, <2>3, <2>4
<1>3. ASSUME NEW s \in Seq(Commands), NEW c \in Commands, s \in G PROVE Append(s, c) \in G
  <2> DEFINE a == FlatMap(ReplyTo, s)
             b == AnswerPieces(c)
             q == After(debugger, p, a)
             r == After(debugger, p, FlatMap(ReplyTo, Append(s, c)))
             lines == FlatMap(OwnOf, s)
  <2>1. s \in Seq(Words) /\ c \in Words /\ Append(s, c) \in Seq(Commands)
    BY AppendProperties DEF Words
  <2>2. a \in Seq(Pieces) /\ lines \in Seq(Line)
    BY <2>1, RepliesAre, FlatMapType
  <2>3. b \in Seq(Pieces)
    <3>1. ReplyTo[c] \in Seq(Pieces) /\ ReplyTo[c] = b
      BY <2>1, RepliesAre DEF IsMap
    <3> QED BY <3>1
  <2>4. FlatMap(ReplyTo, Append(s, c)) = a \o b
    <3>1. FlatMap(ReplyTo, Append(s, c)) = FlatMap(ReplyTo, s) \o ReplyTo[c]
      BY <2>1, RepliesAre, FlatMapAppend
    <3> QED BY <3>1, RepliesAre
  <2>5. FlatMap(OwnOf, Append(s, c)) = lines \o Answers[debugger][c]
    <3>1. FlatMap(OwnOf, Append(s, c)) = FlatMap(OwnOf, s) \o OwnOf[c]
      BY <2>1, RepliesAre, FlatMapAppend
    <3> QED BY <3>1, RepliesAre
  <2>6. r = After(debugger, q, b)
    <3> HIDE DEF a, b, p
    <3>1. After(debugger, p, a \o b) = After(debugger, After(debugger, p, a), b)
      BY <1>1, <2>2, <2>3, AfterConcat
    <3> QED BY <2>4, <3>1
  <2>7. q \in PS /\ Good(q, s)
    BY <1>1, <1>3, <2>2, AfterType
  <2> HIDE DEF q, r, a, p
  <2>8. CASE q.status = "LOOPS"
    <3>1. r = q
      BY <1>1, <2>3, <2>6, <2>7, <2>8, AfterEnded
    <3> QED BY <2>1, <2>8, <3>1 DEF r
  <2>9. CASE q = AtStart(q.out) /\ Shows(q.out, lines)
    <3>1. q.out \in [Buffers -> Seq(Pieces)]
      BY <2>7 DEF ParserState
    <3> HIDE DEF lines
    <3>2. \/ r.status = "LOOPS"
          \/ /\ r \in PS /\ r.status = "RECEIVING" /\ Shows(r.out, lines \o Answers[debugger][c])
             /\ r.line = "start"
      BY <2>2, <2>6, <2>9, <3>1, CommandShows DEF b
    <3>3. Good(r, Append(s, c))
      BY <2>5, <3>2 DEF AtStart, ParserState
    <3> QED BY <2>1, <3>3 DEF r
  <2> QED BY <2>7, <2>8, <2>9
<1> HIDE DEF G
<1>4. Seq(Commands) \subseteq G
  BY <1>2, <1>3, SeqInduction
<1> QED BY <1>4 DEF G

(* Empty buffers show no lines.                                            *)
LEMMA NothingShown == NoOutput \in [Buffers -> Seq(Pieces)] /\ Shows(NoOutput, <<>>)
<1>1. NoOutput \in [Buffers -> Seq(Pieces)] /\ \A b \in Buffers : NoOutput[b] = <<>>
  BY EmptySeq DEF NoOutput
<1>2. \A b : PrintedIn(b, <<>>) = <<>>
  <2> SUFFICES ASSUME NEW b PROVE PrintedIn(b, <<>>) = <<>>
    OBVIOUS
  <2>1. PICK n \in Seq(Line) : n = <<>> /\ Len(n) = 0
    BY EmptySeq
  <2>2. DOMAIN n = 1 .. 0
    BY <2>1, LenProperties
  <2>3. PICK u \in Seq(Pieces) : u = PrintedIn(b, n) /\ DOMAIN u = 1 .. 0
    <3>1. DOMAIN PrintedIn(b, n) = 1 .. 0
      BY <2>2 DEF PrintedIn
    <3>2. PrintedIn(b, n) \in Seq(Pieces)
      BY PrintedIs
    <3> QED BY <3>1, <3>2
  <2>4. Len(u) = 0
    BY <2>3, LenProperties
  <2> QED BY <2>1, <2>3, <2>4, EmptySeq
<1> QED BY <1>1, <1>2 DEF Shows

(* What may still be behind the marker of the call before: nothing, GDB's  *)
(* prompt, or its result record and the prompt.  No text of it is shown.   *)
Leftover(o) ==
  o = <<>> \/ (debugger = "GDB" /\ (o = <<GdbPrompt>> \/ o = <<"^", Done, Newline, GdbPrompt>>))

LEMMA LeftoverShows ==
  ASSUME debugger \in Debuggers, debugger = "GDB", NEW o, Leftover(o)
  PROVE  LET q == After(debugger, AtStart(NoOutput), o)
         IN o \in Seq(Pieces) /\ q = AtStart(q.out) /\ q.out \in [Buffers -> Seq(Pieces)] /\ Shows(q.out, <<>>)
<1> DEFINE d == debugger
           p == AtStart(NoOutput)
           q == After(d, p, o)
           PS == ParserState(d)
<1>1. /\ d \in {"GDB", "PDB"} /\ p \in PS /\ p.line = "start" /\ p.out = NoOutput /\ p.status = "RECEIVING"
  BY NothingShown, AtStartIs, AnswersAre
<1>2. ASSUME q \in PS, q.line = "start", q.status = "RECEIVING",
             \A b \in Buffers : TextsOf(q.out[b]) = TextsOf(p.out[b])
      PROVE  q = AtStart(q.out) /\ q.out \in [Buffers -> Seq(Pieces)] /\ Shows(q.out, <<>>)
  <2> HIDE DEF q, p
  <2>1. q = AtStart(q.out) /\ q.out \in [Buffers -> Seq(Pieces)]
    BY <1>2 DEF AtStart, ParserState
  <2> QED BY <1>1, <1>2, <2>1, NothingShown DEF Shows
<1>3. /\ GdbPrompt \in Pieces \ Texts /\ Newline \in Pieces \ Texts /\ Done \in Pieces \ Texts
      /\ "^" \in Pieces \ Texts /\ {"start", "data"} \subseteq LineStates(d)
  BY TextsAssumption DEF Pieces, GdbPrefix, LineStates
<1>4. ASSUME NEW r \in PS, r.status = "RECEIVING", r.line = "start" PROVE Piece(d, r, GdbPrompt) = r
  <2>1. Piece(d, r, GdbPrompt) = [r EXCEPT !.line = "start"]
    BY <1>4 DEF Piece, GdbPiece, Copy, Buffers
  <2> QED BY <1>4, <2>1 DEF ParserState
<1>5. CASE o = <<>>
  <2>1. q = p
    BY <1>1, <1>5, AfterNone
  <2>2. o \in Seq(Pieces)
    BY <1>5, EmptySeq
  <2> HIDE DEF q, p
  <2>3. q = AtStart(q.out) /\ q.out \in [Buffers -> Seq(Pieces)] /\ Shows(q.out, <<>>)
    BY <1>1, <1>2, <2>1
  <2> QED BY <2>2, <2>3 DEF q, p
<1>6. CASE o = <<GdbPrompt>>
  <2>1. q = p
    BY <1>1, <1>3, <1>4, <1>6, AfterOne
  <2>2. o \in Seq(Pieces)
    BY <1>3, <1>6
  <2> HIDE DEF q, p
  <2>3. q = AtStart(q.out) /\ q.out \in [Buffers -> Seq(Pieces)] /\ Shows(q.out, <<>>)
    BY <1>1, <1>2, <2>1
  <2> QED BY <2>2, <2>3 DEF q, p
<1>7. CASE o = <<"^", Done, Newline, GdbPrompt>>
  <2> DEFINE a == <<"^", Done>>
             e == <<Newline, GdbPrompt>>
             x == "^"
             p1 == Piece(d, p, x)
             p2 == Piece(d, p1, Done)
             p3 == Piece(d, p2, Newline)
  <2>1. a \in Seq(Pieces) /\ e \in Seq(Pieces) /\ o = a \o e
    BY <1>3, <1>7
  <2>2. p1 \in PS /\ p2 \in PS /\ p3 \in PS /\ Piece(d, p3, GdbPrompt) \in PS
    BY <1>1, <1>3, PieceKeeps DEF Keeps
  <2>3. After(d, p, a) = p2
    <3> HIDE DEF p
    <3> QED BY <1>1, <1>3, AfterTwo
  <2>4. q = After(d, p2, e)
    <3>1. After(d, p, a \o e) = After(d, After(d, p, a), e)
      <4> HIDE DEF a, e, p
      <4> QED BY <1>1, <2>1, AfterConcat
    <3> QED BY <2>1, <2>3, <3>1
  <2> HIDE DEF p, p1
  <2>5. q = Piece(d, p3, GdbPrompt)
    <3> HIDE DEF p2, q
    <3>1. After(d, p2, e) = Piece(d, p3, GdbPrompt)
      BY <1>1, <1>3, <2>2, AfterTwo
    <3> QED BY <2>4, <3>1
  <2>6. Moves(d, p, p1, "data", "data", x)
    <3>1. /\ x \in DOMAIN GdbPrefix /\ x \notin {Newline, GdbPrompt} /\ GdbPrefix[x] = "data"
          /\ x \notin Texts \cup {Done}
      BY TextsAssumption DEF GdbPrefix, Newline, GdbPrompt, Done
    <3>2. p1 = GdbPiece(p, x)
      BY DEF Piece, p1
    <3>3. p1 = [p EXCEPT !.line = "data"]
      BY <1>1, <3>1, <3>2 DEF GdbPiece
    <3> QED BY <1>1, <1>3, <3>3, MovesTo
  <2>7. Moves(d, p1, p2, "data", "data", Done)
    <3>1. p1.line = "data" /\ p1.status = "RECEIVING"
      BY <2>6 DEF Moves
    <3>2. p2 = Copy(p1, "data", Done)
      BY <3>1 DEF Piece, GdbPiece, GdbPrompt, Newline, Done
    <3> QED BY <1>3, <2>2, <3>1, <3>2, MovesCopy
  <2> HIDE DEF p2
  <2>8. Moves(d, p2, p3, "start", "data", Newline)
    <3>1. p2.line = "data" /\ p2.status = "RECEIVING"
      BY <2>7 DEF Moves
    <3>2. p3 = [Copy(p2, "data", Newline) EXCEPT !.line = "start"]
      BY <3>1 DEF Piece, GdbPiece
    <3> QED BY <1>3, <2>2, <3>1, <3>2, MovesCopyTo
  <2> HIDE DEF p3, q
  <2>9. q = p3 /\ p3.line = "start" /\ p3.status = "RECEIVING"
    BY <1>4, <2>2, <2>5, <2>8 DEF Moves
  <2>10. \A b \in Buffers : TextsOf(q.out[b]) = TextsOf(p.out[b])
    BY <1>3, <2>6, <2>7, <2>8, <2>9 DEF Moves
  <2>11. q = AtStart(q.out) /\ q.out \in [Buffers -> Seq(Pieces)] /\ Shows(q.out, <<>>)
    BY <1>2, <2>2, <2>9, <2>10
  <2>12. o \in Seq(Pieces)
    BY <2>1, ConcatProperties
  <2> QED BY <2>11, <2>12 DEF q, p
<1> QED BY <1>5, <1>6, <1>7 DEF Leftover

(* What is still to come will make the buffers show the lines.  GDB's      *)
(* parser may stop at the end of any line.  PDB's has the answer before it,*)
(* if there is one, or only the end marker behind it.                      *)
PdbMarker == <<PdbEnd, Newline, PdbPrompt>>
Promise(d, out, stream, lines) ==
  IF d = "GDB"
  THEN LET q == After(d, AtStart(out), stream)
       IN q.status = "LOOPS" \/ (q.status = "DONE" /\ Shows(q.out, lines))
  ELSE \/ stream = PdbMarker /\ Shows(out, lines)
       \/ /\ stream = (FlatMap(PiecesOf, lines) \o <<PdbPrompt>>) \o PdbMarker
          /\ lines \in Seq({l \in Line : LineOf(l, d)}) /\ Shows(out, <<>>)

LEMMA FlatMapOne ==
  ASSUME NEW E, NEW S, NEW m, IsMap(m, E, S), NEW x \in E
  PROVE  FlatMap(m, <<x>>) = m[x]
<1>1. PICK n \in Seq(E) : n = <<>> /\ Len(n) = 0
  BY EmptySeq
<1> DEFINE u == Append(n, x)
           e == <<x>>
<1>2. u \in Seq(E) /\ Len(u) = 1 /\ u[1] = x
  BY <1>1, AppendProperties
<1>3. e \in Seq(E) /\ Len(e) = 1 /\ e[1] = x
  OBVIOUS
<1>4. FlatMap(m, u) = FlatMap(m, n) \o m[x]
  BY FlatMapAppend
<1> HIDE DEF u, e
<1>5. \A i \in 1 .. 1 : i = 1
  OBVIOUS
<1>6. u = e
  BY <1>2, <1>3, <1>5, SeqEqual
<1>7. FlatMap(m, n) = <<>>
  BY <1>1, FlatMapNone
<1>8. m[x] \in Seq(S)
  BY DEF IsMap
<1>9. <<>> \o m[x] = m[x]
  BY <1>8, ConcatEmptySeq
<1> QED BY <1>4, <1>6, <1>7, <1>9 DEF e

LEMMA CallPromised ==
  ASSUME debugger \in Debuggers, NEW t \in Users, NEW s \in Scripts[debugger][t], NEW o, Leftover(o)
  PROVE  s \in Seq(Words) /\ Promise(debugger, NoOutput, o \o FlatMap(ReplyTo, s), FlatMap(OwnOf, s))
<1> DEFINE d == debugger
           mark == AnswerPieces(Marker)
<1>1. d \in {"GDB", "PDB"} /\ mark \in Seq(Pieces)
  BY AnswersAre
<1>2. PICK cs \in Seq(Commands) : /\ s = Append(Append(cs, Marker), Parse)
                                  /\ d = "PDB" => cs = <<>> \/ \E c \in Commands : cs = <<c>>
  BY ScriptIs
<1> DEFINE a == FlatMap(ReplyTo, cs)
           lines == FlatMap(OwnOf, cs)
           stream == o \o FlatMap(ReplyTo, s)
<1>3. s \in Seq(Words) /\ FlatMap(ReplyTo, s) = a \o mark /\ FlatMap(OwnOf, s) = lines
  BY <1>2, ScriptReplies
<1>4. cs \in Seq(Words)
  BY DEF Words
<1>5. a \in Seq(Pieces)
  BY <1>4, RepliesAre, FlatMapType
<1>6. CASE d = "GDB"
  <2> DEFINE p == AtStart(NoOutput)
             q == After(d, p, o)
             r == After(d, q, a)
             z == After(d, p, stream)
  <2>1. o \in Seq(Pieces) /\ q = AtStart(q.out) /\ q.out \in [Buffers -> Seq(Pieces)] /\ Shows(q.out, <<>>)
    BY <1>6, LeftoverShows
  <2>2. p \in ParserState(d)
    BY NothingShown, AtStartIs
  <2>3. q \in ParserState(d)
    BY <1>1, <2>1, <2>2, AfterType
  <2>4. r \in ParserState(d)
    BY <1>1, <1>5, <2>3, AfterType
  <2>5. z = After(d, r, mark)
    <3>1. a \o mark \in Seq(Pieces)
      BY <1>1, <1>5, ConcatProperties
    <3>2. stream = o \o (a \o mark)
      BY <1>3
    <3> HIDE DEF p, a, mark, q, stream
    <3>3. After(d, p, o \o (a \o mark)) = After(d, After(d, p, o), a \o mark)
      BY <1>1, <2>1, <2>2, <3>1, AfterConcat
    <3>4. After(d, q, a \o mark) = After(d, After(d, q, a), mark)
      BY <1>1, <1>5, <2>3, AfterConcat
    <3> QED BY <3>2, <3>3, <3>4 DEF q
  <2>6. r.status = "LOOPS" \/ (r = AtStart(r.out) /\ Shows(r.out, lines))
    <3> HIDE DEF q
    <3>1. \/ After(d, AtStart(q.out), a).status = "LOOPS"
          \/ /\ After(d, AtStart(q.out), a) = AtStart(After(d, AtStart(q.out), a).out)
             /\ Shows(After(d, AtStart(q.out), a).out, lines)
      BY <1>6, <2>1, CommandsShow
    <3> QED BY <2>1, <3>1
  <2> HIDE DEF q, r, z, mark
  <2>7. CASE r.status = "LOOPS"
    <3>1. z = r
      BY <1>1, <2>4, <2>5, <2>7, AfterEnded
    <3> QED BY <1>3, <1>6, <2>7, <3>1 DEF Promise, z
  <2>8. CASE r = AtStart(r.out) /\ Shows(r.out, lines)
    <3>1. r.status = "RECEIVING" /\ r.line = "start"
      BY <2>8 DEF AtStart
    <3>2. z.status = "DONE" /\ z.out = r.out
      BY <2>4, <2>5, <3>1, MarkerEnds DEF mark
    <3> HIDE DEF stream, lines
    <3> QED BY <1>3, <1>6, <2>8, <3>2 DEF Promise, z, stream
  <2> QED BY <2>6, <2>7, <2>8
<1>7. CASE d = "PDB"
  <2>1. mark = PdbMarker
    BY <1>7, MarkerAnswerIs DEF EndTrail, PdbMarker
  <2>2. stream = a \o mark
    <3>1. o = <<>>
      BY <1>7 DEF Leftover
    <3>2. a \o mark \in Seq(Pieces)
      BY <1>1, <1>5, ConcatProperties
    <3> HIDE DEF a, mark
    <3> QED BY <1>3, <3>1, <3>2, ConcatEmptySeq
  <2>3. CASE cs = <<>>
    <3>1. a = <<>> /\ lines = <<>>
      BY <2>3, RepliesAre, FlatMapNone
    <3> HIDE DEF a, mark
    <3>2. stream = mark
      BY <1>1, <2>2, <3>1, ConcatEmptySeq
    <3> HIDE DEF stream, lines
    <3> QED BY <1>3, <1>7, <2>1, <3>1, <3>2, NothingShown DEF Promise, stream
  <2>4. ASSUME NEW c \in Commands, cs = <<c>>
        PROVE  Promise(d, NoOutput, stream, lines)
    <3>1. c \in Words
      BY DEF Words
    <3>2. a = AnswerPieces(c) /\ lines = Answers[debugger][c]
      <4>1. FlatMap(ReplyTo, <<c>>) = ReplyTo[c] /\ FlatMap(OwnOf, <<c>>) = OwnOf[c]
        BY <3>1, RepliesAre, FlatMapOne
      <4> QED BY <2>4, <4>1, RepliesAre
    <3> HIDE DEF a, lines, mark, stream
    <3>3. /\ lines \in Seq({l \in Line : LineOf(l, d)})
          /\ a = FlatMap(PiecesOf, lines) \o <<PdbPrompt>>
      BY <1>7, <3>2, CommandAnswerIs DEF PromptOf
    <3> QED BY <1>7, <2>1, <2>2, <3>3, NothingShown DEF Promise
  <2> HIDE DEF stream, lines
  <2> QED BY <1>2, <1>3, <1>7, <2>3, <2>4 DEF stream
<1> QED BY <1>1, <1>6, <1>7

LEMMA AfterAppend ==
  ASSUME NEW d \in {"GDB", "PDB"}, NEW p \in ParserState(d), NEW s \in Seq(Pieces), NEW x \in Pieces
  PROVE  After(d, p, Append(s, x)) = Piece(d, After(d, p, s), x)
<1>1. After(d, p, Append(s, x)) = PieceTurn(d)[<<After(d, p, s), x>>]
  BY PieceTurns, ThroughAppend DEF After
<1>2. After(d, p, s) \in ParserState(d)
  BY AfterType
<1> QED BY <1>1, <1>2, PieceTurns

LEMMA ConcatSplits ==
  ASSUME NEW S, NEW a \in Seq(S), NEW b \in Seq(S), NEW c \in Seq(S), NEW e \in Seq(S),
         a \o b = c \o e, Len(a) = Len(c)
  PROVE  a = c /\ b = e
<1>1. PICK m \in Nat, n \in Nat, k \in Nat : m = Len(a) /\ m = Len(c) /\ n = Len(b) /\ k = Len(e)
  BY LenProperties
<1>2. /\ Len(a \o b) = m + n
      /\ \A i \in 1 .. m + n : (a \o b)[i] = IF i <= m THEN a[i] ELSE b[i - m]
  BY <1>1, ConcatProperties
<1>3. /\ Len(c \o e) = m + k
      /\ \A i \in 1 .. m + k : (c \o e)[i] = IF i <= m THEN c[i] ELSE e[i - m]
  BY <1>1, ConcatProperties
<1> DEFINE u == a \o b
<1>4. /\ Len(u) = m + n /\ Len(u) = m + k
      /\ \A i \in 1 .. m + n : u[i] = IF i <= m THEN a[i] ELSE b[i - m]
      /\ \A i \in 1 .. m + k : u[i] = IF i <= m THEN c[i] ELSE e[i - m]
  BY <1>2, <1>3
<1> HIDE DEF u
<1>5. n = k
  BY <1>4
<1>6. \A i \in 1 .. m : a[i] = c[i]
  <2> SUFFICES ASSUME NEW i \in 1 .. m PROVE a[i] = c[i]
    OBVIOUS
  <2>1. i \in 1 .. m + n /\ i \in 1 .. m + k /\ i <= m
    OBVIOUS
  <2> QED BY <1>4, <2>1
<1>7. \A i \in 1 .. n : b[i] = e[i]
  <2> SUFFICES ASSUME NEW i \in 1 .. n PROVE b[i] = e[i]
    OBVIOUS
  <2>1. m + i \in 1 .. m + n /\ m + i \in 1 .. m + k /\ ~(m + i <= m) /\ (m + i) - m = i
    BY <1>5
  <2> QED BY <1>4, <2>1
<1> QED BY <1>1, <1>5, <1>6, <1>7, SeqEqual

(* Under GDB a chunk of whole lines leaves the parser at the start of one. *)
LEMMA GdbChunk ==
  ASSUME NEW d, d = "GDB", NEW chunk \in Seq(Pieces), chunk # <<>>, Last(chunk) \in {Newline, GdbPrompt},
         NEW out \in [Buffers -> Seq(Pieces)]
  PROVE  LET p == After(d, AtStart(out), chunk) IN p.status = "RECEIVING" => p = AtStart(p.out)
<1> DEFINE p == After(d, AtStart(out), chunk)
<1>1. PICK r \in Seq(Pieces), x \in Pieces : chunk = Append(r, x)
  BY SequenceEmptyOrAppend
<1>2. x = Last(chunk)
  <2>1. Len(Append(r, x)) = Len(r) + 1 /\ Append(r, x)[Len(r) + 1] = x
    BY AppendProperties
  <2> QED BY <1>1, <2>1 DEF Last
<1> DEFINE q == After(d, AtStart(out), r)
<1>3. AtStart(out) \in ParserState(d) /\ d \in {"GDB", "PDB"}
  BY AtStartIs
<1>4. p = Piece(d, q, x) /\ q \in ParserState(d) /\ p \in ParserState(d)
  BY <1>1, <1>3, AfterAppend, AfterType
<1> HIDE DEF p, q
<1>5. ASSUME p.status = "RECEIVING" PROVE p.line = "start"
  <2>1. q.status = "RECEIVING"
    BY <1>4, <1>5 DEF Piece, GdbPiece
  <2>2. p = [Copy(q, q.line, x) EXCEPT !.line = "start"]
    BY <1>2, <1>4, <2>1 DEF Piece, GdbPiece
  <2>3. Copy(q, q.line, x) \in ParserState(d)
    BY <1>4, CopyKeeps
  <2> QED BY <2>2, <2>3 DEF ParserState
<1>6. ASSUME p.status = "RECEIVING" PROVE p = AtStart(p.out)
  BY <1>4, <1>5, <1>6 DEF AtStart, ParserState
<1> QED BY <1>6 DEF p

(* Under PDB a chunk that ends with a prompt has the whole answer, or all  *)
(* that was to come.                                                       *)
LEMMA PdbCuts ==
  ASSUME NEW b \in Seq(Pieces \ Stops), NEW chunk \in Seq(Pieces), NEW rest \in Seq(Pieces),
         chunk \o rest = (b \o <<PdbPrompt>>) \o PdbMarker, chunk # <<>>, Last(chunk) = PdbPrompt
  PROVE  \/ chunk = b \o <<PdbPrompt>> /\ rest = PdbMarker
         \/ chunk = (b \o <<PdbPrompt>>) \o PdbMarker /\ rest = <<>>
<1> DEFINE h == <<PdbPrompt>>
           e == PdbMarker
           a == b \o h
           s == a \o e
<1>1. {PdbPrompt, PdbEnd, Newline} \subseteq Pieces /\ PdbPrompt \notin {PdbEnd, Newline} /\ PdbPrompt \in Stops
  BY DEF Pieces, PdbPrompt, PdbEnd, Newline, Stops
<1>2. h \in Seq(Pieces) /\ Len(h) = 1 /\ h[1] = PdbPrompt
  BY <1>1
<1>3. e \in Seq(Pieces) /\ Len(e) = 3 /\ e[1] = PdbEnd /\ e[2] = Newline /\ e[3] = PdbPrompt
  BY <1>1 DEF PdbMarker
<1>4. b \in Seq(Pieces)
  OBVIOUS
<1>5. PICK m \in Nat, n \in Nat \ {0}, k \in Nat :
        m = Len(b) /\ n = Len(chunk) /\ k = Len(rest) /\ \A i \in 1 .. m : b[i] \in Pieces \ Stops
  BY LenProperties, ElementOfSeq, EmptySeq
<1> HIDE DEF h, e
<1>6. /\ a \in Seq(Pieces) /\ Len(a) = m + 1
      /\ \A i \in 1 .. m + 1 : a[i] = IF i <= m THEN b[i] ELSE h[i - m]
  <2>1. /\ a \in Seq(Pieces) /\ Len(a) = Len(b) + Len(h)
        /\ \A i \in 1 .. Len(b) + Len(h) : a[i] = IF i <= Len(b) THEN b[i] ELSE h[i - Len(b)]
    BY <1>2, <1>4, ConcatProperties
  <2>2. Len(b) + Len(h) = m + 1
    BY <1>2, <1>5
  <2> HIDE DEF a
  <2> QED BY <1>5, <2>1, <2>2
<1> HIDE DEF a
<1>7. /\ s \in Seq(Pieces) /\ Len(s) = m + 4
      /\ \A i \in 1 .. m + 4 : s[i] = IF i <= m + 1 THEN a[i] ELSE e[i - (m + 1)]
  <2>1. /\ s \in Seq(Pieces) /\ Len(s) = Len(a) + Len(e)
        /\ \A i \in 1 .. Len(a) + Len(e) : s[i] = IF i <= Len(a) THEN a[i] ELSE e[i - Len(a)]
    BY <1>3, <1>6, ConcatProperties
  <2>2. Len(a) + Len(e) = m + 4
    BY <1>3, <1>6
  <2> HIDE DEF s
  <2> QED BY <1>6, <2>1, <2>2
<1>8. chunk \o rest = s
  BY DEF s, a, h, e
<1>9. n <= m + 4 /\ s[n] = PdbPrompt
  <2>1. /\ Len(chunk \o rest) = n + k
        /\ \A i \in 1 .. n + k : (chunk \o rest)[i] = IF i <= n THEN chunk[i] ELSE rest[i - n]
    BY <1>5, ConcatProperties
  <2> HIDE DEF s
  <2>2. Len(s) = n + k /\ s[n] = chunk[n]
    BY <1>5, <1>8, <2>1
  <2> QED BY <1>5, <1>7, <2>2 DEF Last
<1> HIDE DEF s
<1>10. n = m + 1 \/ n = m + 4
  <2>1. CASE n \in 1 .. m
    <3>1. s[n] = b[n]
      BY <1>6, <1>7, <2>1
    <3> QED BY <1>1, <1>5, <1>9, <2>1, <3>1
  <2>2. CASE n = m + 2
    <3>1. s[n] = e[2 - 1]
      <4>1. n - (m + 1) = 2 - 1 /\ ~(n <= m + 1) /\ n \in 1 .. m + 4
        BY <2>2
      <4> QED BY <1>7, <4>1
    <3> QED BY <1>1, <1>3, <1>9, <3>1
  <2>3. CASE n = m + 3
    <3>1. s[n] = e[2]
      <4>1. n - (m + 1) = 2 /\ ~(n <= m + 1) /\ n \in 1 .. m + 4
        BY <2>3
      <4> QED BY <1>7, <4>1
    <3> QED BY <1>1, <1>3, <1>9, <3>1
  <2> QED BY <1>9, <2>1, <2>2, <2>3
<1>11. CASE n = m + 1
  <2>1. chunk \o rest = a \o e
    BY <1>8 DEF s
  <2>2. Len(chunk) = Len(a)
    BY <1>5, <1>6, <1>11
  <2>3. chunk = a /\ rest = e
    BY <1>3, <1>6, <2>1, <2>2, ConcatSplits
  <2> QED BY <2>3 DEF a, h, e
<1>12. CASE n = m + 4
  <2>1. PICK z \in Seq(Pieces) : z = <<>>
    BY EmptySeq
  <2>2. chunk \o rest = s \o z
    BY <1>7, <1>8, <2>1, ConcatEmptySeq
  <2>3. chunk = s /\ rest = z
    BY <1>5, <1>7, <1>12, <2>2, ConcatSplits
  <2> QED BY <2>1, <2>3 DEF s, a, h, e
<1> QED BY <1>10, <1>11, <1>12

LEMMA PdbStays ==
  ASSUME NEW chunk \in Seq(Pieces), NEW out \in [Buffers -> Seq(Pieces)],
         NEW p \in ParsePieces("PDB", chunk, out), NEW q, q = After("PDB", AtStart(out), chunk),
         q.status # "RECEIVING" \/ q.line = "prompt"
  PROVE  p = q
<1>1. ParsePdb(chunk, out) = q
  BY ParsedIsAfter DEF ParsePdb
<1>2. ~RunsOver(chunk, out)
  BY <1>1 DEF RunsOver
<1> QED BY <1>1, <1>2 DEF ParsePieces

(* Parsing a chunk of whole lines (under PDB: of whole answers) ends with  *)
(* the caller's lines in the buffers, or the rest of the stream is as good *)
(* as the whole was, or the parser hangs.                                  *)
LEMMA ChunkKeepsPromise ==
  ASSUME debugger \in Debuggers, NEW chunk \in Seq(Pieces), NEW rest \in Seq(Pieces),
         NEW out \in [Buffers -> Seq(Pieces)], NEW lines,
         Promise(debugger, out, chunk \o rest, lines), chunk # <<>>, WholeLines(chunk),
         NEW p \in ParsePieces(debugger, chunk, out)
  PROVE  /\ p.status = "DONE" => Shows(p.out, lines)
         /\ p.status = "RECEIVING" => Promise(debugger, p.out, rest, lines)
<1> DEFINE d == debugger
           start == AtStart(out)
           q == After(d, start, chunk)
<1>1. d \in {"GDB", "PDB"} /\ start \in ParserState(d) /\ start.out = out /\ start.line = "start"
      /\ start.status = "RECEIVING" /\ q \in ParserState(d)
  BY AnswersAre, AtStartIs, AfterType
<1>2. CASE d = "GDB"
  <2>1. p = q
    BY <1>2, ParsedIsAfter DEF ParsePieces, ParseGdb
  <2> DEFINE z == After(d, start, chunk \o rest)
  <2>2. z = After(d, q, rest)
    <3> HIDE DEF start
    <3> QED BY <1>1, AfterConcat
  <2>3. z.status = "LOOPS" \/ (z.status = "DONE" /\ Shows(z.out, lines))
    BY <1>2 DEF Promise
  <2>4. q.status = "RECEIVING" => q = AtStart(q.out)
    BY <1>2, GdbChunk DEF WholeLines
  <2> HIDE DEF q, z, start
  <2>5. q.status # "RECEIVING" => z = q
    BY <1>1, <2>2, AfterEnded
  <2>6. ASSUME q.status = "RECEIVING" PROVE Promise(d, q.out, rest, lines)
    <3>1. z = After(d, AtStart(q.out), rest)
      BY <2>2, <2>4, <2>6
    <3> QED BY <1>2, <2>3, <3>1 DEF Promise
  <2> QED BY <2>1, <2>3, <2>5, <2>6
<1>3. CASE d = "PDB"
  <2> DEFINE b == FlatMap(PiecesOf, lines)
             h == <<PdbPrompt>>
  <2>1. Last(chunk) = PdbPrompt
    BY <1>3 DEF WholeLines
  <2>2. h \in Seq(Pieces) /\ PdbPrompt \in Pieces
    BY DEF Pieces
  <2>3. AnswerPieces(Marker) = PdbMarker /\ PdbMarker \in Seq(Pieces)
    BY <1>3, MarkerAnswerIs DEF EndTrail, PdbMarker
  <2>4. CASE chunk \o rest = PdbMarker /\ Shows(out, lines)
    <3>1. Head(chunk) = PdbEnd
      <4>1. PICK n \in Nat \ {0}, k \in Nat : n = Len(chunk) /\ k = Len(rest)
        BY EmptySeq, LenProperties
      <4>2. (chunk \o rest)[1] = chunk[1]
        BY <4>1, ConcatProperties
      <4>3. PdbMarker[1] = PdbEnd
        BY DEF PdbMarker
      <4> QED BY <2>4, <4>2, <4>3
    <3> DEFINE r == Piece(d, start, Head(chunk))
    <3>2. r = [start EXCEPT !.status = "DONE"]
      BY <1>1, <1>3, <3>1 DEF Piece, PdbPiece, PdbLine, PdbPrompt, PdbEnd, Quote, Newline, Arrow, Where
    <3>3. /\ Tail(chunk) \in Seq(Pieces) /\ r \in ParserState(d) /\ q = After(d, r, Tail(chunk))
      <4> HIDE DEF start
      <4> QED BY <1>1, AfterFirst
    <3> HIDE DEF start
    <3>4. r.status = "DONE" /\ r.out = out
      BY <1>1, <3>2 DEF ParserState
    <3> HIDE DEF r, q
    <3>5. q = r
      BY <1>1, <3>3, <3>4, AfterEnded
    <3>6. p = q
      BY <1>3, <3>4, <3>5, PdbStays DEF q, start
    <3> QED BY <2>4, <3>4, <3>5, <3>6
  <2>5. CASE /\ chunk \o rest = (b \o h) \o PdbMarker
             /\ lines \in Seq({l \in Line : LineOf(l, d)}) /\ Shows(out, <<>>)
    <3> DEFINE t == After(d, start, b)
               u == Piece(d, t, PdbPrompt)
               v == After(d, u, PdbMarker)
    <3>1. lines \in Seq(Line)
      BY <2>5
    <3>2. b \in Seq(Pieces \ Stops) /\ b \in Seq(Pieces)
      BY <3>1, PiecesOfIs, FlatMapType
    <3>3. \/ chunk = b \o h /\ rest = PdbMarker
          \/ chunk = (b \o h) \o PdbMarker /\ rest = <<>>
      BY <2>1, <2>5, <3>2, PdbCuts
    <3>4. t.status = "LOOPS" \/ (t = AtStart(t.out) /\ Shows(t.out, lines))
      <4>1. PICK n \in Seq(Line) : n = <<>>
        BY EmptySeq
      <4>2. n \o lines = lines
        BY <3>1, <4>1, ConcatEmptySeq
      <4>3. t.status = "LOOPS" \/ (t = AtStart(t.out) /\ Shows(t.out, n \o lines))
        BY <1>1, <2>5, <4>1, LinesShow
      <4> QED BY <4>2, <4>3
    <3>5. t \in ParserState(d) /\ u \in ParserState(d)
      <4>1. t \in ParserState(d)
        BY <1>1, <3>2, AfterType
      <4> QED BY <1>1, <2>2, <4>1, PieceKeeps DEF Keeps
    <3> HIDE DEF b, start
    <3>6. After(d, start, b \o h) = u
      <4>1. After(d, t, h) = u
        BY <1>1, <2>2, <3>5, AfterOne
      <4> HIDE DEF h, u
      <4>2. After(d, start, b \o h) = After(d, After(d, start, b), h)
        BY <1>1, <2>2, <3>2, AfterConcat
      <4> QED BY <4>1, <4>2
    <3>7. After(d, start, (b \o h) \o PdbMarker) = v
      <4>1. b \o h \in Seq(Pieces)
        BY <2>2, <3>2, ConcatProperties
      <4> DEFINE bh == b \o h
      <4>2. bh \in Seq(Pieces) /\ After(d, start, bh) = u
        BY <3>6, <4>1
      <4> HIDE DEF bh
      <4>3. After(d, start, bh \o PdbMarker) = After(d, After(d, start, bh), PdbMarker)
        BY <1>1, <2>3, <4>2, AfterConcat
      <4> QED BY <4>2, <4>3 DEF bh
    <3> HIDE DEF t
    <3>8. CASE t.status = "LOOPS"
      <4>1. u = t
        BY <1>3, <3>8 DEF Piece, PdbPiece
      <4>2. v = u
        <5> HIDE DEF u
        <5> QED BY <1>1, <2>3, <3>5, <3>8, <4>1, AfterEnded
      <4>3. q = u
        <5> HIDE DEF u, v
        <5> QED BY <3>3, <3>6, <3>7, <4>2
      <4>4. q.status = "LOOPS"
        BY <3>8, <4>1, <4>3
      <4>5. p = q
        <5> HIDE DEF q
        <5> QED BY <1>3, <4>4, PdbStays DEF q, start
      <4> QED BY <4>4, <4>5
    <3>9. CASE t = AtStart(t.out) /\ Shows(t.out, lines)
      <4>1. t.line = "start" /\ t.status = "RECEIVING"
        BY <3>9 DEF AtStart
      <4>2. u = [t EXCEPT !.line = "prompt"]
        BY <1>3, <4>1 DEF Piece, PdbPiece, PdbLine, PdbPrompt, PdbEnd, Quote, Newline, Arrow, Where
      <4>3. u.line = "prompt" /\ u.status = "RECEIVING" /\ u.out = t.out
        BY <3>5, <4>1, <4>2 DEF ParserState
      <4> HIDE DEF u
      <4>4. v.status = "DONE" /\ v.out = u.out
        BY <1>3, <2>3, <3>5, <4>3, MarkerEnds
      <4> HIDE DEF v, h
      <4>5. CASE chunk = b \o h /\ rest = PdbMarker
        <5>1. q = u
          BY <3>6, <4>5
        <5>2. p = q
          <6> HIDE DEF q
          <6> QED BY <1>3, <4>3, <5>1, PdbStays DEF q, start
        <5> HIDE DEF q
        <5> QED BY <1>3, <3>9, <4>3, <4>5, <5>1, <5>2 DEF Promise
      <4>6. CASE chunk = (b \o h) \o PdbMarker
        <5>1. q = v
          BY <3>7, <4>6
        <5>2. p = q
          <6> HIDE DEF q
          <6> QED BY <1>3, <4>4, <5>1, PdbStays DEF q, start
        <5> HIDE DEF q
        <5> QED BY <3>9, <4>3, <4>4, <5>1, <5>2
      <4> QED BY <3>3, <4>5, <4>6
    <3> QED BY <3>4, <3>8, <3>9
  <2> QED BY <1>3, <2>4, <2>5 DEF Promise
<1> QED BY <1>1, <1>2, <1>3

-----------------------------------------------------------------------------
(* With one user of the channel every caller reads its own output          *)

(* What thread t has still to read of what is there and of the answers to  *)
(* what is written and what it will write, and into what it parses it.     *)
Rest(t) == stdout \o FlatMap(ReplyTo, stdin \o left[t])
Stream(t) == IF step[t] = "parse" THEN reader_buffer \o Rest(t) ELSE Rest(t)
Out(t) == IF step[t] = "run" THEN NoOutput ELSE buffers

(* As long as no read() was cut, the stream has the caller's lines, or the *)
(* buffers have them.                                                      *)
Uncut(t) == IF step[t] = "run" THEN WholeLines(reader_buffer) ELSE ~cut
OwnComing(t) ==
  step[t] \notin {"idle", "loops"} /\ left[t] # <<>> /\ Uncut(t) =>
    /\ step[t] = "parse" => reader_buffer # <<>> /\ WholeLines(reader_buffer)
    /\ IF Answered(t) THEN Shows(buffers, OwnLines(t))
       ELSE Promise(debugger, Out(t), Stream(t), OwnLines(t))

(* A call of parse_debugger_output() is the last thing in a script.        *)
OneParse(t) == \A i \in 1 .. Len(left[t]) - 1 : left[t][i] # Parse

(* Unless an end marker is still to be answered, what is in the pipe is    *)
(* what is behind the last one.                                            *)
Pending == Count(stdin, Marker) > 0 \/ \E t \in Threads : Count(Left(t), Marker) > 0
Behind(chunk, o) ==
  /\ \A i \in 0 .. Len(EndTrail) - 1 : i < Len(o) => o[Len(o) - i] = EndTrail[Len(EndTrail) - i]
  /\ Len(o) < Len(EndTrail) => chunk # <<>> /\ Last(chunk) = EndTrail[Len(EndTrail) - Len(o)]
Settled == Pending \/ Behind(reader_buffer, stdout)

(* Until the prompt has been seen the start-up waits for an answer.        *)
Started == ready \/ (step[main] \in {"run", "read", "parse"} /\ Count(left[main], Parse) > 0)

OwnInv ==
  /\ ChannelInv
  /\ Started /\ Settled
  /\ \A t \in Users : OneParse(t) /\ OwnComing(t)

(* The stream as the caller's commands are sent, answered and read.        *)
LEMMA HeadFirst ==
  ASSUME NEW S, NEW s \in Seq(S), s # <<>>
  PROVE  s = <<Head(s)>> \o Tail(s)
<1>1. PICK n \in Nat \ {0} : n = Len(s)
  BY EmptySeq
<1>2. 1 \in 1 .. n /\ n \in 1 .. n
  OBVIOUS
<1>3. SubSeq(s, 1, n) = <<s[1]>> \o SubSeq(s, 1 + 1, n)
  BY <1>1, <1>2, SubSeqRecursiveFirst
<1>4. SubSeq(s, 1, n) = s
  BY <1>1, SubSeqFull
<1>5. Tail(s) = SubSeq(s, 2, n)
  BY <1>1, TailIsSubSeq
<1> QED BY <1>3, <1>4, <1>5

LEMMA StreamSent ==
  ASSUME NEW S, NEW q \in Seq(S), NEW l \in Seq(S), l # <<>>
  PROVE  Append(q, Head(l)) \o Tail(l) = q \o l
<1> DEFINE h == <<Head(l)>>
           r == Tail(l)
<1>1. Head(l) \in S /\ h \in Seq(S) /\ r \in Seq(S)
  BY HeadTailProperties
<1>2. l = h \o r
  BY HeadFirst
<1>3. Append(q, Head(l)) = q \o h
  BY <1>1, AppendIsConcat
<1> HIDE DEF h, r
<1>4. (q \o h) \o r = q \o (h \o r)
  BY <1>1, ConcatAssociative
<1> QED BY <1>2, <1>3, <1>4 DEF r

LEMMA StreamAnswered ==
  ASSUME NEW m, IsMap(m, Words, Pieces), NEW q \in Seq(Words), q # <<>>, NEW l \in Seq(Words),
         NEW o \in Seq(Pieces)
  PROVE  (o \o m[Head(q)]) \o FlatMap(m, Tail(q) \o l) = o \o FlatMap(m, q \o l)
<1> DEFINE h == <<Head(q)>>
           r == Tail(q)
           a == m[Head(q)]
           b == FlatMap(m, r \o l)
<1>1. Head(q) \in Words /\ h \in Seq(Words) /\ r \in Seq(Words)
  BY HeadTailProperties
<1>2. q = h \o r
  BY HeadFirst
<1>3. r \o l \in Seq(Words)
  <2> HIDE DEF r
  <2> QED BY <1>1, ConcatProperties
<1>4. a \in Seq(Pieces) /\ FlatMap(m, h) = a
  BY <1>1, FlatMapOne DEF IsMap
<1> HIDE DEF h, r, a
<1>5. b \in Seq(Pieces)
  BY <1>3, FlatMapType
<1>6. q \o l = h \o (r \o l)
  <2>1. (h \o r) \o l = h \o (r \o l)
    BY <1>1, ConcatAssociative
  <2> QED BY <1>2, <2>1
<1>7. FlatMap(m, q \o l) = a \o b
  <2>1. PICK x \in Seq(Words), y \in Seq(Words) : x = h /\ y = r \o l
    BY <1>1, <1>3
  <2>2. FlatMap(m, x \o y) = FlatMap(m, x) \o FlatMap(m, y)
    BY FlatMapConcat
  <2> QED BY <1>4, <1>6, <2>1, <2>2
<1> HIDE DEF b
<1>8. (o \o a) \o b = o \o (a \o b)
  BY <1>4, <1>5, ConcatAssociative
<1> QED BY <1>7, <1>8 DEF a, b, r

LEMMA StreamRead ==
  ASSUME NEW S, NEW o \in Seq(S), NEW x \in Seq(S), NEW n \in 1 .. Len(o)
  PROVE  SubSeq(o, 1, n) \o (SubSeq(o, n + 1, Len(o)) \o x) = o \o x
<1> DEFINE a == SubSeq(o, 1, n)
           b == SubSeq(o, n + 1, Len(o))
<1>1. a \in Seq(S) /\ b \in Seq(S)
  BY CutIs
<1>2. PICK m \in Nat : m = Len(o)
  BY LenProperties
<1>3. 1 \in 1 .. m + 1 /\ n \in 1 - 1 .. m /\ m \in n .. m
  BY <1>2
<1>4. a \o b = SubSeq(o, 1, m)
  BY <1>2, <1>3, ConcatAdjacentSubSeq
<1>5. a \o b = o
  BY <1>2, <1>4, SubSeqFull
<1> HIDE DEF a, b
<1>6. (a \o b) \o x = a \o (b \o x)
  BY <1>1, ConcatAssociative, SMTT(30)
<1> QED BY <1>5, <1>6 DEF a, b

LEMMA RestIs ==
  ASSUME TypeInv, NEW t \in Threads
  PROVE  /\ stdin \in Seq(Words) /\ left[t] \in Seq(Words) /\ stdout \in Seq(Pieces)
         /\ FlatMap(ReplyTo, stdin \o left[t]) \in Seq(Pieces) /\ Rest(t) \in Seq(Pieces)
<1>1. stdin \in Seq(Commands \cup {Marker}) /\ stdout \in Seq(Pieces) /\ debugger \in Debuggers
  BY DEF TypeInv, TypeOK
<1>2. left[t] \in Seq(Words) /\ stdin \in Seq(Words)
  BY <1>1 DEF TypeInv, Script, Words
<1>3. PICK q \in Seq(Words) : q = stdin \o left[t]
  BY <1>2, ConcatProperties
<1>4. FlatMap(ReplyTo, q) \in Seq(Pieces)
  BY <1>1, RepliesAre, FlatMapType
<1>5. PICK a \in Seq(Pieces) : a = FlatMap(ReplyTo, q)
  BY <1>4
<1>6. stdout \o a \in Seq(Pieces)
  BY <1>1, ConcatProperties
<1> QED BY <1>1, <1>2, <1>3, <1>5, <1>6 DEF Rest

(* What is left of the answers, when nothing moves in the pipes and the    *)
(* script goes on as it was.                                               *)
LEMMA RestStays ==
  ASSUME NEW t, UNCHANGED <<debugger, stdin, stdout, script>>, left'[t] = left[t]
  PROVE  Rest(t)' = Rest(t) /\ OwnLines(t)' = OwnLines(t)
<1>1. ReplyTo' = ReplyTo
  BY DEF ReplyTo, AnswerPieces, PromptOf
<1> QED BY <1>1 DEF Rest, OwnLines

(* A step of a caller.                                                     *)
LEMMA OwnCallKeeps ==
  ASSUME TypeInv, NEW t \in Users, ThreadStep(t), ready, Fits(t), OneParse(t), OwnComing(t)
  PROVE  OneParse(t)' /\ OwnComing(t)'
<1> USE DEF history, reader, pipes
<1>1. /\ debugger \in Debuggers /\ t \in Threads
      /\ reader_buffer \in Seq(Pieces) /\ buffers \in [Buffers -> Seq(Pieces)]
      /\ step \in [Threads -> Steps] /\ left \in [Threads -> Script]
      /\ stdin \in Seq(Words) /\ left[t] \in Seq(Words) /\ stdout \in Seq(Pieces) /\ Rest(t) \in Seq(Pieces)
      /\ FlatMap(ReplyTo, stdin \o left[t]) \in Seq(Pieces)
      /\ step[t] \in InParse => left[t] # <<>> /\ Head(left[t]) = Parse
  BY RestIs DEF TypeInv, TypeOK, Threads, Steps
<1>2. CASE BeginParse(t)
  <2>1. /\ step[t] = "run" /\ step'[t] = "read" /\ left[t] # <<>> /\ left' = left /\ buffers' = NoOutput
        /\ UNCHANGED <<debugger, stdin, stdout, script, reader_buffer>>
        /\ (~cut' => WholeLines(reader_buffer))
    BY <1>1, <1>2 DEF BeginParse
  <2>2. Rest(t)' = Rest(t) /\ OwnLines(t)' = OwnLines(t)
    BY <2>1, RestStays
  <2>3. OneParse(t)'
    BY <2>1 DEF OneParse
  <2>4. OwnComing(t)'
    <3>1. SUFFICES ASSUME ~cut' PROVE Promise(debugger, Out(t), Stream(t), OwnLines(t))'
      BY <2>1 DEF OwnComing, Uncut, Answered
    <3>2. Promise(debugger, NoOutput, Rest(t), OwnLines(t))
      BY <2>1, <3>1 DEF OwnComing, Uncut, Out, Stream, Answered
    <3> QED BY <2>1, <2>2, <3>2 DEF Out, Stream
  <2> QED BY <2>3, <2>4
<1>3. CASE Send(t)
  <2> DEFINE h == Head(left[t])
             r == Tail(left[t])
  <2>1. /\ step[t] = "run" /\ step' = step /\ left[t] # <<>> /\ left'[t] = r /\ stdin' = Append(stdin, h)
        /\ UNCHANGED <<debugger, stdout, script, reader_buffer>>
    BY <1>1, <1>3 DEF Send
  <2>2. Append(stdin, h) \o r = stdin \o left[t]
    BY <1>1, <2>1, StreamSent
  <2>3. Rest(t)' = Rest(t) /\ OwnLines(t)' = OwnLines(t)
    <3>1. ReplyTo' = ReplyTo
      BY <2>1 DEF ReplyTo, AnswerPieces, PromptOf
    <3> HIDE DEF h, r
    <3>2. stdin' \o left'[t] = stdin \o left[t]
      BY <2>1, <2>2
    <3> QED BY <2>1, <3>1, <3>2 DEF Rest, OwnLines
  <2>4. OneParse(t)'
    <3>1. /\ Len(r) = Len(left[t]) - 1 /\ \A i \in 1 .. Len(r) : r[i] = left[t][i + 1]
          /\ Len(left[t]) \in Nat
      BY <1>1, <2>1, HeadTailProperties, LenProperties
    <3> HIDE DEF r
    <3>2. ASSUME NEW i \in 1 .. Len(r) - 1 PROVE r[i] # Parse
      <4>1. i \in 1 .. Len(r) /\ i + 1 \in 1 .. Len(left[t]) - 1
        BY <3>1
      <4> QED BY <3>1, <4>1 DEF OneParse
    <3> QED BY <2>1, <3>2 DEF OneParse
  <2>5. OwnComing(t)'
    <3>1. SUFFICES ASSUME WholeLines(reader_buffer)' PROVE Promise(debugger, Out(t), Stream(t), OwnLines(t))'
      BY <2>1 DEF OwnComing, Uncut, Answered
    <3>2. WholeLines(reader_buffer)
      BY <2>1, <3>1 DEF WholeLines
    <3>3. Promise(debugger, NoOutput, Rest(t), OwnLines(t))
      BY <2>1, <3>2 DEF OwnComing, Uncut, Out, Stream, Answered
    <3> QED BY <2>1, <2>3, <3>3 DEF Out, Stream
  <2> QED BY <2>4, <2>5
<1>4. CASE Return(t)
  <2>1. step'[t] = "idle" /\ left' = left
    BY <1>1, <1>4 DEF Return
  <2> QED BY <2>1 DEF OneParse, OwnComing
<1>5. CASE Read(t)
  <2>1. PICK n \in 1 .. Len(stdout) :
          reader_buffer' = SubSeq(stdout, 1, n) /\ stdout' = SubSeq(stdout, n + 1, Len(stdout))
    BY <1>5 DEF Read
  <2>2. /\ step[t] = "read" /\ step'[t] = "parse" /\ left' = left /\ stdin' = stdin /\ script' = script
        /\ debugger' = debugger /\ buffers' = buffers /\ (~cut' => ~cut /\ WholeLines(reader_buffer'))
    BY <1>1, <1>5 DEF Read
  <2> DEFINE f == FlatMap(ReplyTo, stdin \o left[t])
  <2>3. Rest(t)' = stdout' \o f /\ OwnLines(t)' = OwnLines(t) /\ Rest(t) = stdout \o f
    <3>1. ReplyTo' = ReplyTo
      BY <2>2 DEF ReplyTo, AnswerPieces, PromptOf
    <3> QED BY <2>2, <3>1 DEF Rest, OwnLines
  <2>4. f \in Seq(Pieces)
    BY <1>1
  <2> HIDE DEF f
  <2>5. reader_buffer' \o (stdout' \o f) = stdout \o f
    BY <1>1, <2>1, <2>4, StreamRead
  <2>6. reader_buffer' # <<>>
    <3>1. n \in Nat /\ n # 0 /\ 1 \in Int /\ \A i \in 1 .. n : stdout[i] \in Pieces
      BY <1>1, ElementOfSeq, LenProperties
    <3>2. SubSeq(stdout, 1, n) \in Seq(Pieces) /\ Len(SubSeq(stdout, 1, n)) = n
      BY <3>1, SubSeqProperties
    <3> QED BY <2>1, <3>1, <3>2, EmptySeq
  <2>7. OneParse(t)'
    BY <2>2 DEF OneParse
  <2>8. OwnComing(t)'
    <3>1. SUFFICES ASSUME ~cut' PROVE WholeLines(reader_buffer)' /\ Promise(debugger, Out(t), Stream(t), OwnLines(t))'
      BY <2>2, <2>6 DEF OwnComing, Uncut, Answered
    <3>2. WholeLines(reader_buffer)'
      BY <2>2, <3>1 DEF WholeLines
    <3>3. Promise(debugger, buffers, Rest(t), OwnLines(t))
      BY <1>1, <2>2, <3>1 DEF OwnComing, Uncut, Out, Stream, Answered, InParse
    <3>4. Stream(t)' = Rest(t) /\ Out(t)' = buffers
      BY <2>2, <2>3, <2>5 DEF Stream, Out
    <3> QED BY <2>2, <2>3, <3>2, <3>3, <3>4
  <2> QED BY <2>7, <2>8
<1>6. CASE WaitReady(t)
  BY <1>6 DEF WaitReady
<1>7. CASE ParseChunk(t)
  <2>1. PICK p \in ParsePieces(debugger, reader_buffer, buffers) :
          /\ buffers' = p.out
          /\ reader_state' = IF p.status = "DONE" THEN "DONE" ELSE reader_state
          /\ step' = [step EXCEPT ![t] = IF p.status = "LOOPS" THEN "loops" ELSE "state"]
    BY <1>7 DEF ParseChunk
  <2>2. /\ step[t] = "parse" /\ left' = left /\ cut' = cut
        /\ UNCHANGED <<debugger, stdin, stdout, script, reader_buffer>>
    BY <1>7 DEF ParseChunk
  <2>3. reader_state = "RECEIVING" /\ left[t] # <<>>
    BY <1>1, <2>2 DEF Fits, InParse
  <2>4. step'[t] = IF p.status = "LOOPS" THEN "loops" ELSE "state"
    BY <1>1, <2>1
  <2>5. p.status \in {"RECEIVING", "DONE", "LOOPS"}
    <3>1. p \in ParserState(debugger)
      BY <1>1, ChunkIs, AnswersAre
    <3> QED BY <3>1 DEF ParserState
  <2>6. Rest(t)' = Rest(t) /\ OwnLines(t)' = OwnLines(t)
    BY <2>2, RestStays
  <2>7. OneParse(t)'
    BY <2>2 DEF OneParse
  <2>8. OwnComing(t)'
    <3>1. SUFFICES ASSUME ~cut, p.status # "LOOPS"
                   PROVE  IF p.status = "DONE" THEN Shows(buffers, OwnLines(t))'
                          ELSE Promise(debugger, Out(t), Stream(t), OwnLines(t))'
      BY <2>1, <2>2, <2>3, <2>4, <2>5 DEF OwnComing, Uncut, Answered
    <3>2. /\ reader_buffer # <<>> /\ WholeLines(reader_buffer)
          /\ Promise(debugger, buffers, reader_buffer \o Rest(t), OwnLines(t))
      BY <2>2, <2>3, <3>1 DEF OwnComing, Uncut, Out, Stream, Answered
    <3>3. /\ p.status = "DONE" => Shows(p.out, OwnLines(t))
          /\ p.status = "RECEIVING" => Promise(debugger, p.out, Rest(t), OwnLines(t))
      BY <1>1, <3>2, ChunkKeepsPromise
    <3>4. Stream(t)' = Rest(t) /\ Out(t)' = p.out
      BY <2>1, <2>4, <2>6, <3>1 DEF Stream, Out
    <3>5. CASE p.status = "DONE"
      <4>1. Shows(buffers, OwnLines(t))' = Shows(p.out, OwnLines(t))
        BY <2>1, <2>6 DEF Shows
      <4> QED BY <3>3, <3>5, <4>1
    <3>6. CASE p.status # "DONE"
      BY <2>2, <2>5, <2>6, <3>1, <3>3, <3>4, <3>6
    <3> QED BY <3>5, <3>6
  <2> QED BY <2>7, <2>8
<1>8. CASE CheckState(t)
  <2>1. /\ step[t] = "state" /\ step'[t] = (IF reader_state = "DONE" THEN "use" ELSE "read")
        /\ left' = left /\ cut' = cut /\ buffers' = buffers /\ left[t] # <<>> /\ reader_state' = reader_state
        /\ UNCHANGED <<debugger, stdin, stdout, script, reader_buffer>>
    BY <1>1, <1>8 DEF CheckState, InParse
  <2>2. Rest(t)' = Rest(t) /\ OwnLines(t)' = OwnLines(t)
    BY <2>1, RestStays
  <2>3. OneParse(t)'
    BY <2>1 DEF OneParse
  <2>4. OwnComing(t)'
    <3>1. SUFFICES ASSUME ~cut
                   PROVE  IF reader_state = "DONE" THEN Shows(buffers, OwnLines(t))'
                          ELSE Promise(debugger, Out(t), Stream(t), OwnLines(t))'
      BY <2>1 DEF OwnComing, Uncut, Answered
    <3>2. IF reader_state = "DONE" THEN Shows(buffers, OwnLines(t))
          ELSE Promise(debugger, buffers, Rest(t), OwnLines(t))
      BY <2>1, <3>1 DEF OwnComing, Uncut, Out, Stream, Answered
    <3>3. CASE reader_state = "DONE"
      <4>1. Shows(buffers, OwnLines(t))' = Shows(buffers, OwnLines(t))
        BY <2>1, <2>2 DEF Shows
      <4> QED BY <3>2, <3>3, <4>1
    <3>4. CASE reader_state # "DONE"
      <4>1. Stream(t)' = Rest(t) /\ Out(t)' = buffers
        BY <2>1, <2>2, <3>4 DEF Stream, Out
      <4> QED BY <2>1, <2>2, <3>2, <3>4, <4>1
    <3> QED BY <3>3, <3>4
  <2> QED BY <2>3, <2>4
<1>9. CASE Use(t)
  <2>1. /\ left[t] # <<>> /\ Head(left[t]) = Parse /\ left'[t] = Tail(left[t])
    BY <1>1, <1>9 DEF Use, InParse
  <2>2. PICK n \in Nat \ {0} : n = Len(left[t])
    BY <1>1, <2>1, EmptySeq
  <2>3. n = 1
    <3> SUFFICES ASSUME n # 1 PROVE FALSE
      OBVIOUS
    <3>1. left[t][1] = Parse
      BY <2>1
    <3>2. \A i \in 1 .. n - 1 : left[t][i] # Parse
      BY <2>2 DEF OneParse
    <3>3. 1 \in 1 .. n - 1
      OBVIOUS
    <3> QED BY <3>1, <3>2, <3>3
  <2>4. Tail(left[t]) \in Seq(Words) /\ Len(Tail(left[t])) = 0
    <3>1. Tail(left[t]) \in Seq(Words) /\ Len(Tail(left[t])) = Len(left[t]) - 1
      BY <1>1, <2>1, HeadTailProperties
    <3> QED BY <2>2, <2>3, <3>1
  <2>5. left'[t] = <<>>
    BY <2>1, <2>4, EmptySeq
  <2>6. OneParse(t)'
    BY <2>1, <2>4 DEF OneParse
  <2> QED BY <2>5, <2>6 DEF OwnComing
<1> QED BY <1>2, <1>3, <1>4, <1>5, <1>6, <1>7, <1>8, <1>9 DEF ThreadStep

(* Nothing happens to a caller.                                            *)
LEMMA OwnStays ==
  ASSUME NEW t, Rest(t)' = Rest(t), OwnLines(t)' = OwnLines(t), OwnComing(t),
         UNCHANGED <<debugger, reader_buffer, reader_state, buffers, cut>>,
         step'[t] = step[t], left'[t] = left[t]
  PROVE  OwnComing(t)'
<1>1. /\ Stream(t)' = Stream(t) /\ Out(t)' = Out(t) /\ Answered(t)' = Answered(t) /\ Uncut(t)' = Uncut(t)
  BY DEF Stream, Out, Answered, Uncut, WholeLines
<1>2. Shows(buffers, OwnLines(t))' = Shows(buffers, OwnLines(t))
  BY DEF Shows
<1>3. WholeLines(reader_buffer)' = WholeLines(reader_buffer)
  BY DEF WholeLines
<1>4. Promise(debugger, Out(t), Stream(t), OwnLines(t))' = Promise(debugger, Out(t), Stream(t), OwnLines(t))
  BY <1>1
<1> QED BY <1>1, <1>2, <1>3, <1>4 DEF OwnComing

(* The debugger answers: what was to come is there.                        *)
LEMMA OwnAnswered ==
  ASSUME TypeInv, NEW t \in Users, Debugger, OwnComing(t)
  PROVE  OwnComing(t)'
<1>1. /\ debugger \in Debuggers /\ t \in Threads /\ stdin \in Seq(Commands \cup {Marker})
      /\ stdin \in Seq(Words) /\ left[t] \in Seq(Words) /\ stdout \in Seq(Pieces) /\ stdin # <<>>
  BY RestIs DEF TypeInv, TypeOK, Threads, Debugger
<1> DEFINE h == Head(stdin)
           r == Tail(stdin)
<1>2. /\ UNCHANGED <<debugger, script, left, step, reader_buffer, reader_state, buffers, cut>>
      /\ stdin' = r /\ stdout' = stdout \o AnswerPieces(h)
  BY DEF Debugger, reader, history
<1>3. ReplyTo[h] = AnswerPieces(h)
  <2>1. h \in Commands \/ h = Marker
    BY <1>1, HeadTailProperties
  <2> QED BY <1>1, <2>1, RepliesAre
<1>4. (stdout \o ReplyTo[h]) \o FlatMap(ReplyTo, r \o left[t]) = stdout \o FlatMap(ReplyTo, stdin \o left[t])
  <2>1. PICK m : m = ReplyTo /\ IsMap(m, Words, Pieces)
    BY <1>1, RepliesAre
  <2>2. PICK q \in Seq(Words), l \in Seq(Words), o \in Seq(Pieces) : q = stdin /\ l = left[t] /\ o = stdout
    BY <1>1
  <2>3. q # <<>>
    BY <1>1, <2>2
  <2>4. (o \o m[Head(q)]) \o FlatMap(m, Tail(q) \o l) = o \o FlatMap(m, q \o l)
    BY ONLY <2>1, <2>3, q \in Seq(Words), l \in Seq(Words), o \in Seq(Pieces), StreamAnswered
  <2> QED BY <2>1, <2>2, <2>4
<1> HIDE DEF h, r
<1>5. Rest(t)' = Rest(t) /\ OwnLines(t)' = OwnLines(t)
  <2>1. ReplyTo' = ReplyTo
    BY <1>2 DEF ReplyTo, AnswerPieces, PromptOf
  <2> QED BY <1>2, <1>3, <1>4, <2>1 DEF Rest, OwnLines
<1> QED BY <1>2, <1>5, OwnStays

(* The answer to an end marker ends with the marker and its trail,         *)
LEMMA EndTrailIs ==
  ASSUME debugger \in Debuggers
  PROVE  LET s == AnswerPieces(Marker)
         IN /\ s \in Seq(Pieces) /\ Len(EndTrail) \in Nat \ {0} /\ Len(s) >= Len(EndTrail)
            /\ EndTrail[1] = EndOf
            /\ \A i \in 0 .. Len(EndTrail) - 1 : s[Len(s) - i] = EndTrail[Len(EndTrail) - i]
<1> DEFINE s == AnswerPieces(Marker)
<1>1. CASE debugger = "GDB"
  <2>1. /\ s \in Seq(Pieces) /\ Len(EndTrail) = 6 /\ Len(s) = 7 /\ EndTrail[1] = GdbEnd
        /\ \A i \in 1 .. 6 : s[i + 1] = EndTrail[i]
    BY <1>1, MarkerAnswerIs
  <2> HIDE DEF s
  <2>2. ASSUME NEW i \in 0 .. 5 PROVE s[7 - i] = EndTrail[6 - i]
    <3>1. 6 - i \in 1 .. 6 /\ (6 - i) + 1 = 7 - i
      OBVIOUS
    <3> QED BY <2>1, <3>1
  <2> QED BY <1>1, <2>1, <2>2 DEF EndOf, s
<1>2. CASE debugger # "GDB"
  <2>1. s \in Seq(Pieces) /\ Len(EndTrail) = 3 /\ s = EndTrail /\ EndTrail[1] = PdbEnd
    BY <1>2, MarkerAnswerIs
  <2> HIDE DEF s
  <2>2. Len(s) = 3 /\ Len(EndTrail) \in Nat \ {0}
    BY <2>1
  <2>3. \A i \in 0 .. Len(EndTrail) - 1 : s[Len(s) - i] = EndTrail[Len(EndTrail) - i]
    BY <2>1
  <2>4. Len(s) >= Len(EndTrail)
    <3>1. PICK n \in Nat : n = Len(s) /\ n = Len(EndTrail)
      BY <2>1, <2>2
    <3> QED BY <3>1
  <2>5. EndTrail[1] = EndOf
    BY <1>2, <2>1 DEF EndOf
  <2> QED BY <2>1, <2>2, <2>3, <2>4, <2>5 DEF s
<1> QED BY <1>1, <1>2

(* it settles the pipe when it is written,                                 *)
LEMMA MarkerBehind ==
  ASSUME debugger \in Debuggers, NEW o \in Seq(Pieces), NEW chunk
  PROVE  Behind(chunk, o \o AnswerPieces(Marker))
<1> DEFINE s == AnswerPieces(Marker)
           u == o \o s
<1>1. /\ s \in Seq(Pieces) /\ Len(s) >= Len(EndTrail) /\ Len(EndTrail) \in Nat \ {0}
      /\ \A i \in 0 .. Len(EndTrail) - 1 : s[Len(s) - i] = EndTrail[Len(EndTrail) - i]
  BY EndTrailIs
<1> HIDE DEF s
<1>2. PICK m \in Nat, n \in Nat, k \in Nat \ {0} : m = Len(o) /\ n = Len(s) /\ k = Len(EndTrail)
  BY <1>1, LenProperties
<1>3. Len(u) = m + n /\ \A i \in 1 .. m + n : u[i] = IF i <= m THEN o[i] ELSE s[i - m]
  BY <1>1, <1>2, ConcatProperties
<1> HIDE DEF u
<1>4. ASSUME NEW i \in 0 .. k - 1 PROVE u[(m + n) - i] = s[n - i]
  <2>1. (m + n) - i \in 1 .. m + n /\ ~((m + n) - i <= m) /\ ((m + n) - i) - m = n - i
    BY <1>1, <1>2
  <2> QED BY <1>3, <2>1
<1>5. n >= k
  BY <1>1, <1>2
<1> QED BY <1>1, <1>2, <1>3, <1>4, <1>5 DEF Behind, u, s

(* and read() takes from the front.                                        *)
LEMMA ReadBehind ==
  ASSUME debugger \in Debuggers, NEW o \in Seq(Pieces), NEW chunk, Behind(chunk, o), NEW n \in 1 .. Len(o)
  PROVE  Behind(SubSeq(o, 1, n), SubSeq(o, n + 1, Len(o)))
<1> DEFINE a == SubSeq(o, 1, n)
           b == SubSeq(o, n + 1, Len(o))
<1>1. PICK m \in Nat, k \in Nat \ {0} : m = Len(o) /\ k = Len(EndTrail)
  BY EndTrailIs, LenProperties
<1>2. n \in Nat \ {0} /\ n \in 1 .. m
  BY <1>1
<1>3. b \in Seq(Pieces) /\ Len(b) = m - n /\ \A i \in 1 .. m - n : b[i] = o[n + i]
  BY <1>1, CutIs
<1>4. a \in Seq(Pieces) /\ Len(a) = n /\ a[n] = o[n]
  <2>1. \A i \in 1 .. n : o[i] \in Pieces
    BY <1>1, <1>2, ElementOfSeq
  <2>2. a \in Seq(Pieces) /\ Len(a) = n /\ \A i \in 1 .. (n - 1) + 1 : a[i] = o[(1 + i) - 1]
    BY <1>2, <2>1, SubSeqProperties
  <2>3. n \in 1 .. (n - 1) + 1 /\ (1 + n) - 1 = n
    BY <1>2
  <2> HIDE DEF a
  <2> QED BY <2>2, <2>3
<1> HIDE DEF a, b
<1>5. \A i \in 0 .. k - 1 : i < m => o[m - i] = EndTrail[k - i]
  BY <1>1 DEF Behind
<1>6. ASSUME NEW i \in 0 .. k - 1, i < m - n PROVE b[(m - n) - i] = EndTrail[k - i]
  <2>1. (m - n) - i \in 1 .. m - n /\ n + ((m - n) - i) = m - i /\ i < m
    BY <1>2, <1>6
  <2> QED BY <1>3, <1>5, <2>1
<1>7. ASSUME m - n < k PROVE a # <<>> /\ Last(a) = EndTrail[k - (m - n)]
  <2>1. m - n \in 0 .. k - 1 /\ m - n < m /\ m - (m - n) = n
    BY <1>2, <1>7
  <2>2. o[n] = EndTrail[k - (m - n)]
    BY <1>5, <2>1
  <2>3. a # <<>>
    BY <1>2, <1>4, EmptySeq
  <2> QED BY <1>4, <2>2, <2>3 DEF Last
<1> QED BY <1>1, <1>3, <1>6, <1>7 DEF Behind, a, b


(* The end marker is read: what is still in the pipe, when the last chunk  *)
(* ended with a line, is what a call may find there.                       *)
LEMMA LeftoverIs ==
  ASSUME debugger \in Debuggers, NEW chunk, NEW o \in Seq(Pieces), Behind(chunk, o),
         \A i \in 1 .. Len(o) : o[i] # EndOf, WholeLines(chunk)
  PROVE  Leftover(o)
<1>1. PICK n \in Nat, k \in Nat \ {0} : n = Len(o) /\ k = Len(EndTrail) /\ \A i \in 1 .. n : o[i] # EndOf
  BY EndTrailIs, LenProperties
<1>2. \A i \in 0 .. k - 1 : i < n => o[n - i] = EndTrail[k - i]
  BY <1>1 DEF Behind
<1>3. n < k
  <2> SUFFICES ASSUME ~(n < k) PROVE FALSE
    OBVIOUS
  <2>1. k - 1 \in 0 .. k - 1 /\ k - 1 < n /\ k - (k - 1) = 1 /\ n - (k - 1) \in 1 .. n
    OBVIOUS
  <2>2. o[n - (k - 1)] = EndTrail[1]
    BY <1>2, <2>1
  <2> QED BY <1>1, <2>1, <2>2, EndTrailIs
<1>4. chunk # <<>> /\ Last(chunk) = EndTrail[k - n]
  BY <1>1, <1>3 DEF Behind
<1>5. ASSUME NEW i \in 1 .. n PROVE o[i] = EndTrail[(k - n) + i]
  <2>1. n - i \in 0 .. k - 1 /\ n - i < n /\ n - (n - i) = i /\ k - (n - i) = (k - n) + i
    BY <1>3
  <2> QED BY <1>2, <2>1
<1>6. CASE debugger = "GDB"
  <2>1. /\ k = 6 /\ EndTrail[1] = GdbEnd /\ EndTrail[2] = Newline /\ EndTrail[3] = "^"
        /\ EndTrail[4] = Done /\ EndTrail[5] = Newline /\ EndTrail[6] = GdbPrompt
    BY <1>1, <1>6, MarkerAnswerIs
  <2>2. Last(chunk) \in {Newline, GdbPrompt}
    BY <1>4, <1>6 DEF WholeLines
  <2>3. n \in {0, 1, 4}
    <3>1. n \in {0, 1, 2, 3, 4, 5}
      BY <1>3, <2>1
    <3>2. GdbEnd \notin {Newline, GdbPrompt} /\ "^" \notin {Newline, GdbPrompt} /\ Done \notin {Newline, GdbPrompt}
      BY DEF GdbEnd, Newline, GdbPrompt, Done
    <3>3. CASE n = 2
      BY <1>4, <2>1, <2>2, <3>2, <3>3
    <3>4. CASE n = 3
      BY <1>4, <2>1, <2>2, <3>2, <3>4
    <3>5. CASE n = 5
      BY <1>4, <2>1, <2>2, <3>2, <3>5
    <3> QED BY <3>1, <3>3, <3>4, <3>5
  <2>4. CASE n = 0
    BY <1>1, <2>4, EmptySeq DEF Leftover
  <2>5. CASE n = 1
    <3>1. o[1] = GdbPrompt
      BY <1>5, <2>1, <2>5
    <3> DEFINE e == <<GdbPrompt>>
    <3>2. e \in Seq({GdbPrompt}) /\ Len(e) = 1 /\ e[1] = GdbPrompt
      OBVIOUS
    <3> HIDE DEF e
    <3>3. Len(o) = Len(e)
      BY <1>1, <2>5, <3>2
    <3>4. \A i \in 1 .. Len(o) : o[i] = e[i]
      BY <1>1, <2>5, <3>1, <3>2
    <3>5. o = e
      BY <3>2, <3>3, <3>4, SeqEqual
    <3> QED BY <1>6, <3>5 DEF Leftover, e
  <2>6. CASE n = 4
    <3> DEFINE e == <<"^", Done, Newline, GdbPrompt>>
    <3>1. o[1] = "^" /\ o[2] = Done /\ o[3] = Newline /\ o[4] = GdbPrompt
      BY <1>5, <2>1, <2>6
    <3>2. Len(e) = 4 /\ e[1] = "^" /\ e[2] = Done /\ e[3] = Newline /\ e[4] = GdbPrompt /\ e \in Seq({"^", Done, Newline, GdbPrompt})
      OBVIOUS
    <3> HIDE DEF e
    <3>3. Len(o) = Len(e)
      BY <1>1, <2>6, <3>2
    <3>4. \A i \in 1 .. Len(o) : o[i] = e[i]
      BY <1>1, <2>6, <3>1, <3>2
    <3>5. o = e
      BY <3>2, <3>3, <3>4, SeqEqual
    <3> QED BY <1>6, <3>5 DEF Leftover, e
  <2> QED BY <2>3, <2>4, <2>5, <2>6
<1>7. CASE debugger # "GDB"
  <2>1. k = 3 /\ EndTrail[1] = PdbEnd /\ EndTrail[2] = Newline /\ EndTrail[3] = PdbPrompt
    BY <1>1, <1>7, MarkerAnswerIs
  <2>2. Last(chunk) = PdbPrompt
    BY <1>4, <1>7 DEF WholeLines
  <2>3. n = 0
    <3>1. n \in {0, 1, 2}
      BY <1>3, <2>1
    <3>2. PdbEnd # PdbPrompt /\ Newline # PdbPrompt
      BY DEF PdbEnd, Newline, PdbPrompt
    <3>3. n # 1
      BY <1>4, <2>1, <2>2, <3>2
    <3>4. n # 2
      BY <1>4, <2>1, <2>2, <3>2
    <3> QED BY <3>1, <3>3, <3>4
  <2> QED BY <1>1, <2>3, EmptySeq DEF Leftover
<1> QED BY <1>6, <1>7


(* A call that begins when nothing is under way.                           *)
LEMMA OwnCalled ==
  ASSUME TypeInv, NEW u \in Users, NEW s \in Scripts[debugger][u], Call(u, s), Settled,
         \A t \in Threads : step[t] = "idle", stdin = <<>>, \A i \in 1 .. Len(stdout) : stdout[i] # EndOf
  PROVE  OneParse(u)' /\ OwnComing(u)'
<1>1. /\ debugger \in Debuggers /\ stdout \in Seq(Pieces) /\ u \in Threads
      /\ step'[u] = "run" /\ left'[u] = s /\ script'[u] = s
      /\ UNCHANGED <<debugger, stdin, stdout, reader_buffer>>
  BY DEF TypeInv, TypeOK, Threads, Call, pipes, reader
<1>2. Behind(reader_buffer, stdout)
  <2>1. Count(stdin, Marker) = 0
    BY <1>1, Counted
  <2>2. \A t \in Threads : Count(Left(t), Marker) = 0
    BY <1>1, Counted DEF Left
  <2> QED BY <2>1, <2>2 DEF Settled, Pending
<1>3. OneParse(u)'
  <2>1. PICK n \in Nat : n = Len(s)
    <3>1. s \in Seq(Words)
      BY <1>1, ScriptsAre DEF Script, Words
    <3> QED BY <3>1, LenProperties
  <2>2. ASSUME NEW i \in 1 .. n - 1 PROVE s[i] # Parse
    <3>1. s[n - 1] = Marker /\ \A j \in 1 .. n - 2 : s[j] \in Commands
      BY <1>1, <2>1, CallsAssumption
    <3>2. i = n - 1 \/ i \in 1 .. n - 2
      OBVIOUS
    <3> QED BY <3>1, <3>2, ChannelAssumption
  <2> QED BY <1>1, <2>1, <2>2 DEF OneParse
<1>4. SUFFICES ASSUME WholeLines(reader_buffer)'
               PROVE  Promise(debugger, Out(u), Stream(u), OwnLines(u))'
  BY <1>1, <1>3 DEF OwnComing, Uncut, Answered
<1>5. WholeLines(reader_buffer)
  BY <1>1, <1>4 DEF WholeLines
<1>6. Leftover(stdout)
  BY <1>1, <1>2, <1>5, LeftoverIs
<1>7. s \in Seq(Words) /\ Promise(debugger, NoOutput, stdout \o FlatMap(ReplyTo, s), FlatMap(OwnOf, s))
  BY <1>1, <1>6, CallPromised
<1>8. Rest(u)' = stdout \o FlatMap(ReplyTo, s)
  <2>1. <<>> \o s = s
    BY <1>7, ConcatEmptySeq
  <2>2. ReplyTo' = ReplyTo
    BY <1>1 DEF ReplyTo, AnswerPieces, PromptOf
  <2> QED BY <1>1, <2>1, <2>2 DEF Rest
<1>9. OwnLines(u)' = FlatMap(OwnOf, s)
  <2> DEFINE f == [i \in DOMAIN s |-> IF s[i] \in Commands THEN Answers[debugger][s[i]] ELSE <<>>]
             g == [i \in DOMAIN s |-> OwnOf[s[i]]]
  <2>1. \A i \in DOMAIN s : s[i] \in Words
    BY <1>7, LenProperties, ElementOfSeq
  <2>2. f = g
    BY <2>1 DEF OwnOf
  <2>3. OwnLines(u)' = FlattenSeq(f)
    BY <1>1 DEF OwnLines
  <2>4. FlatMap(OwnOf, s) = FlattenSeq(g)
    BY DEF FlatMap
  <2> HIDE DEF f, g
  <2> QED BY <2>2, <2>3, <2>4
<1> QED BY <1>1, <1>7, <1>8, <1>9 DEF Stream, Out


(* The pipe settles: a step of the one thread that is inside a call,       *)
LEMMA SettledCall ==
  ASSUME TypeInv, NEW t \in Threads, ThreadStep(t), Alone(t), Settled
  PROVE  Settled'
<1> USE DEF history, reader, pipes
<1>1. /\ debugger \in Debuggers /\ stdin \in Seq(Commands \cup {Marker}) /\ stdout \in Seq(Pieces)
      /\ step \in [Threads -> Steps] /\ left \in [Threads -> Script]
      /\ left[t] \in Seq(Commands \cup {Marker, Parse})
      /\ step[t] \in InParse => left[t] # <<>> /\ Head(left[t]) = Parse
  BY DEF TypeInv, TypeOK, Steps, Script
<1>2. /\ Count(stdin, Marker) \in Nat /\ Count(Left(t), Marker) \in Nat
      /\ Count(<<>>, Marker) = 0
  BY Counted
<1>3. Left(t) = left[t] /\ debugger' = debugger
  BY DEF Left, ThreadStep, Send, Return, BeginParse, Read, WaitReady, ParseChunk, CheckState, Use
<1>4. Pending => Covered(t)
  <2>1. \A u \in Threads \ {t} : Left(u) = <<>>
    BY DEF Alone, Left
  <2>2. \A u \in Threads \ {t} : ~(Count(Left(u), Marker) > 0)
    BY <1>2, <2>1
  <2> QED BY <2>2 DEF Pending, Covered
<1>5. ASSUME Covered(t) PROVE Covered(t)'
  <2>1. ASSUME stdin' = stdin, Left(t)' = Left(t) PROVE Covered(t)'
    BY <1>5, <2>1 DEF Covered
  <2>2. CASE Send(t)
    <3> DEFINE h == Head(left[t])
               r == Tail(left[t])
               q == Append(stdin, h)
    <3>1. left[t] # <<>> /\ h \in Commands \cup {Marker} /\ r \in Seq(Commands \cup {Marker, Parse})
      BY <1>1, <2>2, HeadTailProperties DEF Send
    <3>2. stdin' = q /\ Left(t)' = r
      BY <1>1, <2>2 DEF Send, Left
    <3>3. Count(q, Marker) = Count(stdin, Marker) + (IF h = Marker THEN 1 ELSE 0)
      BY <1>1, <3>1, CountAppend
    <3>4. Count(left[t], Marker) = Count(r, Marker) + (IF h = Marker THEN 1 ELSE 0)
      BY <1>1, <3>1, CountTail
    <3>5. Count(r, Marker) \in Nat
      <4>1. Len(r) \in Nat
        BY <3>1, LenProperties
      <4> QED BY <4>1, CountIs
    <3> HIDE DEF h, r, q
    <3> QED BY <1>2, <1>3, <1>5, <3>2, <3>3, <3>4, <3>5 DEF Covered
  <2>3. CASE Return(t)
    BY <1>1, <1>3, <2>1, <2>3 DEF Return, Left
  <2>4. CASE Use(t)
    <3> DEFINE r == Tail(left[t])
    <3>1. /\ left[t] # <<>> /\ Head(left[t]) = Parse /\ r \in Seq(Commands \cup {Marker, Parse})
          /\ Left(t)' = r /\ stdin' = stdin
      BY <1>1, <2>4, HeadTailProperties DEF Use, Left, InParse
    <3>2. Count(left[t], Marker) = Count(r, Marker) + (IF Parse = Marker THEN 1 ELSE 0)
      BY <1>1, <3>1, CountTail
    <3>3. Count(r, Marker) \in Nat
      <4>1. Len(r) \in Nat
        BY <3>1, LenProperties
      <4> QED BY <4>1, CountIs
    <3> HIDE DEF r
    <3> QED BY <1>2, <1>3, <1>5, <3>1, <3>2, <3>3, ChannelAssumption DEF Covered
  <2>5. CASE BeginParse(t) \/ Read(t) \/ WaitReady(t) \/ ParseChunk(t) \/ CheckState(t)
    <3>1. stdin' = stdin /\ Left(t)' = Left(t)
      BY <1>1, <1>3, <2>5 DEF Left, BeginParse, Read, WaitReady, ParseChunk, CheckState
    <3> QED BY <2>1, <3>1
  <2> QED BY <2>2, <2>3, <2>4, <2>5 DEF ThreadStep
<1>6. ASSUME Behind(reader_buffer, stdout) PROVE Behind(reader_buffer, stdout)'
  <2>1. EndTrail' = EndTrail
    BY <1>3 DEF EndTrail
  <2>2. CASE Read(t)
    <3>1. PICK n \in 1 .. Len(stdout) :
            reader_buffer' = SubSeq(stdout, 1, n) /\ stdout' = SubSeq(stdout, n + 1, Len(stdout))
      BY <2>2 DEF Read
    <3>2. Behind(SubSeq(stdout, 1, n), SubSeq(stdout, n + 1, Len(stdout)))
      BY <1>1, <1>6, ReadBehind
    <3> DEFINE a == SubSeq(stdout, 1, n)
               b == SubSeq(stdout, n + 1, Len(stdout))
    <3>3. Behind(a, b) /\ reader_buffer' = a /\ stdout' = b
      BY <3>1, <3>2
    <3> HIDE DEF a, b
    <3> QED BY <2>1, <3>3 DEF Behind
  <2>3. CASE ~Read(t)
    <3>1. stdout' = stdout /\ reader_buffer' = reader_buffer
      BY <2>3 DEF ThreadStep, Send, Return, BeginParse, WaitReady, ParseChunk, CheckState, Use
    <3> QED BY <1>6, <2>1, <3>1 DEF Behind
  <2> QED BY <2>2, <2>3
<1> QED BY <1>4, <1>5, <1>6 DEF Settled, Pending, Covered

(* an answer: the last one is that to an end marker.                       *)
LEMMA SettledAnswer ==
  ASSUME TypeInv, NEW t \in Threads, Debugger, Followed(t)
  PROVE  Settled'
<1>1. /\ debugger \in Debuggers /\ stdin \in Seq(Commands \cup {Marker}) /\ stdin # <<>>
      /\ stdout \in Seq(Pieces)
  BY DEF TypeInv, TypeOK, Debugger
<1> DEFINE h == Head(stdin)
           q == Tail(stdin)
<1>2. /\ stdin' = q /\ stdout' = stdout \o AnswerPieces(h) /\ debugger' = debugger
      /\ reader_buffer' = reader_buffer /\ Left(t)' = Left(t)
  BY DEF Debugger, reader, Left
<1>3. Count(stdin, Marker) = Count(q, Marker) + (IF h = Marker THEN 1 ELSE 0)
  BY <1>1, CountTail
<1>4. Count(q, Marker) \in Nat
  <2>1. q \in Seq(Commands \cup {Marker})
    BY <1>1, HeadTailProperties
  <2>2. Len(q) \in Nat
    BY <2>1, LenProperties
  <2> QED BY <2>2, CountIs
<1>5. Count(stdin, Last(stdin)) > 0
  BY <1>1, EndsOf
<1> HIDE DEF h, q
<1>6. SUFFICES ASSUME ~Pending' PROVE Behind(reader_buffer, stdout)'
  BY DEF Settled
<1>7. ~(Count(q, Marker) > 0) /\ ~(Count(Left(t), Marker) > 0)
  BY <1>2, <1>6 DEF Pending
<1>8. h = Marker
  BY <1>1, <1>3, <1>4, <1>5, <1>7 DEF Followed
<1>9. Behind(reader_buffer, stdout \o AnswerPieces(Marker))
  BY <1>1, MarkerBehind
<1> DEFINE o == stdout \o AnswerPieces(Marker)
<1>10. Behind(reader_buffer, o) /\ stdout' = o /\ EndTrail' = EndTrail
  BY <1>2, <1>8, <1>9 DEF EndTrail
<1> HIDE DEF o
<1> QED BY <1>2, <1>10 DEF Behind

(* Until the session is up only the start-up goes on.                      *)
LEMMA StartedCall ==
  ASSUME TypeInv, NEW t \in Threads, ThreadStep(t), Alone(t), Started
  PROVE  Started'
<1> USE DEF history, reader, pipes
<1>1. CASE ready
  BY <1>1 DEF Started, ThreadStep, Send, Return, BeginParse, Read, WaitReady, ParseChunk, CheckState, Use
<1>2. CASE ~ready
  <2>1. step[main] \in {"run", "read", "parse"} /\ Count(left[main], Parse) > 0 /\ main \in Threads
    BY <1>2 DEF Started, Threads
  <2>2. t = main
    BY <2>1 DEF Alone
  <2>3. step \in [Threads -> Steps] /\ left \in [Threads -> Script] /\ left[main] \in Seq(Words)
    BY <2>1 DEF TypeInv, TypeOK, Steps, Script, Words
  <2>4. CASE Send(main)
    <3> DEFINE r == Tail(left[main])
    <3>1. left[main] # <<>> /\ Head(left[main]) # Parse /\ step' = step /\ left'[main] = r /\ r \in Seq(Words)
      BY <2>1, <2>3, <2>4, HeadTailProperties DEF Send
    <3>2. Count(left[main], Parse) = Count(r, Parse) + (IF Head(left[main]) = Parse THEN 1 ELSE 0)
      BY <2>3, <3>1, CountTail
    <3>3. Count(r, Parse) \in Nat
      <4>1. Len(r) \in Nat
        BY <3>1, LenProperties
      <4> QED BY <4>1, CountIs
    <3> HIDE DEF r
    <3>4. step'[main] \in {"run", "read", "parse"} /\ Count(left'[main], Parse) > 0
      BY <2>1, <2>4, <3>1, <3>2, <3>3
    <3> QED BY <3>4 DEF Started
  <2>5. ~Return(main)
    BY <2>1, Counted DEF Return
  <2>6. CASE BeginParse(main) \/ Read(main) \/ WaitReady(main)
    BY <2>1, <2>3, <2>6 DEF Started, BeginParse, Read, WaitReady
  <2>7. ~ParseChunk(main) /\ ~CheckState(main) /\ ~Use(main)
    BY <1>2, <2>1 DEF ParseChunk, CheckState, Use
  <2> QED BY <2>2, <2>4, <2>5, <2>6, <2>7 DEF ThreadStep
<1> QED BY <1>1, <1>2


(* What stands in a script is counted there.                               *)
LEMMA MarkerPending ==
  ASSUME NEW s \in Script, NEW n \in 1 .. Len(s), NEW x, s[n] = x
  PROVE  Count(s, x) > 0
<1>1. Len(s) \in Nat
  BY LenProperties DEF Script
<1> QED BY <1>1, CountIs

(* What a start and a restart begin with.                                  *)
LEMMA OwnStarts ==
  ASSUME debugger' \in Debuggers, step'[main] = "run", left'[main] = StartScript[debugger']
  PROVE  Started' /\ Settled'
<1>1. PICK s \in Script : s = StartScript[debugger']
  BY ChannelAssumption
<1>2. Count(s, Marker) = Count(s, Parse)
  BY <1>1, ScriptsAssumption DEF Count
<1>3. Count(s, Parse) > 0
  <2>1. PICK n \in 1 .. Len(s) : s[n] = Parse
    BY <1>1, CallsAssumption DEF Places
  <2> QED BY <2>1, MarkerPending
<1>4. main \in Threads /\ Left(main)' = s
  BY <1>1 DEF Threads, Left
<1> QED BY <1>1, <1>2, <1>3, <1>4 DEF Started, Settled, Pending

(* Every step keeps the invariant.                                         *)
LEMMA OwnInvKept == OneUser /\ OwnInv /\ [Next]_vars => OwnInv'
<1> SUFFICES ASSUME OneUser, OwnInv, [Next]_vars PROVE OwnInv'
  OBVIOUS
<1> USE DEF history, reader, pipes
<1>1. ChannelInv /\ ChannelInv' /\ TypeInv /\ Started /\ Settled
  BY ChannelInvKept DEF OwnInv, ChannelInv
<1>2. PICK t \in Threads : Alone(t) /\ Fits(t) /\ Followed(t)
  BY <1>1 DEF ChannelInv
<1>3. step \in [Threads -> Steps] /\ left \in [Threads -> Script] /\ debugger \in Debuggers
  BY <1>1 DEF TypeInv, TypeOK, Steps
<1>4. main \in Threads /\ main \notin Users /\ Users \subseteq {send_key, update_thread}
  BY ChannelAssumption DEF Threads
<1>5. \A u, w \in Users : u = w
  BY <1>4 DEF OneUser
<1>6. \A u \in Users : u \in Threads /\ OneParse(u) /\ OwnComing(u)
  BY DEF OwnInv, Threads
<1>7. CASE Debugger
  <2>1. UNCHANGED <<debugger, ready, left, step>>
    BY <1>7 DEF Debugger
  <2>2. Started'
    BY <1>1, <2>1 DEF Started
  <2>3. Settled'
    BY <1>1, <1>2, <1>7, SettledAnswer
  <2>4. ASSUME NEW u \in Users PROVE OneParse(u)' /\ OwnComing(u)'
    BY <1>1, <1>6, <1>7, <2>1, OwnAnswered DEF OneParse
  <2> QED BY <1>1, <2>2, <2>3, <2>4 DEF OwnInv
<1>8. ASSUME NEW u \in Threads, ThreadStep(u) PROVE OwnInv'
  <2>1. step[u] # "idle" /\ \A w \in Threads \ {u} : step'[w] = step[w] /\ left'[w] = left[w]
    BY <1>3, <1>8 DEF ThreadStep, Send, Return, BeginParse, Read, WaitReady, ParseChunk, CheckState, Use
  <2>2. u = t
    BY <1>2, <2>1 DEF Alone
  <2>3. Started' /\ Settled'
    BY <1>1, <1>2, <1>8, <2>2, StartedCall, SettledCall
  <2>4. ASSUME NEW w \in Users PROVE OneParse(w)' /\ OwnComing(w)'
    <3>1. CASE w = t
      <4>1. ready
        <5>1. step[main] = "idle"
          BY <1>2, <1>4, <3>1 DEF Alone
        <5> QED BY <1>1, <5>1 DEF Started
      <4> QED BY <1>1, <1>2, <1>6, <1>8, <2>2, <3>1, <4>1, OwnCallKeeps
    <3>2. CASE w # t
      <4>1. step[w] = "idle" /\ step'[w] = "idle" /\ left'[w] = left[w]
        BY <1>2, <1>6, <2>1, <2>2, <3>2 DEF Alone
      <4> QED BY <1>6, <4>1 DEF OneParse, OwnComing
    <3> QED BY <3>1, <3>2
  <2> QED BY <1>1, <2>3, <2>4 DEF OwnInv
<1>9. CASE Restart
  <2>1. /\ send_key \in Users /\ debugger' = debugger
        /\ step' = [step EXCEPT ![main] = "run", ![send_key] = "idle"]
        /\ left' = [left EXCEPT ![main] = StartScript[debugger]]
    BY <1>9 DEF Restart
  <2>2. step'[main] = "run" /\ left'[main] = StartScript[debugger']
    BY <1>3, <1>4, <2>1
  <2>3. Started' /\ Settled'
    BY <1>3, <2>1, <2>2, OwnStarts
  <2>4. ASSUME NEW w \in Users PROVE OneParse(w)' /\ OwnComing(w)'
    <3>1. w = send_key /\ w \in Threads /\ w # main
      BY <1>4, <1>5, <1>6, <2>1
    <3>2. step'[w] = "idle" /\ left'[w] = left[w]
      BY <1>3, <2>1, <3>1
    <3> QED BY <1>6, <3>2 DEF OneParse, OwnComing
  <2> QED BY <1>1, <2>3, <2>4 DEF OwnInv
<1>10. ASSUME NEW u \in Users, NEW s \in Scripts[debugger][u], Call(u, s) PROVE OwnInv'
  <2>1. /\ ready' = ready /\ debugger' = debugger /\ stdin' = stdin
        /\ step' = [step EXCEPT ![u] = "run"] /\ left' = [left EXCEPT ![u] = s]
        /\ step[u] = "idle" /\ ~misread
    BY <1>10 DEF Call
  <2>2. step[main] = "idle"
    <3>1. ~(u = update_thread /\ restarts > 0)
      BY <1>1, <1>4 DEF ChannelInv, OneUser
    <3> QED BY <1>10, <3>1 DEF Call, Serving
  <2>3. \A w \in Threads : step[w] = "idle"
    BY <1>5, <2>1, <2>2 DEF Threads
  <2>4. stdin = <<>> /\ ToSet(stdout) \cap (Texts \cup {EndOf}) = {}
    BY <1>1, <2>1, <2>3, CleanAtRest DEF CleanWhenIdle
  <2>5. \A i \in 1 .. Len(stdout) : stdout[i] # EndOf
    <3>1. stdout \in Seq(Pieces)
      BY <1>1 DEF TypeInv, TypeOK
    <3>2. \A i \in 1 .. Len(stdout) : stdout[i] \in ToSet(stdout)
      BY <3>1 DEF ToSet
    <3> QED BY <2>4, <3>2
  <2>6. OneParse(u)' /\ OwnComing(u)'
    BY <1>1, <1>10, <2>3, <2>4, <2>5, OwnCalled
  <2>7. Started'
    <3>1. ready
      BY <1>1, <2>2 DEF Started
    <3> QED BY <2>1, <3>1 DEF Started
  <2>8. Settled'
    <3>1. s \in Script /\ Len(s) \in Nat
      BY <1>3, ScriptsAre, LenProperties DEF Script
    <3>2. Len(s) - 1 \in 1 .. Len(s) /\ s[Len(s) - 1] = Marker
      BY <1>3, <3>1, CallsAssumption
    <3>3. Count(s, Marker) > 0
      BY <3>1, <3>2, MarkerPending
    <3>4. u \in Threads /\ Left(u)' = s
      BY <1>3, <1>6, <2>1 DEF Left
    <3> QED BY <3>3, <3>4 DEF Settled, Pending
  <2> QED BY <1>1, <1>5, <2>6, <2>7, <2>8 DEF OwnInv
<1>11. CASE UNCHANGED vars
  <2>1. /\ UNCHANGED <<debugger, stdin, stdout, ready, reader_buffer, reader_state, buffers>>
        /\ UNCHANGED <<script, left, step, cut>>
    BY <1>11 DEF vars
  <2>2. Started' /\ Settled'
    BY <1>1, <2>1 DEF Started, Settled, Pending, Behind, EndTrail, Left
  <2>3. ASSUME NEW u \in Users PROVE OneParse(u)' /\ OwnComing(u)'
    <3>1. Rest(u)' = Rest(u) /\ OwnLines(u)' = OwnLines(u)
      BY <2>1, RestStays
    <3> QED BY <1>6, <2>1, <3>1, OwnStays DEF OneParse
  <2> QED BY <1>1, <2>2, <2>3 DEF OwnInv
<1> QED BY <1>7, <1>8, <1>9, <1>10, <1>11 DEF Next

(* With one user of the channel a caller of parse_debugger_output() finds  *)
(* in each buffer what its own commands printed for it: however the answers*)
(* were cut into read()s, as long as no line was, after any restarts, and  *)
(* whatever is left in the pipe behind the end marker of the call before.  *)
THEOREM OneUserReadsOwn ==
  ASSUME OneUser
  PROVE  Spec => []OutputIsOwn
<1>1. Init => OwnInv
  <2> SUFFICES ASSUME Init PROVE OwnInv
    OBVIOUS
  <2>1. ChannelInv /\ debugger \in Debuggers
    BY ChannelInitially DEF ChannelInv, TypeInv, TypeOK
  <2>2. /\ main \in Threads /\ main \notin Users /\ step[main] = "run" /\ left[main] = StartScript[debugger]
        /\ \A u \in Users : step[u] = "idle" /\ left[u] = <<>>
    BY ChannelAssumption DEF Init, Threads
  <2>3. Started /\ Settled
    <3>1. PICK s \in Script : s = StartScript[debugger]
      BY <2>1, ChannelAssumption
    <3>2. Count(s, Marker) = Count(s, Parse)
      BY <2>1, <3>1, ScriptsAssumption DEF Count
    <3>3. PICK n \in 1 .. Len(s) : s[n] = Parse
      BY <2>1, <3>1, CallsAssumption DEF Places
    <3>4. Count(s, Parse) > 0
      BY <3>3, MarkerPending
    <3>5. Left(main) = s
      BY <2>2, <3>1 DEF Left
    <3> QED BY <2>2, <3>1, <3>2, <3>4, <3>5 DEF Started, Settled, Pending
  <2>4. \A u \in Users : OneParse(u) /\ OwnComing(u)
    BY <2>2 DEF OneParse, OwnComing
  <2> QED BY <2>1, <2>3, <2>4 DEF OwnInv
<1>2. OwnInv /\ [Next]_vars => OwnInv'
  BY OwnInvKept
<1>3. OwnInv => OutputIsOwn
  <2> SUFFICES ASSUME OwnInv, NEW t \in Users, step[t] = "use", ~cut
               PROVE  Shows(buffers, OwnLines(t))
    BY DEF OutputIsOwn, Shows
  <2>1. left[t] # <<>>
    BY DEF OwnInv, ChannelInv, TypeInv, Threads, InParse
  <2> QED BY <2>1 DEF OwnInv, OwnComing, Uncut, Answered
<1> QED BY <1>1, <1>2, <1>3, PTL DEF Spec
=============================================================================
