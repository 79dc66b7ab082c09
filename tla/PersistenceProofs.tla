-------------------------- MODULE PersistenceProofs --------------------------
(***************************************************************************)
(* Proofs about Persistence for every alphabet, every set of names and     *)
(* locations, every capacity of the queue and every number of sessions.    *)
(***************************************************************************)
EXTENDS Persistence, SequenceTheorems, WellFoundedInduction, TLAPS

Name == Seq(Characters \ {Newline})

(* What the reader of the file has read, and where it is.                  *)
At(at, watches, breaks) == [at |-> at, watches |-> watches, breaks |-> breaks]
Readers ==
  {r \in [at : {"outside", "header", "watchpoints", "variable", "breakpoints", "location"},
          watches : Seq(Name), breaks : Seq(Name)] :
     /\ r.at = "variable" => r.watches # <<>>
     /\ r.at = "location" => r.breaks # <<>>}

(* The breakpoints as the update thread reads them from the answer.        *)
Listed(breaks) == IF Range(Places(breaks)) \cap Misread = {} THEN breaks ELSE <<>>

(* What is out of date is about to be brought up to date: a stale copy has *)
(* an update queued or under way, and so has a stale file.                 *)
Pending ==
  phase = "up" =>
    /\ breakpoints = Listed(debugger_breaks) \/ "Brk" \in ToSet(updates) \/ update_pc = "query"
    /\ updates # <<>> \/ update_pc # "wait" \/ file = Lines(watchpoints, breakpoints)

(* Where the breakpoints of a careful user are: in the debugger while it   *)
(* runs, in the file until it has loaded them, with nothing under way that *)
(* could overwrite the file in between.                                    *)
Kept ==
  /\ phase = "up" /\ careful => wanted = Range(Places(debugger_breaks))
  /\ phase # "up" => debugger_breaks = <<>>
  /\ phase # "up" /\ careful => /\ updates = <<>> /\ update_pc = "wait"
                                /\ wanted = ToSet(Parsed(file).breaks)
  /\ careful => wanted \subseteq Reloadable /\ Len(watchpoints) <= 1

(* The inductive invariant.                                                *)
PersistenceInv == TypeOK /\ Pending /\ Kept

-----------------------------------------------------------------------------
(* Induction, and the recursive functions of the model.                    *)

(* Every non-empty set of natural numbers has a least element.             *)
LEMMA LeastNumber ==
  ASSUME NEW T \in SUBSET Nat, T # {}
  PROVE  \E x \in T : \A y \in T : x <= y
<1> DEFINE Less == {pair \in Nat \X Nat : pair[1] < pair[2]}
<1>1. IsWellFoundedOn(Less, Nat)
  BY NatLessThanWellFounded DEF OpToRel
<1> HIDE DEF Less
<1>2. PICK x \in T : \A y \in T : <<y, x>> \notin Less
  BY <1>1, WFMin
<1>3. \A y \in T : ~ (y < x)
  BY <1>2 DEF Less
<1>4. QED BY <1>3

(* Induction over the natural numbers, for a property stated as a set: the *)
(* least number outside it is neither 0 nor a successor.                   *)
LEMMA Induction ==
  ASSUME NEW S, 0 \in S, \A n \in Nat : n \in S => n + 1 \in S
  PROVE  Nat \subseteq S
<1> SUFFICES ASSUME Nat \ S # {} PROVE FALSE
  OBVIOUS
<1>1. PICK n \in Nat \ S : \A y \in Nat \ S : n <= y
  BY LeastNumber
<1>2. n # 0 /\ n - 1 \in Nat
  BY <1>1
<1>3. n - 1 \in S
  BY <1>1, <1>2
<1>4. (n - 1) + 1 \in S
  BY <1>2, <1>3
<1>5. QED BY <1>1, <1>4

(* There is a function that begins with a value and goes on as a turn says.*)
IsStep(turn, n, D) == turn \in [(1 .. n) \X D -> D]
LEMMA Iteration ==
  ASSUME NEW D, NEW start \in D, NEW n \in Nat, NEW turn, IsStep(turn, n, D)
  PROVE  \E f \in [0 .. n -> D] : f[0] = start /\ \A i \in 1 .. n : f[i] = turn[<<i, f[i - 1]>>]
<1> DEFINE Goes(f, k) == f[0] = start /\ \A i \in 1 .. k : f[i] = turn[<<i, f[i - 1]>>]
           Solved == {k \in Nat : k <= n => \E f \in [0 .. k -> D] : Goes(f, k)}
<1>1. 0 \in Solved
  <2>1. [i \in 0 .. 0 |-> start] \in [0 .. 0 -> D] /\ Goes([i \in 0 .. 0 |-> start], 0)
    OBVIOUS
  <2> HIDE DEF Goes
  <2> QED BY <2>1
<1>2. ASSUME NEW l \in Nat, l \in Solved PROVE l + 1 \in Solved
  <2> SUFFICES ASSUME l + 1 <= n PROVE \E f \in [0 .. l + 1 -> D] : Goes(f, l + 1)
    OBVIOUS
  <2>0. PICK k \in 1 .. n : k = l + 1 /\ l = k - 1
    OBVIOUS
  <2>1. PICK f \in [0 .. k - 1 -> D] : Goes(f, k - 1)
    BY <1>2, <2>0
  <2> DEFINE g == [i \in 0 .. k |-> IF i = k THEN turn[<<k, f[k - 1]>>] ELSE f[i]]
  <2>2. f[k - 1] \in D /\ turn[<<k, f[k - 1]>>] \in D
    <3>1. k - 1 \in 0 .. k - 1
      OBVIOUS
    <3>2. f[k - 1] \in D
      BY <3>1
    <3>3. <<k, f[k - 1]>> \in (1 .. n) \X D
      BY <3>2
    <3> QED BY <3>2, <3>3 DEF IsStep
  <2>3. g \in [0 .. k -> D]
    BY <2>2
  <2>4. \A i \in 0 .. k - 1 : g[i] = f[i]
    OBVIOUS
  <2>5. g[k] = turn[<<k, f[k - 1]>>]
    OBVIOUS
  <2> HIDE DEF g
  <2>6. g[0] = start
    BY <2>1, <2>4
  <2>7. ASSUME NEW i \in 1 .. k PROVE g[i] = turn[<<i, g[i - 1]>>]
    <3>1. g[i - 1] = f[i - 1]
      BY <2>4
    <3>2. CASE i = k
      BY <2>5, <3>1, <3>2
    <3>3. CASE i \in 1 .. k - 1
      BY <2>1, <2>4, <3>1, <3>3
    <3> QED BY <3>2, <3>3
  <2>8. Goes(g, k)
    BY <2>6, <2>7
  <2> HIDE DEF Goes
  <2> QED BY <2>0, <2>3, <2>8
<1> HIDE DEF Solved
<1>3. n \in Solved
  BY <1>1, <1>2, Induction
<1> QED BY <1>3 DEF Solved

(* Only walks the sequence from its first element: there is a function     *)
(* that gives what is kept of every prefix.                                *)
LEMMA OnlyKeeps ==
  ASSUME NEW s, NEW set, Len(s) \in Nat
  PROVE  \E kept :
           /\ kept = [i \in 0 .. Len(s) |->
                        IF i = 0 THEN <<>>
                        ELSE IF s[i] \in set THEN Append(kept[i - 1], s[i]) ELSE kept[i - 1]]
           /\ Only(s, set) = kept[Len(s)]
<1> DEFINE Step(f, i) == IF i = 0 THEN <<>>
                         ELSE IF s[i] \in set THEN Append(f[i - 1], s[i]) ELSE f[i - 1]
           Solved == {n \in Nat : \E f : f = [i \in 0 .. n |-> Step(f, i)]}
<1>1. 0 \in Solved
  <2> DEFINE g == [i \in 0 .. 0 |-> <<>>]
  <2>1. g = [i \in 0 .. 0 |-> Step(g, i)]
    OBVIOUS
  <2>2. QED BY <2>1
<1>2. ASSUME NEW n \in Nat, n \in Solved PROVE n + 1 \in Solved
  <2>1. PICK f : f = [i \in 0 .. n |-> Step(f, i)]
    BY <1>2
  <2> DEFINE g == [i \in 0 .. n + 1 |-> IF i = n + 1 THEN Step(f, i) ELSE f[i]]
  <2>2. ASSUME NEW i \in 0 .. n + 1 PROVE g[i] = Step(g, i)
    <3>1. CASE i = 0
      <4>1. f[0] = <<>>
        BY <2>1
      <4>2. QED BY <3>1, <4>1
    <3>2. CASE i \in 1 .. n
      <4>1. g[i] = f[i] /\ g[i - 1] = f[i - 1]
        BY <3>2
      <4>2. f[i] = Step(f, i)
        <5> DEFINE h == [j \in 0 .. n |-> Step(f, j)]
        <5>1. f = h
          BY <2>1
        <5>2. h[i] = Step(f, i)
          <6>1. i \in 0 .. n
            BY <3>2
          <6> HIDE DEF Step
          <6>2. QED BY <6>1
        <5> HIDE DEF h
        <5>3. QED BY <5>1, <5>2
      <4>3. QED BY <3>2, <4>1, <4>2
    <3>3. CASE i = n + 1
      <4>1. g[i] = Step(f, i) /\ g[i - 1] = f[i - 1]
        BY <3>3
      <4>2. QED BY <3>3, <4>1
    <3>4. QED BY <3>1, <3>2, <3>3
  <2>3. g = [i \in 0 .. n + 1 |-> g[i]]
    OBVIOUS
  <2> HIDE DEF g
  <2>4. g = [i \in 0 .. n + 1 |-> Step(g, i)]
    BY <2>2, <2>3
  <2>5. QED BY <2>4
<1> HIDE DEF Solved
<1>3. Len(s) \in Solved
  BY <1>1, <1>2, Induction
<1> USE DEF Solved
<1>4. QED BY <1>3 DEF Only

(* The same as a recurrence.                                               *)
LEMMA OnlyRecurrence ==
  ASSUME NEW s, NEW set, Len(s) \in Nat
  PROVE  \E kept : /\ kept[0] = <<>>
                   /\ \A i \in 1 .. Len(s) :
                        kept[i] = IF s[i] \in set THEN Append(kept[i - 1], s[i]) ELSE kept[i - 1]
                   /\ Only(s, set) = kept[Len(s)]
<1> DEFINE Step(f, i) == IF i = 0 THEN <<>>
                         ELSE IF s[i] \in set THEN Append(f[i - 1], s[i]) ELSE f[i - 1]
<1>1. PICK kept : /\ kept = [i \in 0 .. Len(s) |-> Step(kept, i)]
                  /\ Only(s, set) = kept[Len(s)]
  BY OnlyKeeps
<1>2. \A i \in 0 .. Len(s) : kept[i] = Step(kept, i)
  <2> DEFINE h == [i \in 0 .. Len(s) |-> Step(kept, i)]
  <2>1. kept = h
    BY <1>1
  <2> HIDE DEF Step
  <2>2. \A i \in 0 .. Len(s) : h[i] = Step(kept, i)
    OBVIOUS
  <2> HIDE DEF h
  <2>3. QED BY <2>1, <2>2
<1>3. kept[0] = <<>>
  <2>1. 0 \in 0 .. Len(s)
    OBVIOUS
  <2>2. Step(kept, 0) = <<>>
    OBVIOUS
  <2> HIDE DEF Step
  <2>3. QED BY <1>2, <2>1, <2>2
<1>4. ASSUME NEW i \in 1 .. Len(s)
      PROVE  kept[i] = IF s[i] \in set THEN Append(kept[i - 1], s[i]) ELSE kept[i - 1]
  <2>1. kept[i] = Step(kept, i)
    <3> HIDE DEF Step
    <3>1. i \in 0 .. Len(s)
      OBVIOUS
    <3>2. QED BY <1>2, <3>1
  <2>2. i # 0
    OBVIOUS
  <2>3. QED BY <2>1, <2>2
<1>5. QED BY <1>1, <1>3, <1>4

(* The elements of a longer sequence.                                      *)
LEMMA ElementsOfAppend ==
  ASSUME NEW S, NEW s \in Seq(S), NEW e \in S
  PROVE  ToSet(Append(s, e)) = ToSet(s) \cup {e}
<1>1. \A i \in 1 .. Len(s) : Append(s, e)[i] = s[i]
  BY AppendProperties
<1>2. Append(s, e)[Len(s) + 1] = e /\ DOMAIN Append(s, e) = 1 .. Len(s) + 1
  BY AppendProperties, LenProperties
<1>3. DOMAIN s = 1 .. Len(s) /\ Len(s) \in Nat
  BY LenProperties
<1>4. QED BY <1>1, <1>2, <1>3 DEF ToSet

(* What Only keeps is exactly what is in the set ...                       *)
LEMMA OnlyElements ==
  ASSUME NEW S, NEW s \in Seq(S), NEW set
  PROVE  /\ Only(s, set) \in Seq(set)
         /\ ToSet(Only(s, set)) = ToSet(s) \cap set
<1>1. Len(s) \in Nat /\ DOMAIN s = 1 .. Len(s)
  BY LenProperties
<1>2. PICK kept : /\ kept[0] = <<>>
                  /\ \A i \in 1 .. Len(s) :
                       kept[i] = IF s[i] \in set THEN Append(kept[i - 1], s[i]) ELSE kept[i - 1]
                  /\ Only(s, set) = kept[Len(s)]
  BY <1>1, OnlyRecurrence
<1> DEFINE Upto(n) == {s[i] : i \in 1 .. n}
           Good == {n \in Nat : n <= Len(s) =>
                       kept[n] \in Seq(set) /\ ToSet(kept[n]) = Upto(n) \cap set}
<1>3. 0 \in Good
  <2>1. <<>> \in Seq(set) /\ ToSet(<<>>) = {} /\ Upto(0) = {}
    BY EmptySeq DEF ToSet
  <2>2. QED BY <1>2, <2>1
<1>4. ASSUME NEW n \in Nat, n \in Good PROVE n + 1 \in Good
  <2> SUFFICES ASSUME n + 1 <= Len(s)
               PROVE  kept[n + 1] \in Seq(set) /\ ToSet(kept[n + 1]) = Upto(n + 1) \cap set
    OBVIOUS
  <2>1. kept[n] \in Seq(set) /\ ToSet(kept[n]) = Upto(n) \cap set
    BY <1>1, <1>4
  <2>2. n + 1 \in 1 .. Len(s) /\ (n + 1) - 1 = n
    BY <1>1
  <2>3. kept[n + 1] = IF s[n + 1] \in set THEN Append(kept[n], s[n + 1]) ELSE kept[n]
    BY <1>2, <2>2
  <2>4. Upto(n + 1) = Upto(n) \cup {s[n + 1]}
    OBVIOUS
  <2>5. CASE s[n + 1] \in set
    <3>1. kept[n + 1] \in Seq(set)
      BY <2>1, <2>3, <2>5, AppendProperties
    <3>2. ToSet(kept[n + 1]) = ToSet(kept[n]) \cup {s[n + 1]}
      BY <2>1, <2>3, <2>5, ElementsOfAppend
    <3> HIDE DEF Upto
    <3>3. QED BY <3>1, <3>2, <2>1, <2>4, <2>5
  <2>6. CASE s[n + 1] \notin set
    <3> HIDE DEF Upto
    <3>1. QED BY <2>1, <2>3, <2>4, <2>6
  <2>7. QED BY <2>5, <2>6
<1> HIDE DEF Good
<1>5. Len(s) \in Good
  BY <1>1, <1>3, <1>4, Induction
<1> USE DEF Good
<1>6. QED BY <1>1, <1>2, <1>5 DEF ToSet

(* ... and the whole sequence when all of it is.                           *)
LEMMA OnlyAll ==
  ASSUME NEW S, NEW s \in Seq(S)
  PROVE  Only(s, S) = s
<1>1. Len(s) \in Nat /\ s \in [1 .. Len(s) -> S]
  BY LenProperties
<1>2. PICK kept : /\ kept[0] = <<>>
                  /\ \A i \in 1 .. Len(s) :
                       kept[i] = IF s[i] \in S THEN Append(kept[i - 1], s[i]) ELSE kept[i - 1]
                  /\ Only(s, S) = kept[Len(s)]
  BY <1>1, OnlyRecurrence
<1> DEFINE Good == {n \in Nat : n <= Len(s) => kept[n] = SubSeq(s, 1, n)}
<1>3. 0 \in Good
  <2>1. 0 \in Int /\ 1 \in Int /\ 0 < 1
    OBVIOUS
  <2>2. SubSeq(s, 1, 0) = <<>>
    BY <2>1, SubSeqEmpty
  <2>3. QED BY <1>2, <2>2
<1>4. ASSUME NEW n \in Nat, n \in Good PROVE n + 1 \in Good
  <2> SUFFICES ASSUME n + 1 <= Len(s)
               PROVE  kept[n + 1] = SubSeq(s, 1, n + 1)
    OBVIOUS
  <2>1. n + 1 \in 1 .. Len(s) /\ (n + 1) - 1 = n
    BY <1>1
  <2>2. kept[n] = SubSeq(s, 1, n)
    BY <1>1, <1>4
  <2>3. s[n + 1] \in S
    BY <1>1, <2>1
  <2>4. kept[n + 1] = Append(SubSeq(s, 1, n), s[n + 1])
    BY <1>2, <2>1, <2>2, <2>3
  <2>5. SubSeq(s, 1, n) \in Seq(S)
    BY <1>1, <2>1, SubSeqProperties
  <2>6. SubSeq(s, 1, n + 1) = SubSeq(s, 1, n) \o <<s[n + 1]>>
    <3>1. 1 \in 1 .. Len(s) /\ n + 1 \in 1 .. Len(s)
      BY <1>1, <2>1
    <3>2. QED BY <3>1, <2>1, SubSeqRecursiveSecond
  <2>7. QED BY <2>3, <2>4, <2>5, <2>6, AppendIsConcat
<1> HIDE DEF Good
<1>5. Len(s) \in Good
  BY <1>1, <1>3, <1>4, Induction
<1> USE DEF Good
<1>6. QED BY <1>1, <1>2, <1>5, SubSeqFull

(* The elements of two sequences put together.                             *)
LEMMA ElementsOfConcat ==
  ASSUME NEW S, NEW s \in Seq(S), NEW t \in Seq(S)
  PROVE  ToSet(s \o t) = ToSet(s) \cup ToSet(t)
<1>1. /\ Len(s) \in Nat /\ DOMAIN s = 1 .. Len(s)
      /\ Len(t) \in Nat /\ DOMAIN t = 1 .. Len(t)
  BY LenProperties
<1>2. /\ DOMAIN (s \o t) = 1 .. Len(s) + Len(t)
      /\ \A i \in 1 .. Len(s) + Len(t) : (s \o t)[i] = IF i <= Len(s) THEN s[i] ELSE t[i - Len(s)]
  BY ConcatProperties, LenProperties
<1>3. ASSUME NEW e \in ToSet(s \o t) PROVE e \in ToSet(s) \cup ToSet(t)
  <2>1. PICK i \in 1 .. Len(s) + Len(t) : e = (s \o t)[i]
    BY <1>2 DEF ToSet
  <2>2. CASE i <= Len(s)
    BY <1>1, <1>2, <2>1, <2>2 DEF ToSet
  <2>3. CASE i > Len(s)
    <3>1. i - Len(s) \in 1 .. Len(t) /\ ~ (i <= Len(s))
      BY <1>1, <2>1, <2>3
    <3>2. e = t[i - Len(s)]
      BY <1>2, <2>1, <3>1
    <3>3. QED BY <1>1, <3>1, <3>2 DEF ToSet
  <2>4. QED BY <1>1, <2>1, <2>2, <2>3
<1>4. ASSUME NEW e \in ToSet(s) PROVE e \in ToSet(s \o t)
  <2>1. PICK i \in 1 .. Len(s) : e = s[i]
    BY <1>1 DEF ToSet
  <2>2. i \in 1 .. Len(s) + Len(t) /\ i <= Len(s)
    BY <1>1, <2>1
  <2>3. QED BY <1>2, <2>1, <2>2 DEF ToSet
<1>5. ASSUME NEW e \in ToSet(t) PROVE e \in ToSet(s \o t)
  <2>1. PICK i \in 1 .. Len(t) : e = t[i]
    BY <1>1 DEF ToSet
  <2>2. /\ i + Len(s) \in 1 .. Len(s) + Len(t) /\ ~ (i + Len(s) <= Len(s))
        /\ (i + Len(s)) - Len(s) = i
    BY <1>1, <2>1
  <2>3. (s \o t)[i + Len(s)] = e
    BY <1>2, <2>1, <2>2
  <2>4. QED BY <1>2, <2>2, <2>3 DEF ToSet
<1>6. QED BY <1>3, <1>4, <1>5

(* The elements of what is left of a queue.                                *)
LEMMA ElementsOfTail ==
  ASSUME NEW S, NEW s \in Seq(S), s # <<>>
  PROVE  ToSet(s) = {Head(s)} \cup ToSet(Tail(s))
<1>1. /\ Len(s) \in Nat \ {0} /\ DOMAIN s = 1 .. Len(s)
      /\ DOMAIN Tail(s) = 1 .. Len(s) - 1 /\ Head(s) = s[1]
      /\ \A i \in 1 .. Len(s) - 1 : Tail(s)[i] = s[i + 1]
  BY EmptySeq, HeadTailProperties, LenProperties
<1>2. ASSUME NEW e \in ToSet(s) PROVE e \in {Head(s)} \cup ToSet(Tail(s))
  <2>1. PICK i \in 1 .. Len(s) : e = s[i]
    BY <1>1 DEF ToSet
  <2>2. CASE i = 1
    BY <1>1, <2>1, <2>2
  <2>3. CASE i # 1
    <3>1. i - 1 \in 1 .. Len(s) - 1 /\ (i - 1) + 1 = i
      BY <1>1, <2>1, <2>3
    <3>2. Tail(s)[i - 1] = e
      BY <1>1, <2>1, <3>1
    <3>3. QED BY <1>1, <3>1, <3>2 DEF ToSet
  <2>4. QED BY <2>2, <2>3
<1>3. ASSUME NEW e \in ToSet(Tail(s)) PROVE e \in ToSet(s)
  <2>1. PICK i \in 1 .. Len(s) - 1 : e = Tail(s)[i]
    BY <1>1 DEF ToSet
  <2>2. i + 1 \in 1 .. Len(s) /\ e = s[i + 1]
    BY <1>1, <2>1
  <2>3. QED BY <1>1, <2>2 DEF ToSet
<1>4. Head(s) \in ToSet(s)
  <2>1. 1 \in 1 .. Len(s)
    BY <1>1
  <2>2. QED BY <1>1, <2>1 DEF ToSet
<1>5. QED BY <1>2, <1>3, <1>4

(* One element less.                                                       *)
LEMMA RemoveAtShortens ==
  ASSUME NEW S, NEW s \in Seq(S), NEW i \in DOMAIN s
  PROVE  RemoveAt(s, i) \in Seq(S) /\ Len(RemoveAt(s, i)) = Len(s) - 1
<1>1. Len(s) \in Nat /\ i \in 1 .. Len(s) /\ \A j \in 1 .. Len(s) : s[j] \in S
  BY LenProperties
<1>2. /\ 1 \in Int /\ i - 1 \in Int /\ i + 1 \in Int /\ Len(s) \in Int
      /\ \A j \in 1 .. i - 1 : s[j] \in S
      /\ \A j \in i + 1 .. Len(s) : s[j] \in S
  BY <1>1
<1>3. /\ SubSeq(s, 1, i - 1) \in Seq(S)
      /\ Len(SubSeq(s, 1, i - 1)) = IF 1 <= i - 1 THEN (i - 1) - 1 + 1 ELSE 0
  BY <1>2, SubSeqProperties
<1>4. /\ SubSeq(s, i + 1, Len(s)) \in Seq(S)
      /\ Len(SubSeq(s, i + 1, Len(s))) = IF i + 1 <= Len(s) THEN Len(s) - (i + 1) + 1 ELSE 0
  BY <1>2, SubSeqProperties
<1>5. Len(SubSeq(s, 1, i - 1)) = i - 1 /\ Len(SubSeq(s, i + 1, Len(s))) = Len(s) - i
  BY <1>1, <1>3, <1>4
<1>6. /\ RemoveAt(s, i) \in Seq(S)
      /\ Len(RemoveAt(s, i)) = Len(SubSeq(s, 1, i - 1)) + Len(SubSeq(s, i + 1, Len(s)))
  BY <1>3, <1>4, ConcatProperties DEF RemoveAt
<1>7. (i - 1) + (Len(s) - i) = Len(s) - 1
  BY <1>1
<1>8. QED BY <1>5, <1>6, <1>7

(* An update is in the queue once it has taken it.                         *)
LEMMA EnqueueAdds ==
  ASSUME updates \in Seq({"Wat", "Brk"}), NEW windows \in Seq({"Wat", "Brk"}), windows # <<>>,
         Enqueue(windows)
  PROVE  /\ updates' \in Seq({"Wat", "Brk"}) /\ updates' # <<>>
         /\ Len(updates') <= MaxQueuedUpdates
         /\ ToSet(updates') = ToSet(updates) \cup ToSet(windows)
<1> DEFINE Kinds == {"Wat", "Brk"}
<1>1. updates' = updates \o windows /\ Len(updates) + Len(windows) <= MaxQueuedUpdates
  BY DEF Enqueue
<1>2. updates \o windows \in Seq(Kinds) /\ Len(updates \o windows) = Len(updates) + Len(windows)
  BY ConcatProperties
<1>3. updates \o windows # <<>>
  BY ConcatEqualIffEmpty
<1>4. ToSet(updates \o windows) = ToSet(updates) \cup ToSet(windows)
  <2>1. updates \in Seq(Kinds) /\ windows \in Seq(Kinds)
    OBVIOUS
  <2> HIDE DEF Kinds
  <2>2. QED BY <2>1, ElementsOfConcat
<1>5. QED BY <1>1, <1>2, <1>3, <1>4

(* The requests the plugins and the start make.                            *)
LEMMA Requests ==
  /\ \A windows \in {<<"Wat", "Brk">>, <<"Brk">>, <<"Wat">>} :
       windows \in Seq({"Wat", "Brk"}) /\ windows # <<>>
  /\ "Brk" \in ToSet(<<"Wat", "Brk">>) /\ "Brk" \in ToSet(<<"Brk">>)
BY DEF ToSet

-----------------------------------------------------------------------------
(* The text of the file.                                                   *)

LEMMA CharactersAre ==
  /\ Newline \in Characters /\ ">" \in Characters /\ "w" \in Characters /\ "b" \in Characters
  /\ Newline # ">" /\ Newline # "[" /\ Newline # "w" /\ Newline # "b"
  /\ Newline \notin Alphanumeric /\ ">" \notin Alphanumeric /\ "[" \notin Alphanumeric
  /\ Alphanumeric \subseteq Characters
BY CharactersAssumption DEF Newline

(* Pieces of text put together.                                            *)
LEMMA CharactersConcat ==
  ASSUME NEW a \in Seq(Characters), NEW b \in Seq(Characters), NEW c \in Seq(Characters)
  PROVE  (a \o b) \o c = a \o (b \o c)
BY ConcatAssociative, SMTT(60)

(* A line and its end.                                                     *)
LEMMA LineIs ==
  ASSUME NEW line \in Name
  PROVE  line \in Seq(Characters) /\ Append(line, Newline) \in Seq(Characters)
<1>1. line \in Seq(Characters)
  BY SeqMonotonic DEF Name
<1>2. QED BY <1>1, CharactersAre, AppendProperties

(* Text puts one line behind the other.                                    *)
LEMMA TextRecurrence ==
  ASSUME NEW lines \in Seq(Name)
  PROVE  \E f \in [0 .. Len(lines) -> Seq(Characters)] :
           /\ f[0] = <<>>
           /\ \A i \in 1 .. Len(lines) : f[i] = f[i - 1] \o Append(lines[i], Newline)
           /\ Text(lines) = f[Len(lines)]
<1>1. PICK n \in Nat : n = Len(lines)
  BY LenProperties
<1>2. \A i \in 1 .. n : lines[i] \in Name
  BY <1>1, ElementOfSeq
<1> DEFINE D == Seq(Characters)
           Whole(f) == [i \in 0 .. n |-> IF i = 0 THEN <<>>
                                         ELSE f[i - 1] \o Append(lines[i], Newline)]
           turn == [q \in (1 .. n) \X D |-> q[2] \o Append(lines[q[1]], Newline)]
<1>3. <<>> \in D /\ \A i \in 1 .. n, d \in D : d \o Append(lines[i], Newline) \in D
  <2>1. <<>> \in D
    BY EmptySeq
  <2>2. ASSUME NEW i \in 1 .. n, NEW d \in D PROVE d \o Append(lines[i], Newline) \in D
    <3>1. Append(lines[i], Newline) \in D
      BY <1>2, LineIs
    <3>2. QED BY <3>1, ConcatProperties
  <2>3. QED BY <2>1, <2>2
<1> HIDE DEF D
<1>4. IsStep(turn, n, D) /\ \A k \in 1 .. n, d \in D : turn[<<k, d>>] = d \o Append(lines[k], Newline)
  BY <1>3 DEF IsStep
<1> HIDE DEF turn
<1>5. PICK g \in [0 .. n -> D] : g[0] = <<>> /\ \A i \in 1 .. n : g[i] = turn[<<i, g[i - 1]>>]
  <2>1. PICK start \in D : start = <<>>
    BY <1>3
  <2>2. \E g \in [0 .. n -> D] : g[0] = start /\ \A i \in 1 .. n : g[i] = turn[<<i, g[i - 1]>>]
    BY <1>4, Iteration
  <2>3. QED BY <2>1, <2>2
<1>6. \A i \in 1 .. n : g[i] = g[i - 1] \o Append(lines[i], Newline)
  <2>1. \A i \in 1 .. n : g[i - 1] \in D
    BY <1>5
  <2>2. QED BY <1>4, <1>5, <2>1
<1>7. g = Whole(g)
  BY <1>5, <1>6
<1>8. PICK f : f = Whole(f) /\ Text(lines) = f[n]
  BY <1>1, <1>7 DEF Text
<1>9. \A i \in 0 .. n : f[i] = IF i = 0 THEN <<>> ELSE f[i - 1] \o Append(lines[i], Newline)
  <2> DEFINE h == Whole(f)
  <2>1. \A i \in 0 .. n : h[i] = IF i = 0 THEN <<>> ELSE f[i - 1] \o Append(lines[i], Newline)
    OBVIOUS
  <2>2. f = h
    BY <1>8
  <2> HIDE DEF h
  <2>3. QED BY <2>1, <2>2
<1> HIDE DEF Whole
<1> DEFINE S == {i \in Nat : i <= n => f[i] = g[i]}
<1>10. 0 \in S
  BY <1>5, <1>9
<1>11. ASSUME NEW i \in Nat, i \in S PROVE i + 1 \in S
  <2> SUFFICES ASSUME i + 1 <= n PROVE f[i + 1] = g[i + 1]
    OBVIOUS
  <2>1. i + 1 \in 1 .. n /\ i + 1 \in 0 .. n /\ i + 1 # 0 /\ (i + 1) - 1 = i
    OBVIOUS
  <2>2. f[i + 1] = f[i] \o Append(lines[i + 1], Newline)
    BY <1>9, <2>1
  <2>3. g[i + 1] = g[i] \o Append(lines[i + 1], Newline)
    BY <1>6, <2>1
  <2>4. f[i] = g[i]
    BY <1>11
  <2>5. QED BY <2>2, <2>3, <2>4
<1> HIDE DEF S
<1>12. n \in S
  BY <1>10, <1>11, Induction
<1>13. Text(lines) = g[n]
  BY <1>8, <1>12 DEF S
<1>14. QED BY <1>1, <1>5, <1>6, <1>13 DEF D

(* The text of no lines, of one line, and its type.                        *)
LEMMA TextOf ==
  /\ Text(<<>>) = <<>>
  /\ \A line \in Name : Text(<<line>>) = Append(line, Newline)
  /\ \A lines \in Seq(Name) : Text(lines) \in Seq(Characters)
<1>1. ASSUME NEW lines \in Seq(Name) PROVE Text(lines) \in Seq(Characters)
  <2>1. PICK f \in [0 .. Len(lines) -> Seq(Characters)] : Text(lines) = f[Len(lines)]
    BY TextRecurrence
  <2>2. Len(lines) \in 0 .. Len(lines)
    BY LenProperties
  <2>3. QED BY <2>1, <2>2
<1>2. Text(<<>>) = <<>>
  <2>1. PICK e \in Seq(Name) : e = <<>> /\ Len(e) = 0
    BY EmptySeq
  <2>2. PICK f \in [0 .. Len(e) -> Seq(Characters)] : f[0] = <<>> /\ Text(e) = f[Len(e)]
    BY <2>1, TextRecurrence
  <2>3. QED BY <2>1, <2>2
<1>3. ASSUME NEW line \in Name PROVE Text(<<line>>) = Append(line, Newline)
  <2> DEFINE s == <<line>>
  <2>1. s \in Seq(Name) /\ Len(s) = 1 /\ s[1] = line
    OBVIOUS
  <2> HIDE DEF s
  <2>2. PICK f \in [0 .. Len(s) -> Seq(Characters)] :
          /\ f[0] = <<>>
          /\ \A i \in 1 .. Len(s) : f[i] = f[i - 1] \o Append(s[i], Newline)
          /\ Text(s) = f[Len(s)]
    BY <2>1, TextRecurrence
  <2>3. Text(s) = f[1] /\ f[1] = f[1 - 1] \o Append(line, Newline) /\ f[1 - 1] = <<>>
    BY <2>1, <2>2
  <2>4. <<>> \o Append(line, Newline) = Append(line, Newline)
    BY LineIs, ConcatEmptySeq
  <2>5. QED BY <2>3, <2>4 DEF s
<1>4. QED BY <1>1, <1>2, <1>3

-----------------------------------------------------------------------------
(* The reader of the file.                                                 *)

(* A line becomes longer by a character.                                   *)
LEMMA LongerIs ==
  ASSUME NEW lines \in Seq(Name), NEW line \in Name, NEW ch \in Characters \ {Newline}
  PROVE  /\ Append(lines, line) \in Seq(Name) /\ Append(lines, line) # <<>>
         /\ Longer(Append(lines, line), ch) = Append(lines, Append(line, ch))
<1>1. Append(line, ch) \in Name
  BY AppendProperties DEF Name
<1>2. PICK n \in Nat : n = Len(lines)
  BY LenProperties
<1> DEFINE a == Append(lines, line)
           b == Append(lines, Append(line, ch))
<1>0. ASSUME NEW x \in Name
      PROVE  /\ Append(lines, x) \in Seq(Name) /\ Append(lines, x) \in [1 .. n + 1 -> Name]
             /\ Len(Append(lines, x)) = n + 1 /\ Append(lines, x)[n + 1] = x
             /\ \A i \in 1 .. n : Append(lines, x)[i] = lines[i]
  <2>1. /\ Append(lines, x) \in Seq(Name) /\ Len(Append(lines, x)) = n + 1
        /\ Append(lines, x)[n + 1] = x /\ \A i \in 1 .. n : Append(lines, x)[i] = lines[i]
    BY <1>2, AppendProperties
  <2> DEFINE c == Append(lines, x)
  <2>2. c \in Seq(Name) /\ Len(c) = n + 1
    BY <2>1
  <2> HIDE DEF c
  <2>3. c \in [1 .. n + 1 -> Name]
    BY <2>2, LenProperties
  <2>4. QED BY <2>1, <2>3 DEF c
<1>3. /\ a \in Seq(Name) /\ a \in [1 .. n + 1 -> Name] /\ Len(a) = n + 1 /\ a[n + 1] = line
      /\ \A i \in 1 .. n : a[i] = lines[i]
  BY <1>0
<1>4. /\ b \in [1 .. n + 1 -> Name] /\ b[n + 1] = Append(line, ch)
      /\ \A i \in 1 .. n : b[i] = lines[i]
  BY <1>0, <1>1
<1>5. a # <<>>
  BY <1>3, EmptySeq
<1> HIDE DEF a, b
<1>6. Longer(a, ch) = [a EXCEPT ![n + 1] = Append(line, ch)]
  BY <1>3 DEF Longer
<1>7. \A i \in 1 .. n + 1 : Longer(a, ch)[i] = b[i]
  <2>1. \A i \in 1 .. n : Longer(a, ch)[i] = a[i]
    BY <1>3, <1>6
  <2>2. Longer(a, ch)[n + 1] = Append(line, ch)
    BY <1>3, <1>6
  <2>3. \A i \in 1 .. n + 1 : i \in 1 .. n \/ i = n + 1
    OBVIOUS
  <2>4. QED BY <1>3, <1>4, <2>1, <2>2, <2>3
<1>8. Longer(a, ch) \in [1 .. n + 1 -> Name]
  BY <1>1, <1>3, <1>6
<1>9. Longer(a, ch) = b
  BY <1>4, <1>7, <1>8
<1>10. QED BY <1>3, <1>5, <1>9 DEF a, b

(* What is not empty has a last line.                                      *)
LEMMA LastLine ==
  ASSUME NEW lines \in Seq(Name), lines # <<>>
  PROVE  \E front \in Seq(Name), line \in Name : lines = Append(front, line)
<1>1. Len(lines) \in Nat \ {0}
  BY EmptySeq, LenProperties
<1>2. \A i \in 1 .. Len(lines) : lines[i] \in Name
  BY ElementOfSeq
<1> DEFINE front == SubSeq(lines, 1, Len(lines) - 1)
<1>3. front \in Seq(Name)
  BY <1>1, <1>2, SubSeqProperties
<1>4. lines = front \o <<lines[Len(lines)]>>
  <2>1. lines = SubSeq(lines, 1, Len(lines))
    BY SubSeqFull
  <2>2. 1 \in 1 .. Len(lines) /\ Len(lines) \in 1 .. Len(lines)
    BY <1>1
  <2>3. SubSeq(lines, 1, Len(lines)) = front \o <<lines[Len(lines)]>>
    BY <2>2, SubSeqRecursiveSecond
  <2>4. QED BY <2>1, <2>3
<1>5. lines[Len(lines)] \in Name
  BY <1>1, <1>2
<1> HIDE DEF front
<1>6. QED BY <1>3, <1>4, <1>5, AppendIsConcat

(* What each character does.                                               *)
Turns(w, b, ch) ==
  /\ Character(At("outside", w, b), ch) = At(IF ch = ">" THEN "header" ELSE "outside", w, b)
  /\ Character(At("header", w, b), ch)
       = At(IF ch = "w" THEN "watchpoints" ELSE IF ch = "b" THEN "breakpoints" ELSE "outside", w, b)
  /\ Character(At("watchpoints", w, b), ch)
       = IF ch = ">" THEN At("header", w, b) ELSE At("variable", Append(w, <<>>), b)
  /\ Character(At("variable", w, b), ch)
       = IF ch = Newline THEN At("watchpoints", w, b) ELSE At("variable", Longer(w, ch), b)
  /\ Character(At("location", w, b), ch)
       = IF ch = Newline THEN At("breakpoints", w, b) ELSE At("location", w, Longer(b, ch))
  /\ Character(At("breakpoints", w, b), ch)
       = IF ch = "[" THEN At("outside", w, b)
         ELSE IF ch \in Alphanumeric THEN At("location", w, Append(b, <<ch>>))
         ELSE At("breakpoints", w, b)
LEMMA CharacterIs == ASSUME NEW w, NEW b, NEW ch PROVE Turns(w, b, ch)
<1>1. Character(At("outside", w, b), ch) = At(IF ch = ">" THEN "header" ELSE "outside", w, b)
  BY DEF Character, At, Outside
<1>2. Character(At("header", w, b), ch)
        = At(IF ch = "w" THEN "watchpoints" ELSE IF ch = "b" THEN "breakpoints" ELSE "outside", w, b)
  BY DEF Character, At, Header
<1>3. Character(At("watchpoints", w, b), ch)
        = IF ch = ">" THEN At("header", w, b) ELSE At("variable", Append(w, <<>>), b)
  <2>1. CASE ch = ">"
    BY <2>1 DEF Character, At, EndOfWatchpoints
  <2>2. CASE ch # ">"
    <3> DEFINE r == At("watchpoints", w, b)
    <3>1. Character(r, ch) = Watchpoint(r, ch)
      BY <2>2 DEF Character, At
    <3>2. Watchpoint(r, ch) = At("variable", Append(w, <<>>), b)
      BY DEF At, Watchpoint
    <3>3. QED BY <2>2, <3>1, <3>2
  <2>3. QED BY <2>1, <2>2
<1>4. Character(At("variable", w, b), ch)
        = IF ch = Newline THEN At("watchpoints", w, b) ELSE At("variable", Longer(w, ch), b)
  BY DEF Character, At, Variable
<1>5. Character(At("location", w, b), ch)
        = IF ch = Newline THEN At("breakpoints", w, b) ELSE At("location", w, Longer(b, ch))
  BY DEF Character, At, Location
<1>6. Character(At("breakpoints", w, b), ch)
        = IF ch = "[" THEN At("outside", w, b)
          ELSE IF ch \in Alphanumeric THEN At("location", w, Append(b, <<ch>>))
          ELSE At("breakpoints", w, b)
  <2> DEFINE r == At("breakpoints", w, b)
  <2>1. Character(r, ch) = Breakpoint(r, ch)
    BY DEF Character, At
  <2>2. CASE ch = "["
    <3>1. Breakpoint(r, ch) = [r EXCEPT !.at = "outside"]
      BY <2>2, CharactersAre DEF Breakpoint
    <3>2. QED BY <2>1, <2>2, <3>1 DEF At
  <2>3. CASE ch # "[" /\ ch \in Alphanumeric
    <3>1. Breakpoint(r, ch) = At("location", w, Append(b, <<ch>>))
      BY <2>3 DEF Breakpoint, At
    <3>2. QED BY <2>1, <2>3, <3>1
  <2>4. CASE ch # "[" /\ ch \notin Alphanumeric
    <3>1. Breakpoint(r, ch) = r
      BY <2>4 DEF Breakpoint
    <3>2. QED BY <2>1, <2>4, <3>1
  <2>5. QED BY <2>2, <2>3, <2>4
<1>7. QED BY <1>1, <1>2, <1>3, <1>4, <1>5, <1>6 DEF Turns

(* The reader stays a reader, whatever comes.                              *)
LEMMA CharacterTyped ==
  ASSUME NEW r \in Readers, NEW ch \in Characters
  PROVE  Character(r, ch) \in Readers
<1>1. PICK at, w, b : r = At(at, w, b)
  BY DEF Readers, At
<1>2. /\ at \in {"outside", "header", "watchpoints", "variable", "breakpoints", "location"}
      /\ w \in Seq(Name) /\ b \in Seq(Name)
      /\ at = "variable" => w # <<>>
      /\ at = "location" => b # <<>>
  BY <1>1 DEF Readers, At
<1>3. ASSUME NEW a \in {"outside", "header", "watchpoints", "variable", "breakpoints", "location"},
             NEW u \in Seq(Name), NEW v \in Seq(Name), a = "variable" => u # <<>>,
             a = "location" => v # <<>>
      PROVE  At(a, u, v) \in Readers
  BY <1>3 DEF Readers, At
<1>4. <<>> \in Name /\ Turns(w, b, ch)
  BY EmptySeq, CharacterIs DEF Name
<1>5. ASSUME NEW lines \in Seq(Name), NEW line \in Name
      PROVE  Append(lines, line) \in Seq(Name) /\ Append(lines, line) # <<>>
  <2>1. Len(Append(lines, line)) = Len(lines) + 1 /\ Append(lines, line) \in Seq(Name)
    BY AppendProperties
  <2>2. Len(lines) \in Nat /\ Len(<<>>) = 0
    BY LenProperties, EmptySeq
  <2>3. QED BY <2>1, <2>2
<1>6. ASSUME NEW lines \in Seq(Name), lines # <<>>, ch # Newline
      PROVE  Longer(lines, ch) \in Seq(Name) /\ Longer(lines, ch) # <<>>
  <2>1. PICK front \in Seq(Name), line \in Name : lines = Append(front, line)
    BY <1>6, LastLine
  <2>2. Append(line, ch) \in Name
    BY <1>6, AppendProperties DEF Name
  <2>3. Longer(lines, ch) = Append(front, Append(line, ch))
    BY <1>6, <2>1, LongerIs
  <2>4. QED BY <1>5, <2>2, <2>3
<1>7. CASE at = "outside" \/ at = "header"
  <2>1. \A a \in {"outside", "header", "watchpoints", "breakpoints"} : At(a, w, b) \in Readers
    BY <1>2, <1>3
  <2>2. CASE at = "outside"
    <3>1. Character(r, ch) = At(IF ch = ">" THEN "header" ELSE "outside", w, b)
      BY <1>1, <2>2, <1>4 DEF Turns
    <3>2. QED BY <2>1, <3>1
  <2>3. CASE at = "header"
    <3>1. Character(r, ch)
            = At(IF ch = "w" THEN "watchpoints" ELSE IF ch = "b" THEN "breakpoints" ELSE "outside", w, b)
      BY <1>1, <2>3, <1>4 DEF Turns
    <3>2. QED BY <2>1, <3>1
  <2>4. QED BY <1>7, <2>2, <2>3
<1>8. CASE at = "watchpoints"
  <2>1. At("variable", Append(w, <<>>), b) \in Readers /\ At("header", w, b) \in Readers
    BY <1>2, <1>3, <1>4, <1>5
  <2>2. Character(r, ch) = IF ch = ">" THEN At("header", w, b) ELSE At("variable", Append(w, <<>>), b)
    BY <1>1, <1>8, <1>4 DEF Turns
  <2>3. QED BY <2>1, <2>2
<1>9. CASE at = "variable"
  <2>1. At("watchpoints", w, b) \in Readers
    BY <1>2, <1>3
  <2>2. ch # Newline => At("variable", Longer(w, ch), b) \in Readers
    BY <1>2, <1>3, <1>6, <1>9
  <2>3. Character(r, ch) = IF ch = Newline THEN At("watchpoints", w, b) ELSE At("variable", Longer(w, ch), b)
    BY <1>1, <1>9, <1>4 DEF Turns
  <2>4. QED BY <2>1, <2>2, <2>3
<1>10. CASE at = "breakpoints"
  <2>1. At("outside", w, b) \in Readers /\ At("breakpoints", w, b) \in Readers
    BY <1>2, <1>3
  <2>2. ASSUME ch \in Alphanumeric PROVE At("location", w, Append(b, <<ch>>)) \in Readers
    <3> DEFINE e == <<ch>>
    <3>1. ch \in Characters \ {Newline}
      BY <2>2, CharactersAre
    <3>2. e \in Name
      BY <3>1 DEF Name
    <3> HIDE DEF e
    <3>3. At("location", w, Append(b, e)) \in Readers
      BY <1>2, <1>3, <1>5, <3>2
    <3>4. QED BY <3>3 DEF e
  <2>3. QED BY <1>1, <1>4, <1>10, <2>1, <2>2 DEF Turns
<1>11. CASE at = "location"
  <2>1. At("breakpoints", w, b) \in Readers
    BY <1>2, <1>3
  <2>2. ch # Newline => At("location", w, Longer(b, ch)) \in Readers
    BY <1>2, <1>3, <1>6, <1>11
  <2>3. Character(r, ch) = IF ch = Newline THEN At("breakpoints", w, b) ELSE At("location", w, Longer(b, ch))
    BY <1>1, <1>11, <1>4 DEF Turns
  <2>4. QED BY <2>1, <2>2, <2>3
<1>12. QED BY <1>2, <1>7, <1>8, <1>9, <1>10, <1>11

(* The reader takes one character after the other.                         *)
IsReading(f, chars) ==
  /\ f \in [0 .. Len(chars) -> Readers] /\ f[0] = NewReader
  /\ \A i \in 1 .. Len(chars) : f[i] = Character(f[i - 1], chars[i])
LEMMA ParsedRecurrence ==
  ASSUME NEW chars \in Seq(Characters)
  PROVE  \E f : IsReading(f, chars) /\ Parsed(chars) = f[Len(chars)]
<1>1. PICK n \in Nat : n = Len(chars)
  BY LenProperties
<1>2. \A i \in 1 .. n : chars[i] \in Characters
  BY <1>1, ElementOfSeq
<1> DEFINE Whole(f) == [i \in 0 .. n |-> IF i = 0 THEN NewReader
                                         ELSE Character(f[i - 1], chars[i])]
           turn == [q \in (1 .. n) \X Readers |-> Character(q[2], chars[q[1]])]
<1>3. NewReader \in Readers
  <2>1. <<>> \in Seq(Name)
    BY EmptySeq
  <2>2. QED BY <2>1 DEF NewReader, Readers
<1>4. \A i \in 1 .. n, r \in Readers : Character(r, chars[i]) \in Readers
  BY <1>2, CharacterTyped
<1>5. IsStep(turn, n, Readers) /\ \A k \in 1 .. n, r \in Readers : turn[<<k, r>>] = Character(r, chars[k])
  BY <1>4 DEF IsStep
<1> HIDE DEF turn
<1>6. PICK g \in [0 .. n -> Readers] : g[0] = NewReader /\ \A i \in 1 .. n : g[i] = turn[<<i, g[i - 1]>>]
  BY <1>3, <1>5, Iteration
<1>7. \A i \in 1 .. n : g[i] = Character(g[i - 1], chars[i])
  <2>1. \A i \in 1 .. n : g[i - 1] \in Readers
    BY <1>6
  <2>2. QED BY <1>5, <1>6, <2>1
<1>8. g = Whole(g)
  BY <1>6, <1>7
<1>9. PICK f : f = Whole(f) /\ Parsed(chars) = f[n]
  BY <1>1, <1>8 DEF Parsed
<1>10. \A i \in 0 .. n : f[i] = IF i = 0 THEN NewReader ELSE Character(f[i - 1], chars[i])
  <2> DEFINE h == Whole(f)
  <2>1. \A i \in 0 .. n : h[i] = IF i = 0 THEN NewReader ELSE Character(f[i - 1], chars[i])
    OBVIOUS
  <2>2. f = h
    BY <1>9
  <2> HIDE DEF h
  <2>3. QED BY <2>1, <2>2
<1> HIDE DEF Whole
<1> DEFINE S == {i \in Nat : i <= n => f[i] = g[i]}
<1>11. 0 \in S
  BY <1>6, <1>10
<1>12. ASSUME NEW i \in Nat, i \in S PROVE i + 1 \in S
  <2> SUFFICES ASSUME i + 1 <= n PROVE f[i + 1] = g[i + 1]
    OBVIOUS
  <2>1. i + 1 \in 1 .. n /\ i + 1 \in 0 .. n /\ i + 1 # 0 /\ (i + 1) - 1 = i
    OBVIOUS
  <2>2. f[i + 1] = Character(f[i], chars[i + 1])
    BY <1>10, <2>1
  <2>3. g[i + 1] = Character(g[i], chars[i + 1])
    BY <1>7, <2>1
  <2>4. f[i] = g[i]
    BY <1>12
  <2>5. QED BY <2>2, <2>3, <2>4
<1> HIDE DEF S
<1>13. n \in S
  BY <1>11, <1>12, Induction
<1>14. Parsed(chars) = g[n]
  BY <1>9, <1>13 DEF S
<1>15. QED BY <1>1, <1>6, <1>7, <1>14 DEF IsReading

(* Nothing read, and one character more.                                   *)
LEMMA ParsedIs ==
  /\ Parsed(<<>>) = NewReader
  /\ \A chars \in Seq(Characters) : Parsed(chars) \in Readers
  /\ \A chars \in Seq(Characters), ch \in Characters :
       Parsed(Append(chars, ch)) = Character(Parsed(chars), ch)
<1>1. Parsed(<<>>) = NewReader
  <2>1. PICK e \in Seq(Characters) : e = <<>> /\ Len(e) = 0
    BY EmptySeq
  <2>2. PICK f : IsReading(f, e) /\ Parsed(e) = f[Len(e)]
    BY <2>1, ParsedRecurrence
  <2>3. QED BY <2>1, <2>2 DEF IsReading
<1>2. ASSUME NEW chars \in Seq(Characters) PROVE Parsed(chars) \in Readers
  <2>1. PICK f : IsReading(f, chars) /\ Parsed(chars) = f[Len(chars)]
    BY ParsedRecurrence
  <2>2. Len(chars) \in 0 .. Len(chars)
    BY LenProperties
  <2>3. QED BY <2>1, <2>2 DEF IsReading
<1>3. ASSUME NEW chars \in Seq(Characters), NEW ch \in Characters
      PROVE  Parsed(Append(chars, ch)) = Character(Parsed(chars), ch)
  <2>1. PICK n \in Nat : n = Len(chars)
    BY LenProperties
  <2> DEFINE more == Append(chars, ch)
  <2>2. /\ more \in Seq(Characters) /\ Len(more) = n + 1 /\ more[n + 1] = ch
        /\ \A i \in 1 .. n : more[i] = chars[i]
    BY <2>1, AppendProperties
  <2> HIDE DEF more
  <2>3. PICK f : IsReading(f, chars) /\ Parsed(chars) = f[n]
    BY <2>1, ParsedRecurrence
  <2>4. PICK g : IsReading(g, more) /\ Parsed(more) = g[n + 1]
    BY <2>2, ParsedRecurrence
  <2> DEFINE S == {i \in Nat : i <= n => f[i] = g[i]}
  <2>5. 0 \in S
    BY <2>3, <2>4 DEF IsReading
  <2>6. ASSUME NEW i \in Nat, i \in S PROVE i + 1 \in S
    <3> SUFFICES ASSUME i + 1 <= n PROVE f[i + 1] = g[i + 1]
      OBVIOUS
    <3>1. i + 1 \in 1 .. n /\ i + 1 \in 1 .. n + 1 /\ (i + 1) - 1 = i
      OBVIOUS
    <3>2. f[i + 1] = Character(f[i], chars[i + 1])
      BY <2>1, <2>3, <3>1 DEF IsReading
    <3>3. g[i + 1] = Character(g[i], more[i + 1])
      BY <2>2, <2>4, <3>1 DEF IsReading
    <3>4. f[i] = g[i] /\ chars[i + 1] = more[i + 1]
      BY <2>2, <2>6, <3>1
    <3>5. QED BY <3>2, <3>3, <3>4
  <2> HIDE DEF S
  <2>7. n \in S
    BY <2>5, <2>6, Induction
  <2>8. f[n] = g[n]
    BY <2>7 DEF S
  <2>9. g[n + 1] = Character(g[n], ch)
    <3>1. n + 1 \in 1 .. Len(more) /\ (n + 1) - 1 = n
      BY <2>2
    <3>2. QED BY <2>2, <2>4, <3>1 DEF IsReading
  <2>10. QED BY <2>3, <2>4, <2>8, <2>9 DEF more
<1>4. QED BY <1>1, <1>2, <1>3

(* A line read so far, and one character further.                          *)
Ends(chars, line) ==
  /\ SubSeq(line, 1, 0) = <<>> /\ SubSeq(line, 1, Len(line)) = line /\ chars \o <<>> = chars
  /\ chars \o Append(line, Newline) = Append(chars \o line, Newline)
  /\ chars \o line \in Seq(Characters)
Grows(chars, line, k) ==
  /\ line[k + 1] \in Characters \ {Newline}
  /\ SubSeq(line, 1, k) \in Name
  /\ SubSeq(line, 1, k + 1) = Append(SubSeq(line, 1, k), line[k + 1])
  /\ chars \o SubSeq(line, 1, k) \in Seq(Characters)
  /\ chars \o SubSeq(line, 1, k + 1) = Append(chars \o SubSeq(line, 1, k), line[k + 1])
LEMMA Further ==
  ASSUME NEW chars \in Seq(Characters), NEW line \in Name
  PROVE  Ends(chars, line) /\ \A k \in 0 .. Len(line) - 1 : Grows(chars, line, k)
<1>1. /\ Len(line) \in Nat /\ line \in Seq(Characters)
      /\ \A i \in 1 .. Len(line) : line[i] \in Characters \ {Newline}
  BY LineIs, ElementOfSeq, LenProperties DEF Name
<1>2. SubSeq(line, 1, 0) = <<>>
  BY SubSeqEmpty
<1>3. SubSeq(line, 1, Len(line)) = line
  BY <1>1, SubSeqFull
<1>4. ASSUME NEW s \in Seq(Characters), NEW ch \in Characters
      PROVE  /\ chars \o s \in Seq(Characters)
             /\ chars \o Append(s, ch) = Append(chars \o s, ch)
  <2> DEFINE e == <<ch>>
  <2>1. e \in Seq(Characters)
    OBVIOUS
  <2>2. Append(s, ch) = s \o e /\ chars \o s \in Seq(Characters)
    BY AppendIsConcat, ConcatProperties
  <2>3. Append(chars \o s, ch) = (chars \o s) \o e
    BY <2>2, AppendIsConcat
  <2> HIDE DEF e
  <2>4. (chars \o s) \o e = chars \o (s \o e)
    BY <2>1, CharactersConcat
  <2>5. QED BY <2>2, <2>3, <2>4
<1>5. ASSUME NEW k \in 0 .. Len(line) - 1
      PROVE  Grows(chars, line, k)
  <2>1. line[k + 1] \in Characters \ {Newline}
    BY <1>1
  <2>2. SubSeq(line, 1, k) \in Name
    <3>1. \A i \in 1 .. k : line[i] \in Characters \ {Newline}
      BY <1>1
    <3>2. QED BY <3>1, SubSeqProperties DEF Name
  <2>3. SubSeq(line, 1, k + 1) = Append(SubSeq(line, 1, k), line[k + 1])
    <3>1. 1 \in 1 .. Len(line) /\ k + 1 \in 1 .. Len(line) /\ (k + 1) - 1 = k
      BY <1>1
    <3>2. SubSeq(line, 1, k + 1) = SubSeq(line, 1, k) \o <<line[k + 1]>>
      BY <1>1, <3>1, SubSeqRecursiveSecond
    <3>3. SubSeq(line, 1, k) \in Seq(Characters)
      BY <2>2, LineIs
    <3>4. QED BY <2>1, <3>2, <3>3, AppendIsConcat
  <2>4. SubSeq(line, 1, k) \in Seq(Characters)
    BY <2>2, LineIs
  <2>5. QED BY <1>4, <2>1, <2>2, <2>3, <2>4 DEF Grows
<1>6. chars \o <<>> = chars
  BY ConcatEmptySeq
<1>7. Ends(chars, line)
  BY <1>1, <1>2, <1>3, <1>4, <1>6, CharactersAre DEF Ends
<1>8. QED BY <1>5, <1>7

(* A variable is read to the end of its line.                              *)
LEMMA VariableRead ==
  ASSUME NEW chars \in Seq(Characters), NEW w \in Seq(Name), NEW b, NEW line \in Name,
         Parsed(chars) = At("variable", Append(w, <<>>), b)
  PROVE  /\ chars \o Append(line, Newline) \in Seq(Characters)
         /\ Parsed(chars \o Append(line, Newline)) = At("watchpoints", Append(w, line), b)
<1> DEFINE S == {k \in Nat : k <= Len(line) =>
                    Parsed(chars \o SubSeq(line, 1, k)) = At("variable", Append(w, SubSeq(line, 1, k)), b)}
<1>0. Len(line) \in Nat
  BY LenProperties DEF Name
<1>f. Ends(chars, line) /\ \A k \in 0 .. Len(line) - 1 : Grows(chars, line, k)
  BY Further
<1>1. 0 \in S
  BY <1>f DEF Ends
<1>2. ASSUME NEW k \in Nat, k \in S PROVE k + 1 \in S
  <2> SUFFICES ASSUME k + 1 <= Len(line)
               PROVE  Parsed(chars \o SubSeq(line, 1, k + 1))
                        = At("variable", Append(w, SubSeq(line, 1, k + 1)), b)
    OBVIOUS
  <2>1. k \in 0 .. Len(line) - 1
    BY <1>0
  <2> DEFINE ch == line[k + 1]
             read == SubSeq(line, 1, k)
  <2>2. /\ ch \in Characters \ {Newline} /\ read \in Name
        /\ SubSeq(line, 1, k + 1) = Append(read, ch)
        /\ chars \o read \in Seq(Characters)
        /\ chars \o SubSeq(line, 1, k + 1) = Append(chars \o read, ch)
    BY <1>f, <2>1 DEF Grows
  <2>3. Parsed(chars \o read) = At("variable", Append(w, read), b)
    BY <1>0, <1>2
  <2> HIDE DEF ch, read
  <2>4. Parsed(Append(chars \o read, ch)) = Character(At("variable", Append(w, read), b), ch)
    BY <2>2, <2>3, ParsedIs
  <2>5. Turns(Append(w, read), b, ch) /\ Longer(Append(w, read), ch) = Append(w, Append(read, ch))
    BY <2>2, CharacterIs, LongerIs
  <2>6. QED BY <2>2, <2>4, <2>5 DEF Turns
<1> HIDE DEF S
<1>3. Len(line) \in S
  BY <1>0, <1>1, <1>2, Induction
<1>4. Parsed(chars \o line) = At("variable", Append(w, line), b)
  <2>1. Parsed(chars \o SubSeq(line, 1, Len(line)))
          = At("variable", Append(w, SubSeq(line, 1, Len(line))), b)
    BY <1>0, <1>3 DEF S
  <2>2. SubSeq(line, 1, Len(line)) = line
    BY <1>f DEF Ends
  <2>3. QED BY <2>1, <2>2
<1>5. Parsed(Append(chars \o line, Newline)) = Character(At("variable", Append(w, line), b), Newline)
  BY <1>4, <1>f, ParsedIs, CharactersAre DEF Ends
<1>6. Character(At("variable", Append(w, line), b), Newline) = At("watchpoints", Append(w, line), b)
  <2>1. Turns(Append(w, line), b, Newline)
    BY CharacterIs
  <2>2. QED BY <2>1 DEF Turns
<1>7. Append(chars \o line, Newline) \in Seq(Characters)
  BY <1>f, AppendProperties, CharactersAre DEF Ends
<1>8. QED BY <1>5, <1>6, <1>7, <1>f DEF Ends

(* A location that begins with a letter, a digit or '/' is read whole.     *)
LEMMA LocationRead ==
  ASSUME NEW chars \in Seq(Characters), NEW w, NEW b \in Seq(Name), NEW line \in Name,
         line # <<>>, line[1] \in Alphanumeric, Parsed(chars) = At("breakpoints", w, b)
  PROVE  /\ chars \o Append(line, Newline) \in Seq(Characters)
         /\ Parsed(chars \o Append(line, Newline)) = At("breakpoints", w, Append(b, line))
<1> DEFINE S == {k \in Nat : 1 <= k /\ k <= Len(line) =>
                    Parsed(chars \o SubSeq(line, 1, k)) = At("location", w, Append(b, SubSeq(line, 1, k)))}
<1>0. Len(line) \in Nat \ {0}
  BY EmptySeq, LenProperties DEF Name
<1>f. Ends(chars, line) /\ \A k \in 0 .. Len(line) - 1 : Grows(chars, line, k)
  BY Further
<1>1. 0 \in S
  OBVIOUS
<1>2. ASSUME NEW k \in Nat, k \in S PROVE k + 1 \in S
  <2> SUFFICES ASSUME k + 1 <= Len(line)
               PROVE  Parsed(chars \o SubSeq(line, 1, k + 1))
                        = At("location", w, Append(b, SubSeq(line, 1, k + 1)))
    OBVIOUS
  <2>1. k \in 0 .. Len(line) - 1
    BY <1>0
  <2> DEFINE ch == line[k + 1]
             read == SubSeq(line, 1, k)
  <2>2. /\ ch \in Characters \ {Newline} /\ read \in Name
        /\ SubSeq(line, 1, k + 1) = Append(read, ch)
        /\ chars \o read \in Seq(Characters)
        /\ chars \o SubSeq(line, 1, k + 1) = Append(chars \o read, ch)
    BY <1>f, <2>1 DEF Grows
  <2>3. CASE k = 0
    <3>1. read = <<>> /\ chars \o read = chars /\ ch = line[1]
      BY <1>f, <2>3 DEF Ends
    <3>2. Parsed(Append(chars \o read, ch)) = Character(At("breakpoints", w, b), ch)
      BY <2>2, <3>1, ParsedIs
    <3>3. Turns(w, b, ch) /\ ch \in Alphanumeric /\ ch # "["
      BY <3>1, CharacterIs, CharactersAre
    <3>4. Append(read, ch) = <<ch>>
      <4> HIDE DEF ch, read
      <4>1. QED BY <3>1
    <3> HIDE DEF ch, read
    <3>5. QED BY <2>2, <3>2, <3>3, <3>4 DEF Turns
  <2>4. CASE k # 0
    <3>1. Parsed(chars \o read) = At("location", w, Append(b, read))
      BY <1>0, <1>2, <2>4
    <3> HIDE DEF ch, read
    <3>2. Parsed(Append(chars \o read, ch)) = Character(At("location", w, Append(b, read)), ch)
      BY <2>2, <3>1, ParsedIs
    <3>3. Turns(w, Append(b, read), ch) /\ Longer(Append(b, read), ch) = Append(b, Append(read, ch))
      BY <2>2, CharacterIs, LongerIs
    <3>4. QED BY <2>2, <3>2, <3>3 DEF Turns
  <2>5. QED BY <2>3, <2>4
<1> HIDE DEF S
<1>3. Len(line) \in S
  BY <1>0, <1>1, <1>2, Induction
<1>4. Parsed(chars \o line) = At("location", w, Append(b, line))
  <2>1. Parsed(chars \o SubSeq(line, 1, Len(line)))
          = At("location", w, Append(b, SubSeq(line, 1, Len(line))))
    BY <1>0, <1>3 DEF S
  <2>2. SubSeq(line, 1, Len(line)) = line
    BY <1>f DEF Ends
  <2>3. QED BY <2>1, <2>2
<1>5. Parsed(Append(chars \o line, Newline)) = Character(At("location", w, Append(b, line)), Newline)
  BY <1>4, <1>f, ParsedIs, CharactersAre DEF Ends
<1>6. Character(At("location", w, Append(b, line)), Newline) = At("breakpoints", w, Append(b, line))
  <2>1. Turns(w, Append(b, line), Newline)
    BY CharacterIs
  <2>2. QED BY <2>1 DEF Turns
<1>7. Append(chars \o line, Newline) \in Seq(Characters)
  BY <1>f, AppendProperties, CharactersAre DEF Ends
<1>8. QED BY <1>5, <1>6, <1>7, <1>f DEF Ends

(* Three characters one behind the other.                                  *)
LEMMA Triple ==
  ASSUME NEW x, NEW y, NEW z
  PROVE  <<x, y, z>> = (<<x>> \o <<y>>) \o <<z>>
<1>1. ASSUME NEW S, NEW s \in Seq(S), NEW t \in Seq(S), Len(t) = 1
      PROVE  /\ s \o t \in Seq(S) /\ Len(s \o t) = Len(s) + 1
             /\ \A i \in 1 .. Len(s) : (s \o t)[i] = s[i]
             /\ (s \o t)[Len(s) + 1] = t[1]
  <2>1. Len(s) \in Nat
    BY LenProperties
  <2>2. s \o t \in Seq(S) /\ Len(s \o t) = Len(s) + 1
    BY <1>1, ConcatProperties
  <2>3. \A i \in 1 .. Len(s) : (s \o t)[i] = s[i]
    BY <1>1, <2>1, ConcatProperties
  <2>4. (s \o t)[Len(s) + 1] = t[1]
    <3>1. PICK n \in Nat : n = Len(s)
      BY <2>1
    <3>2. \A i \in 1 .. n + 1 : (s \o t)[i] = IF i <= n THEN s[i] ELSE t[i - n]
      BY <1>1, <3>1, ConcatProperties, SMTT(30)
    <3>3. n + 1 \in 1 .. n + 1 /\ ~ (n + 1 <= n) /\ (n + 1) - n = 1
      OBVIOUS
    <3>4. QED BY <3>1, <3>2, <3>3
  <2>5. QED BY <2>2, <2>3, <2>4
<1> DEFINE S == {x, y, z}
           a == <<x>>
           b == <<y>>
           c == <<z>>
<1>2. /\ a \in Seq(S) /\ Len(a) = 1 /\ a[1] = x
      /\ b \in Seq(S) /\ Len(b) = 1 /\ b[1] = y
      /\ c \in Seq(S) /\ Len(c) = 1 /\ c[1] = z
  OBVIOUS
<1> HIDE DEF S, a, b, c
<1> DEFINE d == a \o b
<1>3. d \in Seq(S) /\ Len(d) = 2 /\ d[1] = x /\ d[2] = y
  <2>1. 1 \in 1 .. Len(a) /\ Len(a) + 1 = 2
    BY <1>2
  <2>2. QED BY <1>1, <1>2, <2>1
<1> HIDE DEF d
<1> DEFINE e == d \o c
<1>4. e \in Seq(S) /\ Len(e) = 3 /\ e[1] = x /\ e[2] = y /\ e[3] = z
  <2>1. 1 \in 1 .. Len(d) /\ 2 \in 1 .. Len(d) /\ Len(d) + 1 = 3
    BY <1>3
  <2>2. /\ e \in Seq(S) /\ Len(e) = Len(d) + 1 /\ e[Len(d) + 1] = c[1]
        /\ \A i \in 1 .. Len(d) : e[i] = d[i]
    <3>1. d \in Seq(S)
      BY <1>3
    <3>2. c \in Seq(S) /\ Len(c) = 1
      BY <1>2
    <3>3. QED BY <1>1, <3>1, <3>2, Zenon
  <2> HIDE DEF e
  <2>3. QED BY <1>2, <1>3, <2>1, <2>2
<1> HIDE DEF e
<1>5. e = <<x, y, z>>
  BY <1>4
<1>6. QED BY <1>5 DEF a, b, c, d, e

(* Three characters more.                                                  *)
LEMMA ThreeMore ==
  ASSUME NEW chars \in Seq(Characters), NEW x \in Characters, NEW y \in Characters, NEW z \in Characters
  PROVE  /\ chars \o <<x, y, z>> \in Seq(Characters)
         /\ Parsed(chars \o <<x, y, z>>) = Character(Character(Character(Parsed(chars), x), y), z)
<1>1. chars \o <<x, y, z>> = Append(Append(Append(chars, x), y), z)
  <2> DEFINE a == <<x>>
             b == <<y>>
             c == <<z>>
  <2>1. a \in Seq(Characters) /\ b \in Seq(Characters) /\ c \in Seq(Characters)
    OBVIOUS
  <2>2. <<x, y, z>> = (a \o b) \o c
    BY Triple
  <2>3. /\ Append(chars, x) = chars \o a /\ chars \o a \in Seq(Characters)
        /\ Append(chars \o a, y) = (chars \o a) \o b /\ (chars \o a) \o b \in Seq(Characters)
        /\ Append((chars \o a) \o b, z) = ((chars \o a) \o b) \o c
    <3>1. Append(chars, x) = chars \o a /\ chars \o a \in Seq(Characters)
      BY <2>1, AppendIsConcat, ConcatProperties
    <3>2. Append(chars \o a, y) = (chars \o a) \o b /\ (chars \o a) \o b \in Seq(Characters)
      BY <2>1, <3>1, AppendIsConcat, ConcatProperties
    <3>3. Append((chars \o a) \o b, z) = ((chars \o a) \o b) \o c
      BY <3>2, AppendIsConcat
    <3>4. QED BY <3>1, <3>2, <3>3
  <2> HIDE DEF a, b, c
  <2>4. ((chars \o a) \o b) \o c = chars \o ((a \o b) \o c)
    <3>1. (chars \o a) \o b = chars \o (a \o b) /\ a \o b \in Seq(Characters)
      BY <2>1, CharactersConcat, ConcatProperties
    <3>2. (chars \o (a \o b)) \o c = chars \o ((a \o b) \o c)
      BY <2>1, <3>1, CharactersConcat
    <3>3. QED BY <3>1, <3>2
  <2>5. QED BY <2>2, <2>3, <2>4
<1> DEFINE one == Append(chars, x)
           two == Append(one, y)
<1>2. one \in Seq(Characters) /\ two \in Seq(Characters) /\ Append(two, z) \in Seq(Characters)
  BY AppendProperties
<1>3. Parsed(one) = Character(Parsed(chars), x)
  BY ParsedIs
<1> HIDE DEF one
<1>4. Parsed(two) = Character(Parsed(one), y)
  BY <1>2, ParsedIs
<1> HIDE DEF two
<1>5. Parsed(Append(two, z)) = Character(Parsed(two), z)
  BY <1>2, ParsedIs
<1>6. QED BY <1>1, <1>2, <1>3, <1>4, <1>5 DEF one, two


(* A sequence up to an element, and to the next.                           *)
LEMMA PrefixGrows ==
  ASSUME NEW S, NEW s \in Seq(S), NEW k \in 0 .. Len(s) - 1
  PROVE  SubSeq(s, 1, k) \in Seq(S) /\ SubSeq(s, 1, k + 1) = Append(SubSeq(s, 1, k), s[k + 1])
<1>1. Len(s) \in Nat /\ \A i \in 1 .. Len(s) : s[i] \in S
  BY ElementOfSeq, LenProperties
<1>2. SubSeq(s, 1, k) \in Seq(S)
  <2>1. \A i \in 1 .. k : s[i] \in S
    BY <1>1
  <2>2. QED BY <2>1, SubSeqProperties
<1>3. SubSeq(s, 1, k + 1) = SubSeq(s, 1, k) \o <<s[k + 1]>>
  <2>1. 1 \in 1 .. Len(s) /\ k + 1 \in 1 .. Len(s) /\ (k + 1) - 1 = k
    BY <1>1
  <2>2. QED BY <1>1, <2>1, SubSeqRecursiveSecond
<1>4. s[k + 1] \in S
  BY <1>1
<1>5. QED BY <1>2, <1>3, <1>4, AppendIsConcat

(* The breakpoints of the file are read one behind the other.              *)
LEMMA LocationsRead ==
  ASSUME NEW chars \in Seq(Characters), NEW w, NEW b \in Seq(Name),
         \A i \in 1 .. Len(b) : b[i] # <<>> /\ b[i][1] \in Alphanumeric,
         Parsed(chars) = At("breakpoints", w, <<>>)
  PROVE  Parsed(chars \o Text(b)) = At("breakpoints", w, b)
<1>1. PICK n \in Nat : n = Len(b)
  BY LenProperties
<1>2. PICK f \in [0 .. n -> Seq(Characters)] :
        /\ f[0] = <<>>
        /\ \A i \in 1 .. n : f[i] = f[i - 1] \o Append(b[i], Newline)
        /\ Text(b) = f[n]
  BY <1>1, TextRecurrence
<1> DEFINE S == {k \in Nat : k <= n => Parsed(chars \o f[k]) = At("breakpoints", w, SubSeq(b, 1, k))}
<1>3. 0 \in S
  <2>1. SubSeq(b, 1, 0) = <<>> /\ chars \o f[0] = chars
    BY <1>2, SubSeqEmpty, ConcatEmptySeq
  <2>2. QED BY <2>1
<1>4. ASSUME NEW k \in Nat, k \in S PROVE k + 1 \in S
  <2> SUFFICES ASSUME k + 1 <= n
               PROVE  Parsed(chars \o f[k + 1]) = At("breakpoints", w, SubSeq(b, 1, k + 1))
    OBVIOUS
  <2>1. k \in 0 .. n /\ k \in 0 .. n - 1 /\ k + 1 \in 1 .. n /\ (k + 1) - 1 = k
    OBVIOUS
  <2>2. Parsed(chars \o f[k]) = At("breakpoints", w, SubSeq(b, 1, k))
    BY <1>4, <2>1
  <2> DEFINE line == b[k + 1]
             before == chars \o f[k]
             ended == Append(line, Newline)
  <2>3. line \in Name /\ line # <<>> /\ line[1] \in Alphanumeric
    BY <1>1, <2>1, ElementOfSeq
  <2>4. /\ SubSeq(b, 1, k) \in Seq(Name)
        /\ SubSeq(b, 1, k + 1) = Append(SubSeq(b, 1, k), line)
    <3>1. k \in 0 .. Len(b) - 1
      BY <1>1, <2>1
    <3>2. QED BY <3>1, PrefixGrows
  <2>5. f[k] \in Seq(Characters) /\ f[k + 1] = f[k] \o ended
    BY <1>2, <2>1
  <2>6. before \in Seq(Characters)
    BY <2>5, ConcatProperties
  <2> HIDE DEF line
  <2>7. ended \in Seq(Characters)
    BY <2>3, LineIs
  <2>8. before \o ended = chars \o f[k + 1]
    <3> HIDE DEF ended
    <3>1. \A u \in Seq(Characters), v \in Seq(Characters) : (chars \o u) \o v = chars \o (u \o v)
      BY CharactersConcat
    <3>2. before \o ended = chars \o (f[k] \o ended)
      BY <2>5, <2>7, <3>1
    <3>3. QED BY <2>5, <3>2
  <2>9. Parsed(before) = At("breakpoints", w, SubSeq(b, 1, k))
    BY <2>2
  <2> HIDE DEF before
  <2>10. Parsed(before \o ended) = At("breakpoints", w, Append(SubSeq(b, 1, k), line))
    BY <2>3, <2>4, <2>6, <2>9, LocationRead
  <2>11. QED BY <2>4, <2>8, <2>10
<1> HIDE DEF S
<1>5. n \in S
  BY <1>3, <1>4, Induction
<1>6. Parsed(chars \o f[n]) = At("breakpoints", w, SubSeq(b, 1, n))
  BY <1>5 DEF S
<1>7. SubSeq(b, 1, n) = b
  BY <1>1, SubSeqFull
<1>8. QED BY <1>2, <1>6, <1>7

(* The headers of the file.                                                *)
WHeader == <<">", "w", Newline>>
BHeader == <<">", "b", Newline>>
HeaderTurns(chars, w, b) ==
  /\ WHeader \in Seq(Characters) /\ chars \o WHeader \in Seq(Characters)
  /\ BHeader \in Seq(Characters) /\ chars \o BHeader \in Seq(Characters)
  /\ Parsed(chars \o WHeader) = At("variable", Append(w, <<>>), b)
  /\ Parsed(chars \o BHeader) = At("breakpoints", w, b)
LEMMA HeaderRead ==
  ASSUME NEW chars \in Seq(Characters), NEW w, NEW b, NEW at \in {"outside", "watchpoints"},
         Parsed(chars) = At(at, w, b)
  PROVE  HeaderTurns(chars, w, b)
<1> DEFINE e(x) == Character(Character(Character(Parsed(chars), ">"), x), Newline)
<1>1. WHeader \in Seq(Characters) /\ BHeader \in Seq(Characters)
  BY CharactersAre DEF WHeader, BHeader
<1>2. /\ chars \o WHeader \in Seq(Characters) /\ Parsed(chars \o WHeader) = e("w")
      /\ chars \o BHeader \in Seq(Characters) /\ Parsed(chars \o BHeader) = e("b")
  BY CharactersAre, ThreeMore DEF WHeader, BHeader
<1>3. Character(At(at, w, b), ">") = At("header", w, b)
  <2>1. Turns(w, b, ">")
    BY CharacterIs
  <2>2. QED BY <2>1 DEF Turns
<1>4. e("w") = At("variable", Append(w, <<>>), b)
  <2>1. Turns(w, b, "w") /\ Turns(w, b, Newline)
    BY CharacterIs
  <2>2. Character(At("header", w, b), "w") = At("watchpoints", w, b)
    BY <2>1 DEF Turns
  <2>3. Character(At("watchpoints", w, b), Newline) = At("variable", Append(w, <<>>), b)
    BY <2>1, CharactersAre DEF Turns
  <2>4. QED BY <1>3, <2>2, <2>3
<1>5. e("b") = At("breakpoints", w, b)
  <2>1. Turns(w, b, "b") /\ Turns(w, b, Newline)
    BY CharacterIs
  <2>2. Character(At("header", w, b), "b") = At("breakpoints", w, b)
    BY <2>1 DEF Turns
  <2>3. Character(At("breakpoints", w, b), Newline) = At("breakpoints", w, b)
    BY <2>1, CharactersAre DEF Turns
  <2>4. QED BY <1>3, <2>2, <2>3
<1>6. QED BY <1>1, <1>2, <1>4, <1>5 DEF HeaderTurns


(* The watchpoints as they are written.                                    *)
WPart(w) == IF w = <<>> THEN <<>> ELSE WHeader \o Text(w)
WEnd(w) == IF w = <<>> THEN "outside" ELSE "watchpoints"
LEMMA OneWatchpointRead ==
  ASSUME NEW w \in Seq(Name), Len(w) <= 1
  PROVE  WPart(w) \in Seq(Characters) /\ Parsed(WPart(w)) = At(WEnd(w), w, <<>>)
<1>1. PICK e \in Seq(Characters) : e = <<>>
  BY EmptySeq
<1>2. Parsed(e) = At("outside", <<>>, <<>>)
  BY <1>1, ParsedIs DEF NewReader, At
<1>3. CASE w = <<>>
  BY <1>1, <1>2, <1>3 DEF WPart, WEnd
<1>4. CASE w # <<>>
  <2>1. PICK n \in Nat : n = Len(w) /\ n # 0 /\ n <= 1
    BY <1>4, EmptySeq, LenProperties
  <2>2. n = 1
    BY <2>1
  <2>3. Len(w) = 1 /\ w[1] \in Name
    <3>1. Len(w) = 1
      BY <2>1, <2>2
    <3>2. \A i \in 1 .. Len(w) : w[i] \in Name
      BY ElementOfSeq
    <3>3. QED BY <3>1, <3>2
  <2>4. PICK line \in Name : line = w[1]
    BY <2>3
  <2>5. w = <<line>> /\ w = Append(<<>>, line)
    BY <2>3, <2>4
  <2>6. Text(w) = Append(line, Newline)
    BY <2>5, TextOf
  <2>7. WHeader \in Seq(Characters) /\ e \o WHeader = WHeader
    <3>1. WHeader \in Seq(Characters)
      BY CharactersAre DEF WHeader
    <3>2. QED BY <1>1, <3>1, ConcatEmptySeq
  <2>8. Parsed(WHeader) = At("variable", Append(<<>>, <<>>), <<>>)
    <3>1. Parsed(e \o WHeader) = At("variable", Append(<<>>, <<>>), <<>>)
      <4>1. HeaderTurns(e, <<>>, <<>>)
        BY <1>2, HeaderRead
      <4>2. QED BY <4>1 DEF HeaderTurns
    <3>2. QED BY <2>7, <3>1
  <2>9. /\ WHeader \o Append(line, Newline) \in Seq(Characters)
        /\ Parsed(WHeader \o Append(line, Newline)) = At("watchpoints", Append(<<>>, line), <<>>)
    <3>1. <<>> \in Seq(Name)
      BY EmptySeq
    <3>2. QED BY <2>7, <2>8, <3>1, VariableRead, Zenon
  <2>10. QED BY <1>4, <2>5, <2>6, <2>9 DEF WPart, WEnd
<1>5. QED BY <1>3, <1>4

(* What is written with at most one watchpoint, and locations that begin   *)
(* with a letter, a digit or '/', is read back.                            *)
LEMMA WrittenIsRead ==
  ASSUME NEW w \in Seq(Name), Len(w) <= 1, NEW b \in Seq(Name), NEW breaks, b = Places(breaks),
         breaks = <<>> <=> b = <<>>,
         \A i \in 1 .. Len(b) : b[i] # <<>> /\ b[i][1] \in Alphanumeric
  PROVE  Parsed(Lines(w, breaks)).watches = w /\ Parsed(Lines(w, breaks)).breaks = b
<1> DEFINE A == WPart(w)
           B == IF breaks = <<>> THEN <<>> ELSE BHeader \o Text(b)
           E == WEnd(w)
<1>1. Lines(w, breaks) = A \o B
  BY DEF Lines, WHeader, BHeader, WPart
<1>2. A \in Seq(Characters) /\ Parsed(A) = At(E, w, <<>>)
  BY OneWatchpointRead
<1>3. E \in {"outside", "watchpoints"}
  BY DEF WEnd
<1> HIDE DEF A, E
<1>4. CASE breaks = <<>>
  <2>1. Lines(w, breaks) = A
    <3>1. Lines(w, breaks) = A \o <<>>
      BY <1>1, <1>4
    <3>2. QED BY <1>2, <3>1, ConcatEmptySeq
  <2>2. Parsed(A) = At(E, w, b)
    BY <1>2, <1>4
  <2>3. QED BY <2>1, <2>2 DEF At
<1>5. CASE breaks # <<>>
  <2>1. /\ A \o BHeader \in Seq(Characters) /\ BHeader \in Seq(Characters)
        /\ Parsed(A \o BHeader) = At("breakpoints", w, <<>>)
    <3>1. HeaderTurns(A, w, <<>>)
      BY <1>2, <1>3, HeaderRead
    <3>2. QED BY <3>1 DEF HeaderTurns
  <2>2. Parsed((A \o BHeader) \o Text(b)) = At("breakpoints", w, b)
    BY <2>1, LocationsRead
  <2>3. Lines(w, breaks) = (A \o BHeader) \o Text(b)
    <3>1. Lines(w, breaks) = A \o (BHeader \o Text(b))
      BY <1>1, <1>5
    <3>2. Text(b) \in Seq(Characters)
      BY TextOf
    <3>3. (A \o BHeader) \o Text(b) = A \o (BHeader \o Text(b))
      BY <1>2, <2>1, <3>2, CharactersConcat
    <3>4. QED BY <3>1, <3>3
  <2>4. QED BY <2>2, <2>3 DEF At
<1>6. QED BY <1>4, <1>5

-----------------------------------------------------------------------------
(* The places of the breakpoints.                                          *)

(* The locations are names.                                                *)
LEMMA LocationsAre ==
  /\ Locations \subseteq Name /\ <<>> \notin Locations
  /\ Variables \subseteq Name
  /\ Misread \subseteq Locations
  /\ \A name \in DOMAIN Located : name \in Name /\ Located[name] \in Locations
<1>1. \A name \in Variables \cup DOMAIN Located \cup Locations : name \in Name /\ name # <<>>
  BY NamesAssumption DEF Name
<1>2. \A name \in DOMAIN Located : Located[name] \in Locations
  BY DEF Locations, Range
<1>3. QED BY <1>1, <1>2, NamesAssumption

LEMMA PlacesAre ==
  ASSUME NEW breaks \in Seq(Breaks)
  PROVE  /\ Places(breaks) \in Seq(Locations) /\ Places(breaks) \in Seq(Name)
         /\ Len(Places(breaks)) = Len(breaks)
         /\ \A i \in 1 .. Len(breaks) : Places(breaks)[i] = breaks[i].location
         /\ breaks = <<>> <=> Places(breaks) = <<>>
         /\ Range(Places(breaks)) = {x.location : x \in ToSet(breaks)}
         /\ Range(Places(breaks)) \subseteq Locations
<1>1. PICK n \in Nat : n = Len(breaks) /\ DOMAIN breaks = 1 .. n
  BY LenProperties
<1>2. \A i \in 1 .. n : breaks[i] \in Breaks /\ breaks[i].location \in Locations
  <2>1. \A i \in 1 .. n : breaks[i] \in Breaks
    BY <1>1, ElementOfSeq
  <2>2. \A x \in Breaks : x.location \in Locations
    BY DEF Breaks
  <2>3. QED BY <2>1, <2>2
<1> DEFINE p == Places(breaks)
<1>3. p = [i \in 1 .. n |-> breaks[i].location]
  BY <1>1 DEF Places
<1> HIDE DEF p
<1>4. p \in [1 .. n -> Locations] /\ \A i \in 1 .. n : p[i] = breaks[i].location
  BY <1>2, <1>3
<1>5. p \in Seq(Locations) /\ Len(p) = n /\ DOMAIN p = 1 .. n
  BY <1>4, SeqDef, LenProperties
<1>6. p \in Seq(Name)
  BY <1>5, LocationsAre, SeqMonotonic
<1>7. breaks = <<>> <=> p = <<>>
  BY <1>1, <1>5, EmptySeq
<1>8. Range(p) = {x.location : x \in ToSet(breaks)}
  <2>1. Range(p) = {p[i] : i \in 1 .. n}
    BY <1>5 DEF Range
  <2>2. ToSet(breaks) = {breaks[i] : i \in 1 .. n}
    BY <1>1 DEF ToSet
  <2>3. QED BY <1>4, <2>1, <2>2
<1>9. Range(p) \subseteq Locations
  BY <1>4, <1>5 DEF Range
<1>10. QED BY <1>1, <1>4, <1>5, <1>6, <1>7, <1>8, <1>9 DEF p


(* What is written, and what is read, has its type.                        *)
LEMMA LinesTyped ==
  ASSUME NEW w \in Seq(Name), NEW breaks \in Seq(Breaks)
  PROVE  Lines(w, breaks) \in Seq(Characters)
<1> DEFINE A == IF w = <<>> THEN <<>> ELSE WHeader \o Text(w)
           B == IF breaks = <<>> THEN <<>> ELSE BHeader \o Text(Places(breaks))
<1>1. <<>> \in Seq(Characters) /\ WHeader \in Seq(Characters) /\ BHeader \in Seq(Characters)
  BY CharactersAre, EmptySeq DEF WHeader, BHeader
<1>2. Text(w) \in Seq(Characters) /\ Text(Places(breaks)) \in Seq(Characters)
  BY PlacesAre, TextOf
<1>3. A \in Seq(Characters) /\ B \in Seq(Characters)
  BY <1>1, <1>2, ConcatProperties
<1>4. Lines(w, breaks) = A \o B
  BY DEF Lines, WHeader, BHeader
<1> HIDE DEF A, B
<1>5. QED BY <1>3, <1>4, ConcatProperties

LEMMA ParsedTyped ==
  ASSUME NEW chars \in Seq(Characters)
  PROVE  Parsed(chars).watches \in Seq(Name) /\ Parsed(chars).breaks \in Seq(Name)
<1>1. Parsed(chars) \in Readers
  BY ParsedIs
<1>2. QED BY <1>1 DEF Readers

(* The debugger sets what it finds.                                        *)
LEMMA SetAllIs ==
  ASSUME NEW names \in Seq(Name), SetAll(names)
  PROVE  /\ debugger_breaks' \in Seq(Breaks) /\ numbered' \in Nat
         /\ Range(Places(debugger_breaks')) = {Located[x] : x \in ToSet(names) \cap DOMAIN Located}
<1> DEFINE known == Only(names, DOMAIN Located)
<1>1. known \in Seq(DOMAIN Located) /\ ToSet(known) = ToSet(names) \cap DOMAIN Located
  BY OnlyElements
<1>2. /\ debugger_breaks' = [i \in DOMAIN known |-> [number |-> i, location |-> Located[known[i]]]]
      /\ numbered' = Len(known)
  BY DEF SetAll
<1> HIDE DEF known
<1>3. PICK n \in Nat : n = Len(known) /\ DOMAIN known = 1 .. n
  BY <1>1, LenProperties
<1>4. \A i \in 1 .. n : known[i] \in DOMAIN Located /\ Located[known[i]] \in Locations
  <2>1. \A i \in 1 .. n : known[i] \in DOMAIN Located
    BY <1>1, <1>3, ElementOfSeq
  <2>2. QED BY <2>1, LocationsAre
<1>5. PICK d : d = debugger_breaks'
  OBVIOUS
<1>6. d = [i \in 1 .. n |-> [number |-> i, location |-> Located[known[i]]]]
  BY <1>2, <1>3, <1>5
<1>7. d \in [1 .. n -> Breaks] /\ \A i \in 1 .. n : d[i].location = Located[known[i]]
  BY <1>4, <1>6 DEF Breaks
<1>8. d \in Seq(Breaks) /\ DOMAIN d = 1 .. n
  BY <1>7, SeqDef
<1>9. Range(Places(d)) = {x.location : x \in ToSet(d)}
  BY <1>8, PlacesAre
<1>10. ToSet(d) = {d[i] : i \in 1 .. n} /\ ToSet(known) = {known[i] : i \in 1 .. n}
  BY <1>3, <1>8 DEF ToSet
<1>11. Range(Places(d)) = {Located[x] : x \in ToSet(known)}
  BY <1>7, <1>9, <1>10
<1>12. QED BY <1>1, <1>2, <1>3, <1>5, <1>8, <1>11

(* The debugger sets one more.                                             *)
LEMMA SetIs ==
  ASSUME debugger_breaks \in Seq(Breaks), numbered \in Nat, NEW name \in DOMAIN Located, Set(name)
  PROVE  /\ debugger_breaks' \in Seq(Breaks) /\ numbered' \in Nat
         /\ Range(Places(debugger_breaks')) = Range(Places(debugger_breaks)) \cup {Located[name]}
<1> DEFINE new == [number |-> numbered + 1, location |-> Located[name]]
<1>1. debugger_breaks' = Append(debugger_breaks, new) /\ numbered' = numbered + 1
  BY DEF Set
<1>2. new \in Breaks /\ new.location = Located[name]
  BY LocationsAre DEF Breaks
<1> HIDE DEF new
<1>3. Append(debugger_breaks, new) \in Seq(Breaks)
  BY <1>2, AppendProperties
<1>4. ToSet(Append(debugger_breaks, new)) = ToSet(debugger_breaks) \cup {new}
  BY <1>2, ElementsOfAppend
<1>5. /\ Range(Places(Append(debugger_breaks, new)))
           = {x.location : x \in ToSet(Append(debugger_breaks, new))}
      /\ Range(Places(debugger_breaks)) = {x.location : x \in ToSet(debugger_breaks)}
  BY <1>3, PlacesAre
<1>6. Range(Places(Append(debugger_breaks, new))) = Range(Places(debugger_breaks)) \cup {Located[name]}
  BY <1>2, <1>4, <1>5
<1>7. QED BY <1>1, <1>3, <1>6

(* The debugger deletes by number.                                         *)
LEMMA WithoutIs ==
  ASSUME NEW breaks \in Seq(Breaks), NEW numbers
  PROVE  /\ Without(breaks, numbers) \in Seq(Breaks)
         /\ Range(Places(Without(breaks, numbers))) \subseteq Range(Places(breaks))
         /\ numbers = Numbers(breaks) => Range(Places(Without(breaks, numbers))) = {}
<1> DEFINE set == {b \in ToSet(breaks) : b.number \notin numbers}
           left == Without(breaks, numbers)
<1>1. left \in Seq(set) /\ ToSet(left) = ToSet(breaks) \cap set
  <2> HIDE DEF set
  <2>1. Only(breaks, set) \in Seq(set) /\ ToSet(Only(breaks, set)) = ToSet(breaks) \cap set
    BY OnlyElements
  <2>2. left = Only(breaks, set)
    BY DEF Without, set
  <2>3. QED BY <2>1, <2>2
<1>2. ToSet(breaks) \subseteq Breaks
  <2>1. \A i \in 1 .. Len(breaks) : breaks[i] \in Breaks
    BY ElementOfSeq
  <2>2. DOMAIN breaks = 1 .. Len(breaks)
    BY LenProperties
  <2>3. QED BY <2>1, <2>2 DEF ToSet
<1> HIDE DEF left
<1>3. set \subseteq Breaks
  BY <1>2
<1>4. left \in Seq(Breaks)
  <2> HIDE DEF set
  <2>1. QED BY <1>1, <1>3, SeqMonotonic
<1>5. /\ Range(Places(left)) = {x.location : x \in ToSet(left)}
      /\ Range(Places(breaks)) = {x.location : x \in ToSet(breaks)}
  BY <1>4, PlacesAre
<1>6. Range(Places(left)) \subseteq Range(Places(breaks))
  BY <1>1, <1>5
<1>7. ASSUME numbers = Numbers(breaks) PROVE Range(Places(left)) = {}
  <2>1. set = {}
    BY <1>7 DEF Numbers
  <2>2. QED BY <1>1, <1>5, <2>1
<1>8. QED BY <1>4, <1>6, <1>7 DEF left

-----------------------------------------------------------------------------
(* The steps.                                                              *)

(* careful is only ever made false.                                        *)
LEMMA NextKeepsCareful ==
  careful \in BOOLEAN /\ [Next]_vars => careful' \in BOOLEAN /\ (careful' => careful)
<1> SUFFICES ASSUME careful \in BOOLEAN, [Next]_vars
             PROVE  careful' \in BOOLEAN /\ (careful' => careful)
  OBVIOUS
<1>1. CASE Start
  BY <1>1, Zenon DEF Start, history
<1>2. CASE Restart
  BY <1>2, Zenon DEF Restart, Remember
<1>3. CASE Load
  BY <1>3, Zenon DEF Load, Remember
<1>4. CASE CleanUp
  BY <1>4, Zenon DEF CleanUp, EndProcess, Remember
<1>5. CASE Crash
  BY <1>5, Zenon DEF Crash, EndProcess, Remember
<1>6. ASSUME NEW name \in DOMAIN Located, InsertBreakpoint(name)
      PROVE  careful' \in BOOLEAN /\ (careful' => careful)
  BY <1>6, Zenon DEF InsertBreakpoint, Remember
<1>7. ASSUME NEW number \in Numbers(debugger_breaks), DeleteBreakpoint(number)
      PROVE  careful' \in BOOLEAN /\ (careful' => careful)
  BY <1>7, Zenon DEF DeleteBreakpoint, Remember
<1>8. CASE ClearAllBreakpoints
  BY <1>8, Zenon DEF ClearAllBreakpoints, Remember
<1>9. ASSUME NEW variable \in Variables, InsertWatchpoint(variable)
      PROVE  careful' \in BOOLEAN /\ (careful' => careful)
  BY <1>9, Zenon DEF InsertWatchpoint, Remember
<1>10. ASSUME NEW i \in DOMAIN watchpoints, DeleteWatchpoint(i)
       PROVE  careful' \in BOOLEAN /\ (careful' => careful)
  BY <1>10, Zenon DEF DeleteWatchpoint, history
<1>11. CASE ClearAllWatchpoints
  BY <1>11, Zenon DEF ClearAllWatchpoints, history
<1>12. CASE UpdateWat \/ UpdateBrk \/ QueryBreakpoints \/ OpenFile \/ WriteFile
  <2>1. UNCHANGED history
    BY <1>12 DEF UpdateWat, UpdateBrk, QueryBreakpoints, OpenFile, WriteFile
  <2>2. QED BY <2>1, Zenon DEF history
<1>13. CASE UNCHANGED vars
  BY <1>13, Zenon DEF vars
<1>14. QED
  BY <1>1, <1>2, <1>3, <1>4, <1>5, <1>6, <1>7, <1>8, <1>9, <1>10, <1>11, <1>12, <1>13 DEF Next


(* Everything else has its type.                                           *)
LEMMA NextPreservesTypes == TypeOK /\ [Next]_vars => TypeOK'
<1> DEFINE Kinds == {"Wat", "Brk"}
           File == file \in Seq(Characters)
           Watches == watchpoints \in Seq(Name)
           Copy == breakpoints \in Seq(Breaks)
           Debugger == debugger_breaks \in Seq(Breaks) /\ numbered \in Nat
           Queue == updates \in Seq({"Wat", "Brk"}) /\ Len(updates) <= MaxQueuedUpdates
           Rest == /\ update_pc \in {"wait", "query", "open", "write"}
                   /\ phase \in {"off", "start_program", "up"} /\ sessions \in 0 .. MaxSessions
           Wanted == wanted \subseteq Locations
           T == File /\ Watches /\ Copy /\ Debugger /\ Queue /\ Rest /\ Wanted
<1> SUFFICES ASSUME TypeOK, [Next]_vars PROVE TypeOK'
  OBVIOUS
<1>0. T /\ MaxSessions \in Nat /\ MaxQueuedUpdates \in Nat
  BY BoundsAssumption DEF TypeOK, Name
<1>e. \A S : <<>> \in Seq(S) /\ Len(<<>>) = 0
  BY EmptySeq
<1>p. Parsed(file).watches \in Seq(Name) /\ Parsed(file).breaks \in Seq(Name)
  BY <1>0, ParsedTyped
<1>l. Lines(watchpoints, breakpoints) \in Seq(Characters)
  BY <1>0, LinesTyped
<1>a. ASSUME NEW windows \in {<<"Wat", "Brk">>, <<"Brk">>, <<"Wat">>}, Enqueue(windows) PROVE Queue'
  BY <1>0, <1>a, Requests, EnqueueAdds
<1>b. ASSUME NEW breaks \in Seq(Breaks)
      PROVE  /\ Range(Places(breaks)) \subseteq Locations
             /\ \A numbers : Without(breaks, numbers) \in Seq(Breaks)
  BY PlacesAre, WithoutIs
<1>1. ASSUME Start PROVE T'
  BY <1>0, <1>1 DEF Start, lists, debugger, updating, history
<1>2. ASSUME Restart PROVE T'
  BY <1>0, <1>e, <1>2 DEF Restart, ProgramEnds, lists, updating, Remember
<1>3. ASSUME Load PROVE T'
  <2>1. Watches'
    BY <1>0, <1>p, <1>3, ConcatProperties DEF Load
  <2>2. Debugger'
    BY <1>p, <1>3, SetAllIs DEF Load
  <2>3. Queue'
    BY <1>3, <1>a DEF Load
  <2>4. Wanted'
    BY <1>0, <1>3 DEF Load, Remember
  <2> HIDE DEF Watches, Debugger, Queue, Wanted
  <2>5. QED BY <1>0, <1>3, <2>1, <2>2, <2>3, <2>4 DEF Load
<1>4. ASSUME EndProcess, File' PROVE T'
  BY <1>0, <1>e, <1>4 DEF EndProcess, ProgramEnds, Remember
<1>5. ASSUME CleanUp PROVE T'
  BY <1>4, <1>l, <1>5 DEF CleanUp
<1>6. ASSUME Crash PROVE T'
  BY <1>0, <1>4, <1>6 DEF Crash
<1>7. ASSUME NEW name \in DOMAIN Located, InsertBreakpoint(name) PROVE T'
  <2>1. Debugger'
    BY <1>0, <1>7, SetIs DEF InsertBreakpoint
  <2>2. Queue'
    BY <1>7, <1>a DEF InsertBreakpoint
  <2>3. Wanted'
    BY <1>0, <1>7, LocationsAre DEF InsertBreakpoint, Remember
  <2> HIDE DEF Debugger, Queue, Wanted
  <2>4. QED BY <1>0, <1>7, <2>1, <2>2, <2>3 DEF InsertBreakpoint, lists, session
<1>8. ASSUME NEW number \in Numbers(debugger_breaks), DeleteBreakpoint(number) PROVE T'
  <2>1. Debugger'
    BY <1>0, <1>b, <1>8 DEF DeleteBreakpoint
  <2>2. Queue'
    BY <1>8, <1>a DEF DeleteBreakpoint
  <2>3. Wanted'
    BY <1>0, <1>8 DEF DeleteBreakpoint, Remember
  <2> HIDE DEF Debugger, Queue, Wanted
  <2>4. QED BY <1>0, <1>8, <2>1, <2>2, <2>3 DEF DeleteBreakpoint, lists, session
<1>9. ASSUME ClearAllBreakpoints PROVE T'
  <2>1. Debugger'
    BY <1>0, <1>b, <1>9 DEF ClearAllBreakpoints
  <2>2. Queue'
    BY <1>9, <1>a DEF ClearAllBreakpoints
  <2>3. Wanted' /\ Copy'
    BY <1>0, <1>e, <1>9 DEF ClearAllBreakpoints, Remember
  <2> HIDE DEF Debugger, Queue, Wanted, Copy
  <2>4. QED BY <1>0, <1>9, <2>1, <2>2, <2>3 DEF ClearAllBreakpoints, session
<1>10. ASSUME NEW variable \in Variables, InsertWatchpoint(variable) PROVE T'
  <2>1. Watches'
    BY <1>0, <1>10, LocationsAre, AppendProperties DEF InsertWatchpoint
  <2>2. Queue'
    BY <1>10, <1>a DEF InsertWatchpoint
  <2>3. Wanted'
    BY <1>0, <1>10 DEF InsertWatchpoint, Remember
  <2> HIDE DEF Watches, Queue, Wanted
  <2>4. QED BY <1>0, <1>10, <2>1, <2>2, <2>3 DEF InsertWatchpoint, debugger, session
<1>11. ASSUME NEW i \in DOMAIN watchpoints, DeleteWatchpoint(i) PROVE T'
  <2>1. Watches'
    BY <1>0, <1>11, RemoveAtShortens DEF DeleteWatchpoint
  <2>2. Queue'
    BY <1>11, <1>a DEF DeleteWatchpoint
  <2> HIDE DEF Watches, Queue
  <2>3. QED BY <1>0, <1>11, <2>1, <2>2 DEF DeleteWatchpoint, debugger, session, history
<1>12. ASSUME ClearAllWatchpoints PROVE T'
  <2>1. Watches'
    BY <1>e, <1>12 DEF ClearAllWatchpoints
  <2>2. Queue'
    BY <1>12, <1>a DEF ClearAllWatchpoints
  <2> HIDE DEF Watches, Queue
  <2>3. QED BY <1>0, <1>12, <2>1, <2>2 DEF ClearAllWatchpoints, debugger, session, history
<1>13. ASSUME updates # <<>> PROVE Tail(updates) \in Seq(Kinds) /\ Len(Tail(updates)) <= MaxQueuedUpdates
  BY <1>0, <1>13, HeadTailProperties
<1>14. ASSUME UpdateWat PROVE T'
  BY <1>0, <1>13, <1>14 DEF UpdateWat, lists, debugger, session, history
<1>15. ASSUME UpdateBrk PROVE T'
  BY <1>0, <1>e, <1>13, <1>15 DEF UpdateBrk, debugger, session, history
<1>16. ASSUME QueryBreakpoints PROVE T'
  BY <1>0, <1>e, <1>16 DEF QueryBreakpoints, debugger, session, history
<1>17. ASSUME OpenFile PROVE T'
  BY <1>0, <1>e, <1>17 DEF OpenFile, lists, debugger, session, history
<1>18. ASSUME WriteFile PROVE T'
  BY <1>0, <1>l, <1>18 DEF WriteFile, lists, debugger, session, history
<1>19. ASSUME UNCHANGED vars PROVE T'
  BY <1>0, <1>19 DEF vars
<1>20. T'
  <2> HIDE DEF T
  <2>1. QED
    BY <1>1, <1>2, <1>3, <1>5, <1>6, <1>7, <1>8, <1>9, <1>10, <1>11, <1>12, <1>14, <1>15, <1>16,
       <1>17, <1>18, <1>19 DEF Next
<1>21. careful' \in BOOLEAN
  BY NextKeepsCareful DEF TypeOK
<1>22. QED BY <1>20, <1>21 DEF TypeOK, Name

(* What is out of date stays queued or under way.                          *)
LEMMA NextPreservesPending == TypeOK /\ Pending /\ [Next]_vars => Pending'
<1> DEFINE Copy == breakpoints = Listed(debugger_breaks) \/ "Brk" \in ToSet(updates)
                     \/ update_pc = "query"
           Saved == updates # <<>> \/ update_pc # "wait" \/ file = Lines(watchpoints, breakpoints)
           P == phase = "up" => Copy /\ Saved
<1> SUFFICES ASSUME TypeOK, P, [Next]_vars PROVE P'
  BY DEF Pending
<1>0. updates \in Seq({"Wat", "Brk"})
  BY DEF TypeOK
<1>a. ASSUME NEW windows \in {<<"Wat", "Brk">>, <<"Brk">>, <<"Wat">>}, Enqueue(windows)
      PROVE  updates' # <<>> /\ ToSet(updates) \cup ToSet(windows) \subseteq ToSet(updates')
  BY <1>0, <1>a, Requests, EnqueueAdds
<1>1. ASSUME Start PROVE P'
  BY <1>1 DEF Start
<1>2. ASSUME Restart PROVE P'
  BY <1>2 DEF Restart
<1>3. ASSUME Load PROVE P'
  BY <1>a, <1>3, Requests DEF Load
<1>4. ASSUME CleanUp PROVE P'
  BY <1>4 DEF CleanUp, EndProcess
<1>5. ASSUME Crash PROVE P'
  BY <1>5 DEF Crash, EndProcess
<1>6. ASSUME NEW name \in DOMAIN Located, InsertBreakpoint(name) PROVE P'
  BY <1>a, <1>6, Requests DEF InsertBreakpoint
<1>7. ASSUME NEW number \in Numbers(debugger_breaks), DeleteBreakpoint(number) PROVE P'
  BY <1>a, <1>7, Requests DEF DeleteBreakpoint
<1>8. ASSUME ClearAllBreakpoints PROVE P'
  BY <1>a, <1>8, Requests DEF ClearAllBreakpoints
<1>9. ASSUME NEW variable \in Variables, InsertWatchpoint(variable) PROVE P'
  <2>1. updates' # <<>> /\ ToSet(updates) \subseteq ToSet(updates')
    BY <1>a, <1>9 DEF InsertWatchpoint
  <2>2. QED BY <1>9, <2>1 DEF InsertWatchpoint, debugger, session
<1>10. ASSUME NEW i \in DOMAIN watchpoints, DeleteWatchpoint(i) PROVE P'
  <2>1. updates' # <<>> /\ ToSet(updates) \subseteq ToSet(updates')
    BY <1>a, <1>10 DEF DeleteWatchpoint
  <2>2. QED BY <1>10, <2>1 DEF DeleteWatchpoint, debugger, session
<1>11. ASSUME ClearAllWatchpoints PROVE P'
  <2>1. updates' # <<>> /\ ToSet(updates) \subseteq ToSet(updates')
    BY <1>a, <1>11 DEF ClearAllWatchpoints
  <2>2. QED BY <1>11, <2>1 DEF ClearAllWatchpoints, debugger, session
<1>12. ASSUME UpdateWat PROVE P'
  <2>1. "Brk" \in ToSet(updates) => "Brk" \in ToSet(updates')
    <3>1. ToSet(updates) = {Head(updates)} \cup ToSet(Tail(updates))
      BY <1>0, <1>12, ElementsOfTail DEF UpdateWat
    <3>2. QED BY <1>12, <3>1 DEF UpdateWat
  <2>2. QED BY <1>12, <2>1 DEF UpdateWat, lists, debugger, session
<1>13. ASSUME UpdateBrk PROVE P'
  BY <1>13 DEF UpdateBrk
<1>14. ASSUME QueryBreakpoints PROVE P'
  <2>1. breakpoints' = Listed(debugger_breaks')
    BY <1>14 DEF QueryBreakpoints, debugger, Listed
  <2>2. QED BY <1>14, <2>1 DEF QueryBreakpoints
<1>15. ASSUME OpenFile PROVE P'
  BY <1>15 DEF OpenFile, lists, debugger, session
<1>16. ASSUME WriteFile PROVE P'
  BY <1>16 DEF WriteFile, lists, debugger, session
<1>17. ASSUME UNCHANGED vars PROVE P'
  BY <1>17 DEF vars
<1>18. QED
  <2> HIDE DEF P
  <2>1. QED
    BY <1>1, <1>2, <1>3, <1>4, <1>5, <1>6, <1>7, <1>8, <1>9, <1>10, <1>11, <1>12, <1>13, <1>14,
       <1>15, <1>16, <1>17 DEF Next


(* What is written with locations that are read back is read back.         *)
LEMMA ReadBack ==
  ASSUME NEW w \in Seq(Name), Len(w) <= 1, NEW breaks \in Seq(Breaks),
         \A l \in Range(Places(breaks)) : l[1] \in Alphanumeric
  PROVE  /\ Parsed(Lines(w, breaks)).watches = w
         /\ Parsed(Lines(w, breaks)).breaks = Places(breaks)
<1> DEFINE b == Places(breaks)
<1>1. /\ b \in Seq(Locations) /\ b \in Seq(Name) /\ Range(b) \subseteq Locations
      /\ (breaks = <<>> <=> b = <<>>)
  BY PlacesAre
<1>2. DOMAIN b = 1 .. Len(b)
  BY <1>1, LenProperties
<1>3. \A i \in 1 .. Len(b) : b[i] \in Range(b)
  BY <1>2 DEF Range
<1>4. \A l \in Locations : l # <<>>
  BY LocationsAre
<1>5. \A i \in 1 .. Len(b) : b[i] # <<>> /\ b[i][1] \in Alphanumeric
  BY <1>1, <1>3, <1>4
<1>6. QED BY <1>1, <1>5, WrittenIsRead

(* A careful user's breakpoints are never out of reach.  The sessions of a *)
(* careful user end quietly, with the file up to date, and what is written *)
(* with one watchpoint and reloadable locations is read back.              *)
LEMMA NextPreservesKept == TypeOK /\ Pending /\ Kept /\ [Next]_vars => Kept'
<1> SUFFICES ASSUME TypeOK, Pending, Kept, [Next]_vars PROVE Kept'
  OBVIOUS
<1>0. /\ file \in Seq(Characters) /\ watchpoints \in Seq(Name)
      /\ breakpoints \in Seq(Breaks) /\ debugger_breaks \in Seq(Breaks) /\ numbered \in Nat
      /\ updates \in Seq({"Wat", "Brk"})
      /\ phase \in {"off", "start_program", "up"} /\ wanted \subseteq Locations
  BY DEF TypeOK, Name
<1>e. /\ Len(<<>>) = 0 /\ ToSet(<<>>) = {} /\ Len(<<>>) <= 1
      /\ Places(<<>>) = <<>> /\ Range(<<>>) = {}
  BY EmptySeq DEF ToSet, Places, Range
<1>q. ASSUME Quiet, careful
      PROVE  /\ breakpoints = debugger_breaks /\ file = Lines(watchpoints, debugger_breaks)
             /\ wanted = Range(Places(debugger_breaks))
             /\ wanted = ToSet(Parsed(file).breaks) /\ wanted \subseteq Reloadable
  <2>1. wanted = Range(Places(debugger_breaks)) /\ wanted \subseteq Reloadable
    BY <1>q DEF Kept, Quiet
  <2>2. Listed(debugger_breaks) = debugger_breaks
    BY <2>1 DEF Listed, Reloadable
  <2>3. breakpoints = debugger_breaks /\ file = Lines(watchpoints, debugger_breaks)
    BY <1>q, <1>e, <2>2 DEF Pending, Quiet
  <2>4. \A l \in Range(Places(debugger_breaks)) : l[1] \in Alphanumeric
    BY <2>1 DEF Reloadable
  <2>5. Parsed(Lines(watchpoints, debugger_breaks)).breaks = Places(debugger_breaks)
    BY <1>0, <1>q, <2>4, ReadBack DEF Kept
  <2>6. ToSet(Places(debugger_breaks)) = Range(Places(debugger_breaks))
    BY DEF ToSet, Range
  <2>7. QED BY <2>1, <2>3, <2>5, <2>6
<1>1. ASSUME Start PROVE Kept'
  BY <1>1 DEF Start, Kept, lists, debugger, updating, history
<1>2. ASSUME Restart PROVE Kept'
  <2>1. /\ careful' => careful /\ Quiet
        /\ careful' => wanted' = wanted
    BY <1>2, Zenon DEF Restart, Remember
  <2>2. careful' => /\ updates' = <<>> /\ update_pc' = "wait"
                    /\ wanted' = ToSet(Parsed(file').breaks) /\ wanted' \subseteq Reloadable
    BY <1>2, <1>q, <2>1 DEF Restart, updating, Quiet
  <2>3. careful' => Len(watchpoints') <= 1
    BY <1>2, <2>1 DEF Restart, lists, Kept
  <2>4. phase' # "up" /\ debugger_breaks' = <<>>
    BY <1>2 DEF Restart, ProgramEnds
  <2>5. QED BY <2>2, <2>3, <2>4 DEF Kept
<1>3. ASSUME Load PROVE Kept'
  <2>1. /\ careful' => careful /\ Len(watchpoints') <= 1
        /\ careful' => wanted' = wanted
    BY <1>3, Zenon DEF Load, Remember
  <2>2. Range(Places(debugger_breaks'))
          = {Located[x] : x \in ToSet(Parsed(file).breaks) \cap DOMAIN Located}
    <3>1. Parsed(file).breaks \in Seq(Name)
      BY <1>0, ParsedTyped
    <3>2. QED BY <1>3, <3>1, SetAllIs DEF Load
  <2>3. careful' => wanted' = Range(Places(debugger_breaks')) /\ wanted' \subseteq Reloadable
    <3>1. careful' => wanted = ToSet(Parsed(file).breaks) /\ wanted \subseteq Reloadable
      BY <1>3, <2>1 DEF Load, Kept
    <3>2. \A x \in Reloadable : x \in DOMAIN Located /\ Located[x] = x
      BY DEF Reloadable
    <3>3. careful' => Range(Places(debugger_breaks')) = wanted
      BY <2>2, <3>1, <3>2
    <3>4. QED BY <2>1, <3>1, <3>3
  <2>4. phase' = "up"
    BY <1>3 DEF Load
  <2>5. QED BY <2>1, <2>3, <2>4 DEF Kept
<1>4. ASSUME EndProcess, file' = Lines(watchpoints, breakpoints) \/ file' = file PROVE Kept'
  <2>1. /\ careful' => careful /\ Quiet
        /\ careful' => wanted' = wanted
    BY <1>4, Zenon DEF EndProcess, Remember
  <2>2. careful' => file' = file
    BY <1>4, <1>q, <2>1
  <2>3. careful' => wanted' = ToSet(Parsed(file').breaks) /\ wanted' \subseteq Reloadable
    BY <1>q, <2>1, <2>2
  <2>4. /\ watchpoints' = <<>> /\ debugger_breaks' = <<>> /\ updates' = <<>> /\ update_pc' = "wait"
        /\ phase' = "off"
    BY <1>4 DEF EndProcess, ProgramEnds
  <2>5. QED BY <1>e, <2>3, <2>4 DEF Kept
<1>5. ASSUME CleanUp PROVE Kept'
  BY <1>4, <1>5 DEF CleanUp
<1>6. ASSUME Crash PROVE Kept'
  BY <1>4, <1>6 DEF Crash
<1>7. ASSUME NEW name \in DOMAIN Located, InsertBreakpoint(name) PROVE Kept'
  <2>1. Range(Places(debugger_breaks')) = Range(Places(debugger_breaks)) \cup {Located[name]}
    BY <1>0, <1>7, SetIs DEF InsertBreakpoint
  <2>2. /\ careful' => careful /\ Located[name] \in Reloadable
        /\ careful' => wanted' = wanted \cup {Located[name]}
    BY <1>7, Zenon DEF InsertBreakpoint, Remember
  <2>3. careful' => wanted = Range(Places(debugger_breaks)) /\ wanted \subseteq Reloadable
                    /\ Len(watchpoints) <= 1
    BY <1>7, <2>2 DEF InsertBreakpoint, Kept
  <2>4. phase' = "up" /\ watchpoints' = watchpoints
    BY <1>7 DEF InsertBreakpoint, lists, session
  <2>5. QED BY <2>1, <2>2, <2>3, <2>4 DEF Kept
<1>8. ASSUME NEW number \in Numbers(debugger_breaks), DeleteBreakpoint(number) PROVE Kept'
  <2> DEFINE before == Range(Places(debugger_breaks))
             after == Range(Places(debugger_breaks'))
  <2>1. debugger_breaks' = Without(debugger_breaks, {number})
    BY <1>8 DEF DeleteBreakpoint
  <2>2. after \subseteq before
    BY <1>0, <2>1, WithoutIs
  <2>3. careful' => careful /\ wanted' = wanted \ (before \ after)
    BY <1>8, <2>1, Zenon DEF DeleteBreakpoint, Remember
  <2>4. careful' => wanted = before /\ wanted \subseteq Reloadable /\ Len(watchpoints) <= 1
    BY <1>8, <2>3 DEF DeleteBreakpoint, Kept
  <2>5. phase' = "up" /\ watchpoints' = watchpoints
    BY <1>8 DEF DeleteBreakpoint, lists, session
  <2>6. careful' => wanted' = after /\ wanted' \subseteq Reloadable
    <3> HIDE DEF before, after
    <3>1. QED BY <2>2, <2>3, <2>4
  <2>7. QED BY <2>4, <2>5, <2>6, <2>3 DEF Kept
<1>9. ASSUME ClearAllBreakpoints PROVE Kept'
  <2>1. careful' => careful /\ Quiet /\ wanted' = {}
    BY <1>9, Zenon DEF ClearAllBreakpoints, Remember
  <2>2. careful' => Range(Places(debugger_breaks')) = {}
    <3>1. careful' => debugger_breaks' = Without(debugger_breaks, Numbers(debugger_breaks))
      BY <1>9, <1>q, <2>1 DEF ClearAllBreakpoints
    <3>2. Range(Places(Without(debugger_breaks, Numbers(debugger_breaks)))) = {}
      BY <1>0, WithoutIs
    <3>3. QED BY <3>1, <3>2
  <2>3. phase' = "up" /\ watchpoints' = watchpoints
    BY <1>9 DEF ClearAllBreakpoints, session
  <2>4. careful' => Len(watchpoints') <= 1
    BY <2>1, <2>3 DEF Kept
  <2>5. QED BY <2>1, <2>2, <2>3, <2>4 DEF Kept
<1>10. ASSUME NEW variable \in Variables, InsertWatchpoint(variable) PROVE Kept'
  <2>1. careful' => careful /\ watchpoints = <<>> /\ wanted' = wanted
    BY <1>10, Zenon DEF InsertWatchpoint, Remember
  <2>2. Len(watchpoints') = Len(watchpoints) + 1
    BY <1>0, <1>10, LocationsAre, AppendProperties DEF InsertWatchpoint
  <2>3. careful' => Len(watchpoints') <= 1
    BY <1>e, <2>1, <2>2
  <2>4. QED BY <1>10, <2>1, <2>3 DEF InsertWatchpoint, Kept, debugger, session
<1>11. ASSUME NEW i \in DOMAIN watchpoints, DeleteWatchpoint(i) PROVE Kept'
  <2>1. Len(watchpoints') = Len(watchpoints) - 1 /\ Len(watchpoints) \in Nat
    BY <1>0, <1>11, RemoveAtShortens, LenProperties DEF DeleteWatchpoint
  <2>2. careful' => Len(watchpoints') <= 1
    BY <1>11, <2>1 DEF DeleteWatchpoint, Kept, history
  <2>3. QED BY <1>11, <2>2 DEF DeleteWatchpoint, Kept, debugger, session, history
<1>12. ASSUME ClearAllWatchpoints PROVE Kept'
  BY <1>12, <1>e DEF ClearAllWatchpoints, Kept, debugger, session, history
<1>13. ASSUME UpdateWat PROVE Kept'
  BY <1>13 DEF UpdateWat, Kept, lists, debugger, session, history
<1>14. ASSUME UpdateBrk PROVE Kept'
  BY <1>14 DEF UpdateBrk, Kept, debugger, session, history
<1>15. ASSUME QueryBreakpoints PROVE Kept'
  BY <1>15 DEF QueryBreakpoints, Kept, debugger, session, history
<1>16. ASSUME OpenFile PROVE Kept'
  BY <1>16 DEF OpenFile, Kept, lists, debugger, session, history
<1>17. ASSUME WriteFile PROVE Kept'
  BY <1>17 DEF WriteFile, Kept, lists, debugger, session, history
<1>18. ASSUME UNCHANGED vars PROVE Kept'
  BY <1>18 DEF vars, Kept
<1>19. QED
  BY <1>1, <1>2, <1>3, <1>5, <1>6, <1>7, <1>8, <1>9, <1>10, <1>11, <1>12, <1>13, <1>14, <1>15,
     <1>16, <1>17, <1>18 DEF Next

(* A machine without a file satisfies the invariant.                       *)
LEMMA InitEstablishesPersistenceInv == Init => PersistenceInv
<1> SUFFICES ASSUME Init PROVE PersistenceInv
  OBVIOUS
<1>1. \A S : <<>> \in Seq(S) /\ Len(<<>>) = 0
  BY EmptySeq
<1>2. TypeOK
  BY <1>1, BoundsAssumption DEF Init, TypeOK
<1>3. Pending
  BY DEF Init, Pending
<1>4. Kept
  <2>1. Parsed(file).breaks = <<>>
    BY ParsedIs DEF Init, NewReader
  <2>2. ToSet(<<>>) = {} /\ Len(<<>>) <= 1
    BY <1>1 DEF ToSet
  <2>3. QED BY <2>1, <2>2 DEF Init, Kept
<1>5. QED BY <1>2, <1>3, <1>4 DEF PersistenceInv

-----------------------------------------------------------------------------
(* Always: the types, and what makes a copy or a file that is behind catch *)
(* up, and a careful user's breakpoints survive (persist_data.c, the       *)
(* breakpoint plugins and the update thread).                              *)
THEOREM PersistenceInvariant == Spec => []PersistenceInv
<1>1. PersistenceInv /\ [Next]_vars => PersistenceInv'
  BY NextPreservesTypes, NextPreservesPending, NextPreservesKept DEF PersistenceInv
<1>2. QED BY <1>1, InitEstablishesPersistenceInv, PTL DEF Spec

(* Every variable has its type, in every session.                          *)
THEOREM PersistenceTypeCorrect == Spec => []TypeOK
<1>1. PersistenceInv => TypeOK
  BY DEF PersistenceInv
<1>2. QED BY <1>1, PersistenceInvariant, PTL

(* Once the update thread is idle and its queue is empty, the file holds   *)
(* the watchpoints and the debugger's breakpoints, or no breakpoint when   *)
(* GDB lists one with the word "error" (update_window_thread,              *)
(* get_breakpoint_data and persist_data).                                  *)
THEOREM FileIsUpToDate == Spec => []FileCatchesUp
<1>1. PersistenceInv => FileCatchesUp
  <2> DEFINE misread == \E b \in ToSet(debugger_breaks) : b.location \in Misread
  <2> SUFFICES ASSUME PersistenceInv, Quiet
               PROVE  file = Lines(watchpoints, IF misread THEN <<>> ELSE debugger_breaks)
    BY DEF FileCatchesUp
  <2>1. "Brk" \notin ToSet(<<>>)
    BY DEF ToSet
  <2>2. file = Lines(watchpoints, breakpoints) /\ breakpoints = Listed(debugger_breaks)
    BY <2>1 DEF PersistenceInv, Pending, Quiet
  <2>3. misread <=> Range(Places(debugger_breaks)) \cap Misread # {}
    <3>1. Range(Places(debugger_breaks)) = {x.location : x \in ToSet(debugger_breaks)}
      BY PlacesAre DEF PersistenceInv, TypeOK
    <3>2. QED BY <3>1
  <2>4. QED BY <2>2, <2>3 DEF Listed
<1>2. QED BY <1>1, PersistenceInvariant, PTL

(* The breakpoints of a careful user, at locations that the file and the   *)
(* debugger give back as they are, are in the debugger in every later      *)
(* session (get_persisted_data and the breakpoint plugins).                *)
THEOREM BreakpointsSurvive == Spec => []BreakpointsKept
<1>1. PersistenceInv => BreakpointsKept
  BY DEF PersistenceInv, Kept, Quiet, BreakpointsKept
<1>2. QED BY <1>1, PersistenceInvariant, PTL

(* What is saved with at most one watchpoint, and with locations that      *)
(* begin with a letter, a digit or '/', is what the next session will read *)
(* (persist_data and get_persisted_data).                                  *)
THEOREM OneWatchpointSurvives == Spec => []OneWatchpointReloads
<1>1. PersistenceInv => OneWatchpointReloads
  <2> SUFFICES ASSUME PersistenceInv, Quiet, Len(watchpoints) <= 1,
                      \A l \in Range(Places(breakpoints)) : l[1] \in Alphanumeric
               PROVE  /\ Parsed(file).watches = watchpoints
                      /\ Parsed(file).breaks = Places(breakpoints)
    BY DEF OneWatchpointReloads
  <2>1. file = Lines(watchpoints, breakpoints)
    BY DEF PersistenceInv, Pending, Quiet
  <2>2. watchpoints \in Seq(Name) /\ breakpoints \in Seq(Breaks)
    BY DEF PersistenceInv, TypeOK, Name
  <2>3. QED BY <2>1, <2>2, ReadBack
<1>2. QED BY <1>1, PersistenceInvariant, PTL
=============================================================================
