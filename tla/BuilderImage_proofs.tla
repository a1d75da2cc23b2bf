------------------------ MODULE BuilderImage_proofs ------------------------
(***************************************************************************)
(* What a builder image holds and what it depends on, for all sources,     *)
(* orders, stacks and lifecycles: the image has all that its order         *)
(* reaches, each layer once, and the mixins its buildpacks need; and it is *)
(* the same whatever order objects are listed in, store images answer in   *)
(* and maps are walked in.                                                 *)
(*                                                                         *)
(* The invariant follows the layers while groups are added.  That fetching *)
(* gives a closed list of layers is an induction over the depth of orders; *)
(* that sorting has one result is the argument of the first place at which *)
(* two sorted lists differ.                                                *)
(***************************************************************************)
EXTENDS BuilderImage, TLAPS, FiniteSetTheorems, WellFoundedInduction

---------------------------------------------------------------------------
(* Numbers and lists. *)

LEMMA LessIsWellFounded == IsWellFoundedOn({ss \in Nat \X Nat : ss[1] < ss[2]}, Nat)
  BY NatLessThanWellFounded, Zenon DEF OpToRel

\* A set of numbers has a least one.
LEMMA Least ==
    ASSUME NEW S \in SUBSET Nat, S # {} PROVE \E m \in S : \A n \in S : m <= n
<1> DEFINE less == {ss \in Nat \X Nat : ss[1] < ss[2]}
<1>1. PICK m \in S : \A n \in S : <<n, m>> \notin less
  <2>1. IsWellFoundedOn(less, Nat)
    BY LessIsWellFounded
  <2> HIDE DEF less
  <2> QED
    BY <2>1, WFMin
<1>2. ASSUME NEW n \in S PROVE m <= n
  <2>1. <<n, m>> \in Nat \X Nat /\ ~(n < m)
    BY <1>1
  <2> QED
    BY <2>1
<1> QED
  BY <1>2

\* Induction up to a number: what has 0, and with a number the next one, has them all.
LEMMA Upto ==
    ASSUME NEW n \in Nat, NEW S, 0 \in S, \A k \in 0 .. n - 1 : k \in S => k + 1 \in S
    PROVE  \A k \in 0 .. n : k \in S
<1> DEFINE rest == (0 .. n) \ S
<1> SUFFICES ASSUME rest # {} PROVE FALSE
  OBVIOUS
<1>1. PICK m \in rest : \A k \in rest : m <= k
  <2>1. rest \in SUBSET Nat
    OBVIOUS
  <2> HIDE DEF rest
  <2> QED
    BY <2>1, Least
<1>2. m \in 1 .. n /\ m - 1 \in 0 .. n - 1 /\ m - 1 \notin rest
  BY <1>1
<1> QED
  BY <1>1, <1>2

LEMMA ListIs ==
    ASSUME NEW s, IsList(s)
    PROVE  Len(s) \in Nat /\ DOMAIN s = 1 .. Len(s) /\ \A i \in 1 .. Len(s) : s[i] \in Range(s)
<1>1. Len(s) \in Nat /\ DOMAIN s = 1 .. Len(s)
  BY DEF IsList
<1> QED
  BY <1>1 DEF Range

LEMMA FunctionIsList ==
    ASSUME NEW s, NEW n \in Nat, s = [i \in 1 .. n |-> s[i]]
    PROVE  IsList(s) /\ Len(s) = n
<1>1. \A i \in 1 .. n : s[i] \in Range(s)
  BY DEF Range
<1>2. s \in [1 .. n -> Range(s)]
  BY <1>1
<1>3. s \in Seq(Range(s))
  BY <1>2
<1> QED
  BY <1>2, <1>3 DEF IsList

LEMMA Joined ==
    ASSUME NEW s, NEW t, IsList(s), IsList(t)
    PROVE  /\ IsList(s \o t) /\ Range(s \o t) = Range(s) \cup Range(t)
           /\ Len(s \o t) = Len(s) + Len(t)
           /\ \A i \in 1 .. Len(s) : (s \o t)[i] = s[i]
           /\ \A i \in 1 .. Len(t) : (s \o t)[Len(s) + i] = t[i]
<1> DEFINE both == Range(s) \cup Range(t)
           u == s \o t
<1>1. Len(s) \in Nat /\ DOMAIN s = 1 .. Len(s) /\ Len(t) \in Nat /\ DOMAIN t = 1 .. Len(t)
  BY ListIs
<1>2. s \in Seq(both) /\ t \in Seq(both)
  <2>1. s \in Seq(Range(s)) /\ t \in Seq(Range(t))
    BY DEF IsList
  <2> QED
    BY <2>1, ListIs
<1> HIDE DEF both
<1>3. /\ u \in Seq(both) /\ Len(u) = Len(s) + Len(t)
      /\ \A i \in 1 .. Len(s) : u[i] = s[i]
      /\ \A i \in 1 .. Len(t) : u[Len(s) + i] = t[i]
  BY <1>1, <1>2
<1> HIDE DEF u
<1>4. Len(u) \in Nat /\ DOMAIN u = 1 .. Len(u) /\ u = [i \in 1 .. Len(u) |-> u[i]]
  BY <1>3
<1>5. IsList(u)
  BY <1>1, <1>3, <1>4, FunctionIsList
<1>6. Range(u) = both
  <2>1. ASSUME NEW x \in Range(s) PROVE x \in Range(u)
    <3>1. PICK i \in 1 .. Len(s) : x = s[i]
      BY <1>1 DEF Range
    <3> QED
      BY <1>1, <1>3, <1>4, <3>1 DEF Range
  <2>2. ASSUME NEW x \in Range(t) PROVE x \in Range(u)
    <3>1. PICK i \in 1 .. Len(t) : x = t[i]
      BY <1>1 DEF Range
    <3>2. Len(s) + i \in 1 .. Len(u)
      BY <1>1, <1>3
    <3> QED
      BY <1>3, <1>4, <3>1, <3>2 DEF Range
  <2>3. ASSUME NEW x \in Range(u) PROVE x \in both
    BY <1>3, <1>4 DEF Range
  <2> QED
    BY <2>1, <2>2, <2>3 DEF both
<1> QED
  BY <1>3, <1>5, <1>6 DEF both, u

\* FlattenSeq joins the lists of a list one after the other.
LEMMA Flattened ==
    ASSUME NEW s, IsList(s), \A i \in DOMAIN s : IsList(s[i])
    PROVE  \E f : /\ f[0] = <<>> /\ \A i \in 1 .. Len(s) : f[i] = f[i - 1] \o s[i]
                  /\ \A i \in 0 .. Len(s) : IsList(f[i])
                  /\ FlattenSeq(s) = f[Len(s)]
<1> DEFINE n == Len(s)
           Eq(g, k) == g = [i \in 1 .. k |-> IF i = 1 THEN s[i] ELSE g[i - 1] \o s[i]]
           P == {k \in 0 .. n : \E g : Eq(g, k)}
           flat == CHOOSE g : Eq(g, n)
           f == [i \in 0 .. n |-> IF i = 0 THEN <<>> ELSE flat[i]]
<1>1. n \in Nat /\ DOMAIN s = 1 .. n /\ (n = 0 => s = <<>>)
  BY ListIs DEF IsList
<1>2. FlattenSeq(s) = IF n = 0 THEN s ELSE flat[n]
  BY DEF FlattenSeq
<1>3. 0 \in P
  <2> DEFINE none == [i \in 1 .. 0 |-> s[i]]
  <2>1. Eq(none, 0)
    OBVIOUS
  <2>2. 0 \in 0 .. n
    BY <1>1
  <2> HIDE DEF none
  <2> QED
    BY <2>1, <2>2
<1>4. ASSUME NEW k \in 0 .. n - 1, k \in P PROVE k + 1 \in P
  <2>1. PICK g : Eq(g, k)
    BY <1>4
  <2> DEFINE h == [i \in 1 .. k + 1 |-> IF i = 1 THEN s[i]
                                        ELSE IF i = k + 1 THEN g[k] \o s[i] ELSE g[i]]
  <2>2. Eq(h, k + 1)
    <3>1. ASSUME NEW i \in 1 .. k + 1, i # 1 PROVE h[i] = h[i - 1] \o s[i]
      <4>1. i - 1 \in 1 .. k /\ (i = k + 1 => i - 1 = k)
        BY <3>1, <1>1
      <4>2. h[i - 1] = g[i - 1]
        BY <4>1, <2>1
      <4>3. CASE i = k + 1
        BY <3>1, <4>1, <4>2, <4>3
      <4>4. CASE i # k + 1
        <5>1. i \in 1 .. k
          BY <4>4, <1>1
        <5> QED
          BY <2>1, <3>1, <4>2, <4>4, <5>1
      <4> QED
        BY <4>3, <4>4
    <3>2. h[1] = s[1]
      BY <1>1
    <3> HIDE DEF h
    <3>3. h = [i \in 1 .. k + 1 |-> h[i]]
      BY DEF h
    <3>4. \A i \in 1 .. k + 1 : h[i] = IF i = 1 THEN s[i] ELSE h[i - 1] \o s[i]
      BY <3>1, <3>2
    <3> QED
      BY <3>3, <3>4
  <2>3. k + 1 \in 0 .. n
    BY <1>1
  <2> HIDE DEF h
  <2> QED
    BY <2>2, <2>3
<1>5. Eq(flat, n)
  <2> HIDE DEF P
  <2>1. n \in P
    <3>1. \A k \in 0 .. n - 1 : k \in P => k + 1 \in P
      BY <1>4
    <3>2. n \in 0 .. n
      BY <1>1
    <3> HIDE DEF n
    <3> QED
      BY <1>1, <1>3, <3>1, <3>2, Upto
  <2> QED
    BY <2>1 DEF P
<1> HIDE DEF flat
<1>6. f[0] = <<>> /\ FlattenSeq(s) = f[n]
  BY <1>1, <1>2
<1>7. ASSUME NEW i \in 1 .. n PROVE f[i] = IF i = 1 THEN s[i] ELSE f[i - 1] \o s[i]
  <2>1. flat[i] = IF i = 1 THEN s[i] ELSE flat[i - 1] \o s[i]
    BY <1>5
  <2>2. i # 1 => i - 1 \in 1 .. n
    BY <1>1
  <2>3. f[i] = flat[i] /\ (i # 1 => f[i - 1] = flat[i - 1])
    BY <1>1, <2>2
  <2> QED
    BY <2>1, <2>3
<1>8. <<>> \o s[1] = s[1] \/ n = 0
  BY <1>1 DEF IsList
<1>9. ASSUME NEW i \in 1 .. n PROVE f[i] = f[i - 1] \o s[i]
  <2> HIDE DEF f
  <2>1. CASE i = 1
    <3>1. f[1] = s[1] /\ f[i - 1] = <<>> /\ n # 0
      BY <1>1, <1>6, <1>7, <2>1
    <3> QED
      BY <1>8, <2>1, <3>1
  <2>2. CASE i # 1
    BY <1>7, <2>2
  <2> QED
    BY <2>1, <2>2
<1> DEFINE Q == {k \in 0 .. n : IsList(f[k])}
<1>10. 0 \in Q
  BY <1>1, <1>6 DEF IsList, Range
<1>11. ASSUME NEW k \in 0 .. n - 1, k \in Q PROVE k + 1 \in Q
  <2> HIDE DEF f
  <2>1. k + 1 \in 1 .. n /\ k + 1 \in 0 .. n /\ (k + 1) - 1 = k
    BY <1>1
  <2>2. f[k + 1] = f[k] \o s[k + 1] /\ IsList(s[k + 1]) /\ IsList(f[k])
    BY <1>1, <1>9, <1>11, <2>1
  <2>3. IsList(f[k + 1])
    BY <2>2, Joined
  <2> QED
    BY <2>1, <2>3
<1>12. \A k \in 0 .. n : IsList(f[k])
  <2> HIDE DEF f
  <2>1. \A k \in 0 .. n - 1 : k \in Q => k + 1 \in Q
    BY <1>11
  <2>2. \A k \in 0 .. n : k \in Q
    <3> HIDE DEF Q, n
    <3> QED
      BY <1>1, <1>10, <2>1, Upto
  <2> QED
    BY <2>2
<1> HIDE DEF f
<1> QED
  BY <1>6, <1>9, <1>12

LEMMA EmptyList == IsList(<<>>) /\ Range(<<>>) = {} /\ Len(<<>>) = 0
  BY DEF IsList, Range

LEMMA OneElement == ASSUME NEW x PROVE IsList(<<x>>) /\ Range(<<x>>) = {x}
  BY DEF IsList, Range

\* What is in a flattened list is what is in the lists.
LEMMA FlattenedRange ==
    ASSUME NEW s, IsList(s), \A i \in DOMAIN s : IsList(s[i])
    PROVE  IsList(FlattenSeq(s)) /\ Range(FlattenSeq(s)) = UNION {Range(s[i]) : i \in DOMAIN s}
<1> DEFINE n == Len(s)
<1>1. n \in Nat /\ DOMAIN s = 1 .. n
  BY ListIs
<1>2. PICK f : /\ f[0] = <<>> /\ \A i \in 1 .. n : f[i] = f[i - 1] \o s[i]
               /\ \A i \in 0 .. n : IsList(f[i])
               /\ FlattenSeq(s) = f[n]
  BY Flattened
<1> HIDE DEF n
<1> DEFINE P == {k \in 0 .. n : \A x : x \in Range(f[k]) <=> \E i \in 1 .. k : x \in Range(s[i])}
<1>3. 0 \in P
  BY <1>1, <1>2, EmptyList
<1>4. ASSUME NEW k \in 0 .. n - 1, k \in P PROVE k + 1 \in P
  <2>1. k \in 0 .. n /\ k + 1 \in 1 .. n /\ k + 1 \in 0 .. n /\ (k + 1) - 1 = k
    BY <1>1
  <2>2. f[k + 1] = f[k] \o s[k + 1] /\ IsList(f[k]) /\ IsList(s[k + 1])
    BY <1>1, <1>2, <2>1
  <2>3. Range(f[k + 1]) = Range(f[k]) \cup Range(s[k + 1])
    BY <2>2, Joined
  <2>4. 1 .. k + 1 = (1 .. k) \cup {k + 1}
    BY <1>1
  <2>5. \A x : (\E i \in 1 .. k + 1 : x \in Range(s[i]))
                 <=> (\E i \in 1 .. k : x \in Range(s[i])) \/ x \in Range(s[k + 1])
    BY <2>4
  <2> QED
    BY <1>4, <2>1, <2>3, <2>5
<1>5. n \in P
  <2> HIDE DEF P
  <2>1. n \in 0 .. n /\ \A k \in 0 .. n - 1 : k \in P => k + 1 \in P
    BY <1>1, <1>4
  <2> QED
    BY <1>1, <1>3, <2>1, Upto
<1>6. n \in 0 .. n
  BY <1>1
<1>7. \A x : x \in Range(f[n]) <=> \E i \in DOMAIN s : x \in Range(s[i])
  BY <1>1, <1>5
<1>8. Range(f[n]) = UNION {Range(s[i]) : i \in DOMAIN s}
  BY <1>7, Zenon
<1> QED
  BY <1>2, <1>6, <1>8

\* Pick keeps the elements at the places given.
LEMMA Picked ==
    ASSUME NEW s, IsList(s), NEW places
    PROVE  /\ IsList(Pick(s, places))
           /\ Range(Pick(s, places)) = {s[i] : i \in {j \in DOMAIN s : j \in places}}
<1> DEFINE parts == [i \in DOMAIN s |-> IF i \in places THEN <<s[i]>> ELSE <<>>]
<1>1. Len(s) \in Nat /\ DOMAIN s = 1 .. Len(s)
  BY ListIs
<1>2. IsList(parts) /\ DOMAIN parts = DOMAIN s
  BY <1>1, FunctionIsList
<1>3. ASSUME NEW i \in DOMAIN s
      PROVE  IsList(parts[i]) /\ Range(parts[i]) = IF i \in places THEN {s[i]} ELSE {}
  BY <1>3, EmptyList, OneElement
<1>4. Pick(s, places) = FlattenSeq(parts)
  BY DEF Pick
<1> HIDE DEF parts
<1>5. IsList(FlattenSeq(parts)) /\ Range(FlattenSeq(parts)) = UNION {Range(parts[i]) : i \in DOMAIN s}
  BY <1>2, <1>3, FlattenedRange
<1>6. UNION {Range(parts[i]) : i \in DOMAIN s} = {s[i] : i \in {j \in DOMAIN s : j \in places}}
  BY <1>3
<1> QED
  BY <1>4, <1>5, <1>6

\* The orders of a finite set are lists of all its elements.
LEMMA Orders ==
    ASSUME NEW S, IsFiniteSet(S)
    PROVE  /\ SetToSeqs(S) # {}
           /\ \A list \in SetToSeqs(S) : IsList(list) /\ Range(list) = S
<1> DEFINE n == Cardinality(S)
<1>1. n \in Nat /\ IsFiniteSet(1 .. n) /\ Cardinality(1 .. n) = n
  BY FS_CardinalityType, FS_Interval
<1>2. \E list : list \in SetToSeqs(S)
  <2>1. PICK f : f \in Bijection(1 .. n, S)
    BY <1>1, FS_CardinalityType DEF ExistsBijection
  <2>2. f \in [1 .. n -> S] /\ \A i, j \in 1 .. n : i # j => f[i] # f[j]
    BY <2>1 DEF Bijection, Injection, IsInjective
  <2> QED
    BY <2>2 DEF SetToSeqs
<1>3. ASSUME NEW list \in SetToSeqs(S) PROVE IsList(list) /\ Range(list) = S
  <2>1. list \in [1 .. n -> S] /\ \A i, j \in 1 .. n : i # j => list[i] # list[j]
    BY <1>3 DEF SetToSeqs
  <2>2. list = [i \in 1 .. n |-> list[i]]
    BY <2>1
  <2>3. IsList(list)
    BY <1>1, <2>2, FunctionIsList
  <2>4. list \in Injection(1 .. n, S)
    BY <2>1 DEF Injection, IsInjective
  <2>5. list \in Surjection(1 .. n, S)
    BY <1>1, <2>4, FS_Injection
  <2>6. Range(list) = S
    BY <2>1, <2>5 DEF Surjection, Range
  <2> QED
    BY <2>3, <2>6
<1> QED
  BY <1>2, <1>3

\* The first and the last of some places of a list.
LEMMA FirstOf ==
    ASSUME NEW S \in SUBSET Nat, S # {} PROVE Min(S) \in S /\ \A y \in S : Min(S) <= y
<1>1. \E x \in S : \A y \in S : x <= y
  BY Least
<1> QED
  BY <1>1 DEF Min

LEMMA LastOf ==
    ASSUME NEW n \in Nat, NEW S \in SUBSET (1 .. n), S # {}
    PROVE  Max(S) \in S /\ \A y \in S : y <= Max(S)
<1> DEFINE gaps == {n - x : x \in S}
<1>1. gaps \in SUBSET Nat /\ gaps # {}
  <2>1. \A x \in S : x \in 1 .. n /\ n - x \in Nat
    OBVIOUS
  <2>2. PICK x : x \in S
    OBVIOUS
  <2>3. n - x \in gaps
    BY <2>2
  <2> QED
    BY <2>1, <2>3
<1>2. PICK g \in gaps : \A h \in gaps : g <= h
  <2> HIDE DEF gaps
  <2> QED
    BY <1>1, Least
<1>3. PICK x \in S : g = n - x
  BY <1>2
<1>4. ASSUME NEW y \in S PROVE x >= y
  <2>1. g <= n - y
    BY <1>2
  <2> QED
    BY <1>3, <2>1
<1>5. \E z \in S : \A y \in S : z >= y
  BY <1>4
<1>6. Max(S) \in S /\ \A y \in S : Max(S) >= y
  BY <1>5 DEF Max
<1> QED
  BY <1>6

\* A list of numbers that is not empty has a greatest one.
LEMMA Greatest ==
    ASSUME NEW n \in Nat, n # 0, NEW v, \A i \in 1 .. n : v[i] \in Nat
    PROVE  \E i \in 1 .. n : \A k \in 1 .. n : v[k] <= v[i]
<1> DEFINE P == {m \in 0 .. n : m # 0 => \E i \in 1 .. m : \A k \in 1 .. m : v[k] <= v[i]}
<1>1. 0 \in P
  OBVIOUS
<1>2. ASSUME NEW m \in 0 .. n - 1, m \in P PROVE m + 1 \in P
  <2>1. m + 1 \in 0 .. n /\ m + 1 \in 1 .. m + 1 /\ m + 1 \in 1 .. n
    OBVIOUS
  <2>2. CASE m = 0
    <3>1. 1 .. m + 1 = {1} /\ v[1] <= v[1]
      BY <2>1, <2>2
    <3> QED
      BY <2>1, <3>1
  <2>3. CASE m # 0
    <3>1. PICK i \in 1 .. m : \A k \in 1 .. m : v[k] <= v[i]
      BY <1>2, <2>3
    <3>2. v[i] \in Nat /\ v[m + 1] \in Nat /\ i \in 1 .. m + 1 /\ \A k \in 1 .. m : v[k] \in Nat
      BY <2>1
    <3>3. \A k \in 1 .. m + 1 : k \in 1 .. m \/ k = m + 1
      OBVIOUS
    <3>4. CASE v[m + 1] <= v[i]
      BY <2>1, <3>1, <3>2, <3>3, <3>4
    <3>5. CASE v[i] <= v[m + 1]
      <4>1. \A k \in 1 .. m : v[k] <= v[m + 1]
        BY <3>1, <3>2, <3>5
      <4> QED
        BY <2>1, <3>2, <3>3, <4>1
    <3> QED
      BY <3>2, <3>4, <3>5
  <2> QED
    BY <2>2, <2>3
<1>3. n \in P
  <2> HIDE DEF P
  <2>1. n \in 0 .. n /\ \A k \in 0 .. n - 1 : k \in P => k + 1 \in P
    BY <1>2
  <2> QED
    BY <1>1, <2>1, Upto
<1> QED
  BY <1>3

\* A list has finitely many elements.
LEMMA FiniteRange ==
    ASSUME NEW s, IsList(s) PROVE IsFiniteSet(Range(s))
<1>1. Len(s) \in Nat /\ DOMAIN s = 1 .. Len(s)
  BY ListIs
<1>2. IsFiniteSet(1 .. Len(s))
  BY <1>1, FS_Interval
<1>3. s \in Surjection(1 .. Len(s), Range(s))
  <2>1. s \in [1 .. Len(s) -> Range(s)]
    BY <1>1 DEF IsList
  <2> QED
    BY <1>1, <2>1 DEF Surjection, Range
<1> QED
  BY <1>2, <1>3, FS_Surjection

\* No two places of a list hold the same.
Once(s) == \A i, j \in DOMAIN s : s[i] = s[j] => i = j

\* Distinct keeps one copy of each element.
LEMMA DistinctElements ==
    ASSUME NEW s, IsList(s)
    PROVE  IsList(Distinct(s)) /\ Range(Distinct(s)) = Range(s) /\ Once(Distinct(s))
<1> DEFINE firsts == {i \in DOMAIN s : \A j \in 1 .. i - 1 : s[j] # s[i]}
           parts == [i \in DOMAIN s |-> IF i \in firsts THEN <<s[i]>> ELSE <<>>]
           n == Len(s)
<1>1. n \in Nat /\ DOMAIN s = 1 .. n
  BY ListIs
<1>2. IsList(parts) /\ DOMAIN parts = DOMAIN s /\ Len(parts) = n
  <2> HIDE DEF firsts
  <2> QED
    BY <1>1, FunctionIsList
<1>3. ASSUME NEW i \in DOMAIN s
      PROVE  IsList(parts[i]) /\ parts[i] = IF i \in firsts THEN <<s[i]>> ELSE <<>>
  <2> HIDE DEF firsts
  <2> QED
    BY <1>3, EmptyList, OneElement
<1>4. Distinct(s) = FlattenSeq(parts)
  BY DEF Pick, Distinct
<1> HIDE DEF parts
<1>5. PICK f : /\ f[0] = <<>> /\ \A i \in 1 .. n : f[i] = f[i - 1] \o parts[i]
               /\ \A i \in 0 .. n : IsList(f[i])
               /\ FlattenSeq(parts) = f[n]
  BY <1>2, <1>3, Flattened
<1> DEFINE P == {k \in 0 .. n : Range(f[k]) = {s[i] : i \in 1 .. k} /\ Once(f[k])}
<1> HIDE DEF n
<1>6. 0 \in P
  BY <1>1, <1>5, EmptyList DEF Once
<1>7. ASSUME NEW k \in 0 .. n - 1, k \in P PROVE k + 1 \in P
  <2>1. k \in 0 .. n /\ k + 1 \in 1 .. n /\ k + 1 \in 0 .. n /\ (k + 1) - 1 = k /\ k \in Nat
    BY <1>1
  <2>2. 1 .. k + 1 = (1 .. k) \cup {k + 1}
    BY <2>1
  <2>3. f[k + 1] = f[k] \o parts[k + 1] /\ IsList(f[k]) /\ IsList(f[k + 1])
    BY <1>5, <2>1
  <2>4. k + 1 \in firsts <=> s[k + 1] \notin {s[i] : i \in 1 .. k}
    BY <1>1, <2>1
  <2>5. Range(f[k]) = {s[i] : i \in 1 .. k} /\ Once(f[k])
    BY <1>7
  <2>6. {s[i] : i \in 1 .. k + 1} = {s[i] : i \in 1 .. k} \cup {s[k + 1]}
    BY <2>2
  <2> HIDE DEF firsts
  <2>7. CASE k + 1 \in firsts
    <3>1. parts[k + 1] = <<s[k + 1]>>
      BY <1>1, <1>3, <2>1, <2>7
    <3> DEFINE u == f[k]
               x == s[k + 1]
    <3>2. f[k + 1] = u \o <<x>> /\ IsList(u) /\ Once(u) /\ x \notin Range(u)
      BY <2>3, <2>4, <2>5, <2>7, <3>1
    <3> HIDE DEF u, x
    <3>3. /\ Range(u \o <<x>>) = Range(u) \cup {x}
          /\ IsList(u \o <<x>>) /\ Len(u \o <<x>>) = Len(u) + 1
          /\ \A i \in 1 .. Len(u) : (u \o <<x>>)[i] = u[i]
          /\ (u \o <<x>>)[Len(u) + 1] = x
      <4>1. IsList(<<x>>) /\ Range(<<x>>) = {x} /\ Len(<<x>>) = 1 /\ 1 \in 1 .. 1 /\ <<x>>[1] = x
        BY OneElement
      <4> DEFINE t == <<x>>
      <4>2. IsList(t) /\ Range(t) = {x} /\ Len(t) = 1 /\ 1 \in 1 .. 1 /\ t[1] = x
        BY <4>1
      <4> HIDE DEF t
      <4>3. /\ IsList(u \o t) /\ Range(u \o t) = Range(u) \cup Range(t)
            /\ Len(u \o t) = Len(u) + Len(t)
            /\ \A i \in 1 .. Len(u) : (u \o t)[i] = u[i]
            /\ \A i \in 1 .. Len(t) : (u \o t)[Len(u) + i] = t[i]
        BY <3>2, <4>2, Joined
      <4>4. /\ Range(u \o t) = Range(u) \cup {x}
            /\ IsList(u \o t) /\ Len(u \o t) = Len(u) + 1
            /\ \A i \in 1 .. Len(u) : (u \o t)[i] = u[i]
            /\ (u \o t)[Len(u) + 1] = x
        BY <4>2, <4>3
      <4> QED
        BY <4>4 DEF t
    <3> DEFINE w == u \o <<x>>
    <3>4. /\ Len(u) \in Nat /\ DOMAIN u = 1 .. Len(u) /\ DOMAIN w = 1 .. Len(u) + 1
          /\ \A i \in 1 .. Len(u) : w[i] = u[i] /\ u[i] \in Range(u)
          /\ w[Len(u) + 1] = x
      BY <3>2, <3>3, ListIs
    <3> HIDE DEF w
    <3>5. Once(w)
      <4> SUFFICES ASSUME NEW i \in DOMAIN w, NEW j \in DOMAIN w, w[i] = w[j] PROVE i = j
        BY DEF Once
      <4>1. (i \in 1 .. Len(u) \/ i = Len(u) + 1) /\ (j \in 1 .. Len(u) \/ j = Len(u) + 1)
        BY <3>4
      <4> QED
        BY <3>2, <3>4, <4>1 DEF Once
    <3>6. Range(f[k + 1]) = {s[i] : i \in 1 .. k + 1}
      BY <2>5, <2>6, <3>2, <3>3 DEF u, x
    <3>7. Once(f[k + 1])
      BY <3>2, <3>5 DEF w
    <3> QED
      BY <2>1, <3>6, <3>7
  <2>8. CASE k + 1 \notin firsts
    <3>1. parts[k + 1] = <<>>
      BY <1>1, <1>3, <2>1, <2>8
    <3>2. f[k + 1] = f[k]
      BY <2>3, <3>1 DEF IsList
    <3>3. {s[i] : i \in 1 .. k + 1} = {s[i] : i \in 1 .. k}
      BY <2>4, <2>6, <2>8
    <3> QED
      BY <2>1, <2>5, <3>2, <3>3
  <2> QED
    BY <2>7, <2>8
<1>8. n \in P
  <2> HIDE DEF P
  <2>1. n \in 0 .. n /\ \A k \in 0 .. n - 1 : k \in P => k + 1 \in P
    BY <1>1, <1>7
  <2> QED
    BY <1>1, <1>6, <2>1, Upto
<1>9. Range(f[n]) = Range(s) /\ Once(f[n]) /\ IsList(f[n])
  <2>1. Range(f[n]) = {s[i] : i \in 1 .. n} /\ Once(f[n])
    BY <1>8
  <2>2. Range(s) = {s[i] : i \in 1 .. n}
    BY <1>1 DEF Range
  <2>3. n \in 0 .. n
    BY <1>1
  <2> QED
    BY <1>5, <2>1, <2>2, <2>3
<1> QED
  BY <1>4, <1>5, <1>9

\* A relation that tells all elements of a set apart, and a list in its order.
TellsApart(before, S) == \A x, y \in S : x # y => <<x, y>> \in before \/ <<y, x>> \in before

InOrder(before, s, n) == \A i, j \in 1 .. n : <<s[i], s[j]>> \in before => i < j

\* Two lists of the same elements that are sorted by an order that tells all of them
\* apart are the same.
LEMMA SortedAlike ==
    ASSUME NEW n \in Nat, NEW s, NEW t, DOMAIN s = 1 .. n, DOMAIN t = 1 .. n,
           Once(s), Once(t), Range(s) = Range(t), NEW before, TellsApart(before, Range(s)),
           InOrder(before, s, n), InOrder(before, t, n)
    PROVE  \A k \in 1 .. n : s[k] = t[k]
<1> DEFINE differ == {k \in 1 .. n : s[k] # t[k]}
<1> SUFFICES ASSUME differ # {} PROVE FALSE
  OBVIOUS
<1>1. PICK k \in differ : \A i \in differ : k <= i
  <2>1. differ \in SUBSET Nat
    OBVIOUS
  <2> HIDE DEF differ
  <2> QED
    BY <2>1, Least
<1>2. k \in 1 .. n /\ s[k] # t[k] /\ \A i \in 1 .. n : i < k => s[i] = t[i]
  BY <1>1
<1>3. s[k] \in Range(s) /\ t[k] \in Range(s)
  BY <1>2 DEF Range
<1>4. PICK j \in 1 .. n : t[k] = s[j]
  BY <1>3 DEF Range
<1>5. PICK l \in 1 .. n : s[k] = t[l]
  BY <1>3 DEF Range
<1>6. ~(j < k) /\ ~(l < k)
  <2>1. ASSUME j < k PROVE FALSE
    <3>1. t[k] = t[j]
      BY <1>2, <1>4, <2>1
    <3>2. k = j
      BY <1>2, <3>1 DEF Once
    <3> QED
      BY <1>2, <2>1, <3>2
  <2>2. ASSUME l < k PROVE FALSE
    <3>1. s[k] = s[l]
      BY <1>2, <1>5, <2>2
    <3>2. k = l
      BY <1>2, <3>1 DEF Once
    <3> QED
      BY <1>2, <2>2, <3>2
  <2> QED
    BY <2>1, <2>2
<1>7. <<s[j], s[k]>> \notin before /\ <<t[l], t[k]>> \notin before
  BY <1>2, <1>6 DEF InOrder
<1> QED
  BY <1>2, <1>3, <1>4, <1>5, <1>7 DEF TellsApart

\* A list of different elements can be sorted by any order of them.
LEMMA CanBeSorted ==
    ASSUME NEW a, IsList(a), Once(a), NEW before,
           \A x \in Range(a) : <<x, x>> \notin before,
           TellsApart(before, Range(a)),
           \A x, y, z \in Range(a) :
               <<x, y>> \in before /\ <<y, z>> \in before => <<x, z>> \in before
    PROVE  \E p \in SetToSeqs(DOMAIN a) :
               \A i, j \in DOMAIN a : <<a[p[i]], a[p[j]]>> \in before => i < j
<1> DEFINE n == Len(a)
           below(i) == {j \in 1 .. n : <<a[j], a[i]>> \in before}
           rank == [i \in 1 .. n |-> Cardinality(below(i)) + 1]
<1>1. n \in Nat /\ DOMAIN a = 1 .. n /\ \A i \in 1 .. n : a[i] \in Range(a)
  BY ListIs
<1> HIDE DEF n
<1>2. IsFiniteSet(1 .. n) /\ Cardinality(1 .. n) = n
  BY <1>1, FS_Interval
<1>3. ASSUME NEW i \in 1 .. n
      PROVE  IsFiniteSet(below(i)) /\ Cardinality(below(i)) \in Nat /\ Cardinality(below(i)) < n
  <2>1. i \notin below(i) /\ below(i) \in SUBSET (1 .. n)
    BY <1>1
  <2> HIDE DEF below
  <2>2. IsFiniteSet(below(i)) /\ Cardinality(below(i)) <= n /\ below(i) # 1 .. n
    <3>1. below(i) # 1 .. n
      BY <1>3, <2>1, Zenon
    <3>2. IsFiniteSet(below(i)) /\ Cardinality(below(i)) <= Cardinality(1 .. n)
      BY <1>2, <2>1, FS_Subset
    <3> QED
      BY <1>2, <3>1, <3>2
  <2>3. Cardinality(below(i)) \in Nat
    BY <2>2, FS_CardinalityType
  <2>4. Cardinality(below(i)) # n
    BY <1>2, <2>1, <2>2, FS_Subset
  <2> QED
    BY <1>1, <2>2, <2>3, <2>4
<1>4. rank \in [1 .. n -> 1 .. n]
  <2> HIDE DEF below
  <2>1. \A i \in 1 .. n : Cardinality(below(i)) + 1 \in 1 .. n
    BY <1>1, <1>3
  <2> QED
    BY <2>1
<1>5. ASSUME NEW i \in 1 .. n, NEW j \in 1 .. n, <<a[i], a[j]>> \in before
      PROVE  rank[i] < rank[j]
  <2>1. below(i) \in SUBSET below(j)
    BY <1>1, <1>5
  <2>2. i \in below(j) /\ i \notin below(i)
    BY <1>1, <1>5
  <2> HIDE DEF below
  <2>3. /\ Cardinality(below(i)) <= Cardinality(below(j))
        /\ Cardinality(below(i)) # Cardinality(below(j))
    BY <1>3, <2>1, <2>2, FS_Subset
  <2> QED
    BY <1>3, <2>3
<1> HIDE DEF rank
<1>6. ASSUME NEW i \in 1 .. n, NEW j \in 1 .. n, i # j PROVE rank[i] # rank[j]
  <2>1. a[i] # a[j]
    BY <1>1, <1>6 DEF Once
  <2>2. <<a[i], a[j]>> \in before \/ <<a[j], a[i]>> \in before
    BY <1>1, <2>1 DEF TellsApart
  <2>3. rank[i] < rank[j] \/ rank[j] < rank[i]
    BY <1>5, <2>2
  <2> QED
    BY <1>4, <2>3
<1>7. \A k \in 1 .. n : \E i \in 1 .. n : rank[i] = k
  <2>1. rank \in Injection(1 .. n, 1 .. n)
    BY <1>4, <1>6 DEF Injection, IsInjective
  <2>2. rank \in Surjection(1 .. n, 1 .. n)
    BY <1>2, <2>1, FS_Injection
  <2> QED
    BY <2>2 DEF Surjection
<1> DEFINE p == [k \in 1 .. n |-> CHOOSE i \in 1 .. n : rank[i] = k]
<1>8. \A k \in 1 .. n : p[k] \in 1 .. n /\ rank[p[k]] = k
  BY <1>7
<1>9. p \in [1 .. n -> 1 .. n]
  BY <1>8
<1> HIDE DEF p
<1>10. p \in SetToSeqs(1 .. n)
  <2>1. \A i, j \in 1 .. n : i # j => p[i] # p[j]
    BY <1>8
  <2> QED
    BY <1>2, <1>9, <2>1 DEF SetToSeqs
<1>11. ASSUME NEW i \in 1 .. n, NEW j \in 1 .. n, <<a[p[i]], a[p[j]]>> \in before PROVE i < j
  BY <1>5, <1>8, <1>11
<1> QED
  BY <1>1, <1>10, <1>11

---------------------------------------------------------------------------
(* Resolution. *)

OffersOf(objects) == UNION {Range(o.offers) : o \in Range(objects)}

AreSources(sources) ==
    /\ AreObjects(sources.buildpacks) /\ AreObjects(sources.clusterBuildpacks)
    /\ AreObjects(sources.store)

\* The entries that Matching makes of the offers with an id.
Hits(id, offers, source) ==
    {[ok |-> TRUE, offer |-> o, source |-> source] : o \in {p \in offers : p.id = id}}

LEMMA OffersAre ==
    ASSUME NEW sources
    PROVE  Offers(sources) = OffersOf(sources.buildpacks) \cup OffersOf(sources.clusterBuildpacks)
                               \cup OffersOf(sources.store)
  BY DEF Offers, OffersOf

LEMMA MatchingIs ==
    ASSUME NEW objects, AreObjects(objects), NEW id, NEW source
    PROVE  /\ IsList(Matching(id, objects, source))
           /\ Range(Matching(id, objects, source)) = Hits(id, OffersOf(objects), source)
<1> DEFINE n == Len(objects)
           offers(k) == objects[k].offers
           places(k) == {j \in DOMAIN offers(k) : offers(k)[j].id = id}
           mine(k) == Pick(offers(k), places(k))
           hit(o) == [ok |-> TRUE, offer |-> o, source |-> source]
           part(k) == [j \in 1 .. Len(mine(k)) |-> hit(mine(k)[j])]
           parts == [k \in 1 .. n |-> part(k)]
<1>1. n \in Nat /\ DOMAIN objects = 1 .. n /\ IsList(objects)
  BY ListIs DEF AreObjects
<1>2. Matching(id, objects, source) = FlattenSeq(parts)
  BY DEF Matching
<1>3. ASSUME NEW k \in 1 .. n
      PROVE  IsList(part(k)) /\ Range(part(k)) = Hits(id, Range(offers(k)), source)
  <2>1. IsList(offers(k))
    BY <1>1, ListIs DEF AreObjects, AreOffers
  <2>2. IsList(mine(k)) /\ Range(mine(k)) = {offers(k)[j] : j \in {i \in DOMAIN offers(k) : i \in places(k)}}
    <3> HIDE DEF places, offers
    <3> QED
      BY <2>1, Picked
  <2>3. Range(mine(k)) = {p \in Range(offers(k)) : p.id = id}
    BY <2>2 DEF Range
  <2> HIDE DEF mine
  <2>4. Len(mine(k)) \in Nat /\ DOMAIN mine(k) = 1 .. Len(mine(k))
    BY <2>2, ListIs
  <2>5. IsList(part(k)) /\ DOMAIN part(k) = 1 .. Len(mine(k))
    <3> HIDE DEF hit
    <3> QED
      BY <2>4, FunctionIsList
  <2>6. Range(part(k)) = {hit(o) : o \in Range(mine(k))}
    <3> HIDE DEF hit
    <3> QED
      BY <2>4 DEF Range
  <2>7. {hit(o) : o \in Range(mine(k))} = Hits(id, Range(offers(k)), source)
    BY <2>3 DEF Hits
  <2> QED
    BY <2>5, <2>6, <2>7
<1> HIDE DEF part
<1>4. IsList(parts) /\ DOMAIN parts = 1 .. n
  BY <1>1, FunctionIsList
<1>5. \A k \in 1 .. n : parts[k] = part(k)
  OBVIOUS
<1> HIDE DEF parts
<1>6. /\ IsList(FlattenSeq(parts))
      /\ Range(FlattenSeq(parts)) = UNION {Range(parts[i]) : i \in DOMAIN parts}
  BY <1>3, <1>4, <1>5, FlattenedRange
<1>7. UNION {Range(parts[i]) : i \in DOMAIN parts} = UNION {Hits(id, Range(offers(k)), source) : k \in 1 .. n}
  BY <1>3, <1>4, <1>5
<1>8. UNION {Hits(id, Range(offers(k)), source) : k \in 1 .. n} = Hits(id, OffersOf(objects), source)
  <2>1. OffersOf(objects) = UNION {Range(offers(k)) : k \in 1 .. n}
    BY <1>1 DEF OffersOf, Range
  <2> QED
    BY <2>1 DEF Hits
<1> QED
  BY <1>2, <1>6, <1>7, <1>8

\* The object of a name.
LEMMA NamedIs ==
    ASSUME NEW objects, IsList(objects), NEW name
    PROVE  \/ Named(objects, name) = <<>> /\ \A x \in Range(objects) : x.name # name
           \/ \E x \in Range(objects) : x.name = name /\ Named(objects, name) = <<x>>
<1> DEFINE n == Len(objects)
           places == {i \in 1 .. n : objects[i].name = name}
<1>1. n \in Nat /\ DOMAIN objects = 1 .. n /\ \A i \in 1 .. n : objects[i] \in Range(objects)
  BY ListIs
<1>2. Named(objects, name) = IF places # {} THEN IF Min(places) = 0 THEN <<>> ELSE <<objects[Min(places)]>>
                             ELSE <<>>
  BY DEF Named, SelectInSeq
<1>3. CASE places = {}
  BY <1>1, <1>2, <1>3 DEF Range
<1>4. CASE places # {}
  <2>1. Min(places) \in places
    <3>1. places \in SUBSET Nat
      BY <1>1
    <3> HIDE DEF places
    <3> QED
      BY <1>4, <3>1, FirstOf
  <2>2. Named(objects, name) = <<objects[Min(places)]>> /\ objects[Min(places)].name = name
    <3> DEFINE m == Min(places)
    <3>1. m \in 1 .. n /\ objects[m].name = name
      BY <2>1
    <3>2. m # 0
      BY <1>1, <3>1
    <3> HIDE DEF places, m
    <3>3. Named(objects, name) = IF places # {} THEN IF m = 0 THEN <<>> ELSE <<objects[m]>> ELSE <<>>
      BY <1>2 DEF m
    <3> QED
      BY <1>4, <3>1, <3>2, <3>3 DEF m
  <2>3. objects[Min(places)] \in Range(objects)
    BY <1>1, <2>1
  <2> QED
    BY <2>2, <2>3
<1> QED
  BY <1>3, <1>4

\* Of lists of the same objects, the same object has the name.
LEMMA NamedAlike ==
    ASSUME NEW a, NEW b, IsList(a), IsList(b), Range(a) = Range(b), NamesDiffer(a), NEW name
    PROVE  Named(a, name) = Named(b, name)
<1>1. \A x, y \in Range(a) : x.name = y.name => x = y
  BY DEF NamesDiffer, Range
<1>2. \/ Named(a, name) = <<>> /\ \A x \in Range(a) : x.name # name
      \/ \E x \in Range(a) : x.name = name /\ Named(a, name) = <<x>>
  BY NamedIs
<1>3. \/ Named(b, name) = <<>> /\ \A x \in Range(a) : x.name # name
      \/ \E x \in Range(a) : x.name = name /\ Named(b, name) = <<x>>
  BY NamedIs
<1> QED
  BY <1>1, <1>2, <1>3

\* What resolveFromObjectReference finds is an offer of the object.
LEMMA RootIs ==
    ASSUME NEW x, AreOffers(x.offers), NEW source
    PROVE  \/ resolveFromObjectReference(<<x>>, source) = Error
           \/ \E o \in Range(x.offers) :
                 resolveFromObjectReference(<<x>>, source) = [ok |-> TRUE, offer |-> o, source |-> source]
<1> DEFINE offers == x.offers
           roots == Roots(offers)
           places == {i \in 1 .. Len(offers) : offers[i].id = roots[1].id}
           at == IF places # {} THEN Max(places) ELSE 0
<1>1. resolveFromObjectReference(<<x>>, source) =
        IF Len(roots) # 1 THEN Error ELSE [ok |-> TRUE, source |-> source, offer |-> offers[at]]
  BY DEF resolveFromObjectReference, SelectLastInSeq
<1>2. IsList(offers) /\ Len(offers) \in Nat /\ DOMAIN offers = 1 .. Len(offers)
  BY ListIs DEF AreOffers
<1>3. IsList(roots) /\ Range(roots) \subseteq Range(offers)
  <2> DEFINE used == UNION {{child.id : child \in Range(o.order)} : o \in Range(offers)}
             kept == {k \in DOMAIN offers : offers[k].id \notin used}
  <2>1. roots = Pick(offers, kept)
    BY DEF Roots
  <2> HIDE DEF kept, roots, offers
  <2>2. IsList(roots) /\ Range(roots) = {offers[i] : i \in {j \in DOMAIN offers : j \in kept}}
    BY <1>2, <2>1, Picked
  <2> QED
    BY <2>2 DEF Range
<1>4. CASE Len(roots) = 1
  <2> HIDE DEF roots, offers
  <2>1. roots[1] \in Range(offers)
    BY <1>3, <1>4, ListIs
  <2>2. places # {}
    BY <1>2, <2>1 DEF Range
  <2>3. Max(places) \in places
    <3>1. places \in SUBSET (1 .. Len(offers))
      OBVIOUS
    <3> HIDE DEF places
    <3> QED
      BY <1>2, <2>2, <3>1, LastOf
  <2>4. offers[at] \in Range(offers)
    BY <1>2, <2>2, <2>3, ListIs
  <2> HIDE DEF places, at
  <2>5. resolveFromObjectReference(<<x>>, source) = [ok |-> TRUE, offer |-> offers[at], source |-> source]
    BY <1>1, <1>4
  <2> QED
    BY <2>4, <2>5 DEF offers
<1> QED
  BY <1>1, <1>4

\* An entry for a reference: an offer of a source, with the id of the reference.
IsHit(m, sources, ref) ==
    /\ m.ok = TRUE /\ m.offer \in Offers(sources)
    /\ ref.id # 0 => m.offer.id = ref.id

LEMMA OffersTyped ==
    ASSUME NEW sources, AreSources(sources), NEW o \in Offers(sources)
    PROVE  /\ o.id \in Nat /\ o.version \in Nat /\ o.size \in Nat /\ o.image \in Nat
           /\ IsList(o.order) /\ IsList(o.stacks)
           /\ \A s \in Range(o.stacks) : \A x \in s.mixins : DOMAIN x = {"name", "stage"}
<1>1. \A objects : AreObjects(objects) /\ o \in OffersOf(objects) =>
        /\ {o.id, o.version, o.size, o.image} \subseteq Nat
        /\ IsList(o.order) /\ IsList(o.stacks)
        /\ \A s \in Range(o.stacks) : \A x \in s.mixins : DOMAIN x = {"name", "stage"}
  BY DEF AreObjects, AreOffers, OffersOf
<1>2. \/ o \in OffersOf(sources.buildpacks) \/ o \in OffersOf(sources.clusterBuildpacks)
      \/ o \in OffersOf(sources.store)
  BY OffersAre
<1>3. /\ {o.id, o.version, o.size, o.image} \subseteq Nat
      /\ IsList(o.order) /\ IsList(o.stacks)
      /\ \A s \in Range(o.stacks) : \A x \in s.mixins : DOMAIN x = {"name", "stage"}
  BY <1>1, <1>2 DEF AreSources
<1> QED
  BY <1>3

LEMMA HitsAre ==
    ASSUME NEW sources, NEW ref, NEW offers, offers \subseteq Offers(sources), NEW source
    PROVE  \A m \in Hits(ref.id, offers, source) : IsHit(m, sources, ref)
  BY DEF Hits, IsHit

\* The candidates that a named object has.
LEMMA NamedObjects ==
    ASSUME NEW objects, AreObjects(objects), NEW name
    PROVE  /\ AreObjects(Named(objects, name))
           /\ OffersOf(Named(objects, name)) \subseteq OffersOf(objects)
<1>1. IsList(objects)
  BY DEF AreObjects
<1>2. CASE Named(objects, name) = <<>>
  BY <1>2, EmptyList DEF AreObjects, OffersOf
<1>3. ASSUME NEW x \in Range(objects), Named(objects, name) = <<x>>
      PROVE  /\ AreObjects(Named(objects, name))
             /\ OffersOf(Named(objects, name)) \subseteq OffersOf(objects)
  <2>1. IsList(<<x>>) /\ Range(<<x>>) = {x}
    BY OneElement
  <2> DEFINE one == <<x>>
  <2>2. IsList(one) /\ Range(one) = {x} /\ Named(objects, name) = one
    BY <1>3, <2>1
  <2> HIDE DEF one
  <2>3. AreObjects(one) /\ OffersOf(one) \subseteq OffersOf(objects)
    BY <2>2 DEF AreObjects, OffersOf
  <2> QED
    BY <2>2, <2>3
<1> QED
  BY <1>1, <1>2, <1>3, NamedIs

LEMMA CandidatesOfId ==
    ASSUME NEW sources, NEW ref, NEW objects, AreObjects(objects), NEW name, NEW source,
           OffersOf(objects) \subseteq Offers(sources)
    PROVE  /\ IsList(Matching(ref.id, Named(objects, name), source))
           /\ \A m \in Range(Matching(ref.id, Named(objects, name), source)) : IsHit(m, sources, ref)
<1> DEFINE mine == Named(objects, name)
<1>1. AreObjects(mine) /\ OffersOf(mine) \subseteq Offers(sources)
  BY NamedObjects
<1> HIDE DEF mine
<1>2. /\ IsList(Matching(ref.id, mine, source))
      /\ Range(Matching(ref.id, mine, source)) = Hits(ref.id, OffersOf(mine), source)
  BY <1>1, MatchingIs
<1>3. \A m \in Range(Matching(ref.id, mine, source)) : IsHit(m, sources, ref)
  BY <1>1, <1>2, HitsAre
<1> QED
  BY <1>2, <1>3 DEF mine

LEMMA CandidatesOfObject ==
    ASSUME NEW sources, NEW ref, ref.id = 0, NEW objects, AreObjects(objects), NEW name, NEW source,
           OffersOf(objects) \subseteq Offers(sources)
    PROVE  LET m == resolveFromObjectReference(Named(objects, name), source)
           IN  m = Error \/ IsHit(m, sources, ref)
<1>1. IsList(objects)
  BY DEF AreObjects
<1>2. CASE Named(objects, name) = <<>>
  BY <1>2 DEF resolveFromObjectReference
<1>3. ASSUME NEW x \in Range(objects), Named(objects, name) = <<x>>
      PROVE  LET m == resolveFromObjectReference(Named(objects, name), source)
             IN  m = Error \/ IsHit(m, sources, ref)
  <2>1. AreOffers(x.offers) /\ Range(x.offers) \subseteq Offers(sources)
    BY DEF AreObjects, OffersOf
  <2>2. \/ resolveFromObjectReference(<<x>>, source) = Error
        \/ \E o \in Range(x.offers) :
              resolveFromObjectReference(<<x>>, source) = [ok |-> TRUE, offer |-> o, source |-> source]
    BY <2>1, RootIs
  <2>3. ASSUME NEW o \in Range(x.offers),
               resolveFromObjectReference(<<x>>, source) = [ok |-> TRUE, offer |-> o, source |-> source]
        PROVE  IsHit(resolveFromObjectReference(<<x>>, source), sources, ref)
    BY <2>1, <2>3 DEF IsHit
  <2> QED
    BY <1>3, <2>2, <2>3
<1> QED
  BY <1>1, <1>2, <1>3, NamedIs

\* The candidates of an id alone.
LEMMA CandidatesById ==
    ASSUME NEW sources, AreSources(sources), NEW ref, ref.kind = "", ref.id # 0
    PROVE  /\ IsList(Candidates(sources, ref))
           /\ \A m \in Range(Candidates(sources, ref)) : IsHit(m, sources, ref)
           /\ Range(Candidates(sources, ref)) =
                Hits(ref.id, OffersOf(sources.buildpacks), 1)
                  \cup Hits(ref.id, OffersOf(sources.clusterBuildpacks), 2)
                  \cup Hits(ref.id, OffersOf(sources.store), 3)
<1> DEFINE all == Candidates(sources, ref)
<1>1. /\ AreObjects(sources.buildpacks) /\ OffersOf(sources.buildpacks) \subseteq Offers(sources)
      /\ AreObjects(sources.clusterBuildpacks) /\ OffersOf(sources.clusterBuildpacks) \subseteq Offers(sources)
      /\ AreObjects(sources.store) /\ OffersOf(sources.store) \subseteq Offers(sources)
  BY OffersAre DEF AreSources
<1> DEFINE a == Matching(ref.id, sources.buildpacks, 1)
           b == Matching(ref.id, sources.clusterBuildpacks, 2)
           c == Matching(ref.id, sources.store, 3)
<1>2. all = a \o b \o c
  BY DEF Candidates, resolveFromBuildpack, resolveFromClusterBuildpack, resolveFromClusterStore
<1>3. /\ IsList(a) /\ Range(a) = Hits(ref.id, OffersOf(sources.buildpacks), 1)
      /\ IsList(b) /\ Range(b) = Hits(ref.id, OffersOf(sources.clusterBuildpacks), 2)
      /\ IsList(c) /\ Range(c) = Hits(ref.id, OffersOf(sources.store), 3)
  BY <1>1, MatchingIs
<1> HIDE DEF a, b, c, all
<1>4. IsList(a \o b) /\ Range(a \o b) = Range(a) \cup Range(b)
  BY <1>3, Joined
<1>5. IsList(all) /\ Range(all) = Range(a) \cup Range(b) \cup Range(c)
  <2> DEFINE ab == a \o b
  <2>1. all = ab \o c /\ IsList(ab) /\ Range(ab) = Range(a) \cup Range(b)
    BY <1>2, <1>4
  <2> HIDE DEF ab
  <2>2. IsList(ab \o c) /\ Range(ab \o c) = Range(ab) \cup Range(c)
    BY <1>3, <2>1, Joined
  <2> QED
    BY <2>1, <2>2
<1>6. \A m \in Range(all) : IsHit(m, sources, ref)
  BY <1>1, <1>3, <1>5, HitsAre
<1> QED
  BY <1>3, <1>5, <1>6 DEF all

\* The candidates are one error, or all hits.
LEMMA CandidatesAre ==
    ASSUME NEW sources, AreSources(sources), NEW ref
    PROVE  /\ IsList(Candidates(sources, ref))
           /\ \/ Candidates(sources, ref) = <<Error>>
              \/ \A m \in Range(Candidates(sources, ref)) : IsHit(m, sources, ref)
<1> DEFINE all == Candidates(sources, ref)
           Good(list) == IsList(list) /\ (list = <<Error>> \/ \A m \in Range(list) : IsHit(m, sources, ref))
<1>1. /\ AreObjects(sources.buildpacks) /\ OffersOf(sources.buildpacks) \subseteq Offers(sources)
      /\ AreObjects(sources.clusterBuildpacks) /\ OffersOf(sources.clusterBuildpacks) \subseteq Offers(sources)
      /\ AreObjects(sources.store) /\ OffersOf(sources.store) \subseteq Offers(sources)
  BY OffersAre DEF AreSources
<1>2. CASE ref.kind = "Buildpack" /\ ref.id # 0
  <2>1. all = Matching(ref.id, Named(sources.buildpacks, ref.name), 1)
    BY <1>2 DEF Candidates, resolveFromBuildpack
  <2> QED
    BY <1>1, <2>1, CandidatesOfId
<1>3. CASE ref.kind = "ClusterBuildpack" /\ ref.id # 0
  <2>1. all = Matching(ref.id, Named(sources.clusterBuildpacks, ref.name), 2)
    BY <1>3 DEF Candidates, resolveFromClusterBuildpack
  <2> QED
    BY <1>1, <2>1, CandidatesOfId
<1>4. \A m : m = Error \/ IsHit(m, sources, ref) => Good(<<m>>)
  <2> SUFFICES ASSUME NEW m, m = Error \/ IsHit(m, sources, ref) PROVE Good(<<m>>)
    OBVIOUS
  <2>1. IsList(<<m>>) /\ Range(<<m>>) = {m}
    BY OneElement
  <2> HIDE DEF Error
  <2> QED
    BY <2>1
<1>5. CASE ref.kind = "Buildpack" /\ ref.id = 0
  <2>1. all = <<resolveFromObjectReference(Named(sources.buildpacks, ref.name), 1)>>
    BY <1>5 DEF Candidates
  <2> HIDE DEF Good
  <2>2. Good(all)
    BY <1>1, <1>4, <1>5, <2>1, CandidatesOfObject
  <2> QED
    BY <2>2 DEF Good
<1>6. CASE ref.kind = "ClusterBuildpack" /\ ref.id = 0
  <2>1. all = <<resolveFromObjectReference(Named(sources.clusterBuildpacks, ref.name), 2)>>
    BY <1>6 DEF Candidates
  <2> HIDE DEF Good
  <2>2. Good(all)
    BY <1>1, <1>4, <1>6, <2>1, CandidatesOfObject
  <2> QED
    BY <2>2 DEF Good
<1>7. CASE ref.kind = "" /\ ref.id # 0
  BY <1>7, CandidatesById
<1>8. CASE /\ ref.kind \notin {"Buildpack", "ClusterBuildpack"}
           /\ ref.kind # "" \/ ref.id = 0
  <2>1. all = <<>>
    BY <1>8 DEF Candidates
  <2> QED
    BY <2>1, EmptyList
<1> QED
  BY <1>2, <1>3, <1>5, <1>6, <1>7, <1>8

LEMMA ResolveIs ==
    ASSUME NEW sources, NEW ref
    PROVE  resolve(sources, ref) = Chosen(Candidates(sources, ref), ref.version)
  BY DEF resolve

\* A list of hits, with versions that can be compared.
AreHits(list) ==
    IsList(list) /\ \A m \in Range(list) : m.ok = TRUE /\ m.offer.version \in Nat

\* Whether one is chosen, and which, depends on the set of candidates only.
Choosable(list, version) ==
    /\ Range(list) # {}
    /\ version = Unversioned => \A m \in Range(list) : m.offer.version \notin NotSemver
    /\ version # Unversioned => \E m \in Range(list) : m.offer.version = version

Fits(c, list, version) ==
    /\ c \in Range(list)
    /\ version = Unversioned => \A m \in Range(list) : m.offer.version <= c.offer.version
    /\ version # Unversioned => c.offer.version = version

LEMMA ChosenIs ==
    ASSUME NEW list, AreHits(list), NEW version
    PROVE  IF Choosable(list, version) THEN Fits(Chosen(list, version), list, version)
           ELSE Chosen(list, version) = Error
<1> DEFINE n == Len(list)
           v(i) == list[i].offer.version
<1>1. /\ n \in Nat /\ DOMAIN list = 1 .. n /\ \A i \in 1 .. n : list[i] \in Range(list)
      /\ n = 0 <=> list = <<>>
  BY ListIs DEF AreHits, IsList
<1>2. \A i \in 1 .. n : list[i].ok = TRUE /\ v(i) \in Nat
  BY <1>1 DEF AreHits
<1>3. \A m \in Range(list) : \E i \in 1 .. n : m = list[i]
  BY <1>1 DEF Range
<1>4. CASE n = 0
  <2>1. list = <<>> /\ Range(list) = {}
    BY <1>1, <1>3, <1>4
  <2> QED
    BY <2>1 DEF Chosen, Choosable
<1>5. CASE n # 0 /\ version = Unversioned
  <2> DEFINE tops == {i \in 1 .. n : \A k \in 1 .. n : v(k) <= v(i)}
  <2>1. 1 \in 1 .. n /\ list # <<>> /\ list[1].ok
    BY <1>1, <1>2, <1>5
  <2>2. Chosen(list, version) = highestVersion(list)
    BY <1>5, <2>1 DEF Chosen
  <2>3. highestVersion(list) = IF \E k \in 1 .. n : v(k) \in NotSemver THEN Error
                               ELSE list[IF tops # {} THEN Max(tops) ELSE 0]
    BY DEF highestVersion, SelectLastInSeq
  <2>4. tops # {}
    <3> DEFINE w == [i \in 1 .. n |-> v(i)]
    <3>1. \A i \in 1 .. n : w[i] \in Nat /\ w[i] = v(i)
      BY <1>2
    <3> HIDE DEF w, v, n
    <3>2. \E i \in 1 .. n : \A k \in 1 .. n : w[k] <= w[i]
      BY <1>1, <1>5, <3>1, Greatest
    <3> QED
      BY <3>1, <3>2
  <2>5. Max(tops) \in tops
    <3>1. tops \in SUBSET (1 .. n)
      OBVIOUS
    <3> HIDE DEF tops
    <3> QED
      BY <1>1, <2>4, <3>1, LastOf
  <2>6. Choosable(list, version) <=> \A k \in 1 .. n : v(k) \notin NotSemver
    BY <1>1, <1>3, <1>5, <2>1 DEF Choosable
  <2> DEFINE t == Max(tops)
  <2>7. t \in 1 .. n /\ \A k \in 1 .. n : v(k) <= v(t)
    BY <2>5
  <2>8. Choosable(list, version) => Chosen(list, version) = list[t]
    <3> HIDE DEF tops, v
    <3> QED
      BY <2>2, <2>3, <2>4, <2>6
  <2>9. ~Choosable(list, version) => Chosen(list, version) = Error
    <3> HIDE DEF tops, v
    <3> QED
      BY <2>2, <2>3, <2>6
  <2> HIDE DEF t, tops
  <2>10. Fits(list[t], list, version)
    BY <1>1, <1>3, <1>5, <2>7 DEF Fits
  <2> QED
    BY <2>8, <2>9, <2>10
<1>6. CASE n # 0 /\ version # Unversioned
  <2> DEFINE same == {i \in 1 .. n : list[i].ok /\ v(i) = version}
             at == IF same # {} THEN Min(same) ELSE 0
  <2>1. 1 \in 1 .. n /\ list # <<>> /\ list[1].ok
    BY <1>1, <1>2, <1>6
  <2>2. Chosen(list, version) = IF at = 0 THEN Error ELSE list[at]
    BY <1>6, <2>1 DEF Chosen, SelectInSeq
  <2>3. Choosable(list, version) <=> same # {}
    BY <1>1, <1>2, <1>3, <1>6, <2>1 DEF Choosable
  <2>4. CASE same = {}
    BY <2>2, <2>3, <2>4
  <2>5. CASE same # {}
    <3>1. Min(same) \in same
      <4>1. same \in SUBSET Nat
        BY <1>1
      <4> HIDE DEF same
      <4> QED
        BY <2>5, <4>1, FirstOf
    <3>2. at = Min(same) /\ at \in 1 .. n /\ v(at) = version
      BY <2>5, <3>1
    <3> HIDE DEF at, same
    <3>3. at # 0
      BY <1>1, <3>2
    <3>4. Chosen(list, version) = list[at]
      BY <2>2, <3>3
    <3>5. Fits(list[at], list, version)
      BY <1>1, <1>6, <3>2 DEF Fits
    <3> QED
      BY <2>3, <2>5, <3>4, <3>5
  <2> QED
    BY <2>4, <2>5
<1> QED
  BY <1>4, <1>5, <1>6

\* What a reference resolves to is an offer of the sources, with the id and the
\* version of the reference.
LEMMA ResolveGives ==
    ASSUME NEW sources, AreSources(sources), NEW ref
    PROVE  LET m == resolve(sources, ref)
           IN  \/ m = Error
               \/ /\ IsHit(m, sources, ref)
                  /\ ref.version # Unversioned => m.offer.version = ref.version
<1> DEFINE all == Candidates(sources, ref)
           m == resolve(sources, ref)
<1>1. IsList(all) /\ (all = <<Error>> \/ \A h \in Range(all) : IsHit(h, sources, ref))
  BY CandidatesAre
<1>2. m = Chosen(all, ref.version)
  BY ResolveIs
<1> HIDE DEF all, m
<1>3. CASE all = <<Error>>
  BY <1>2, <1>3 DEF Chosen, Error, m
<1>4. CASE \A h \in Range(all) : IsHit(h, sources, ref)
  <2>1. AreHits(all)
    BY <1>1, <1>4, OffersTyped DEF AreHits, IsHit
  <2>2. m = Error \/ Fits(m, all, ref.version)
    BY <1>2, <2>1, ChosenIs
  <2> QED
    BY <1>4, <2>2 DEF Fits, m
<1> QED
  BY <1>1, <1>3, <1>4

\* With the same objects listed in another order, a name means the same object, and an
\* id has the same candidates.
LEMMA SameObjects ==
    ASSUME NEW sources, AreSources(sources),
           DOMAIN sources = {"buildpacks", "clusterBuildpacks", "store"},
           NEW listed, IsList(listed), Range(listed) = Range(sources.buildpacks),
           NEW others, IsList(others), Range(others) = Range(sources.clusterBuildpacks)
    PROVE  LET turned == [sources EXCEPT !.buildpacks = listed, !.clusterBuildpacks = others]
           IN  /\ AreSources(turned) /\ Offers(turned) = Offers(sources)
               /\ turned.buildpacks = listed /\ turned.clusterBuildpacks = others
               /\ turned.store = sources.store
               /\ OffersOf(listed) = OffersOf(sources.buildpacks)
               /\ OffersOf(others) = OffersOf(sources.clusterBuildpacks)
<1> DEFINE turned == [sources EXCEPT !.buildpacks = listed, !.clusterBuildpacks = others]
<1>1. turned.buildpacks = listed /\ turned.clusterBuildpacks = others /\ turned.store = sources.store
  OBVIOUS
<1> HIDE DEF turned
<1>2. AreSources(turned)
  BY <1>1 DEF AreSources, AreObjects
<1>3. /\ OffersOf(listed) = OffersOf(sources.buildpacks)
      /\ OffersOf(others) = OffersOf(sources.clusterBuildpacks)
  BY DEF OffersOf
<1>4. Offers(turned) = Offers(sources)
  BY <1>1, <1>3, OffersAre
<1> QED
  BY <1>1, <1>2, <1>3, <1>4 DEF turned

\* Two results of resolve that mean the same buildpack.
Agree(found, other) == found.ok = other.ok /\ (found.ok => Key(found.offer) = Key(other.offer))

\* Two choices from the same candidates mean the same buildpack.
LEMMA SameChoice ==
    ASSUME NEW sources, AreSources(sources), Unambiguous(sources), NEW ref, ref.id # 0,
           NEW a, NEW b, IsList(a), IsList(b), Range(a) = Range(b),
           \A m \in Range(a) : IsHit(m, sources, ref)
    PROVE  Agree(Chosen(a, ref.version), Chosen(b, ref.version))
<1> DEFINE found == Chosen(a, ref.version)
           other == Chosen(b, ref.version)
<1>1. \A m \in Range(a) : m.offer \in Offers(sources) /\ m.offer.version \in Nat /\ m.ok = TRUE
                          /\ m.offer.id = ref.id
  BY OffersTyped DEF IsHit
<1>2. AreHits(a) /\ AreHits(b)
  BY <1>1 DEF AreHits
<1>3. /\ IF Choosable(a, ref.version) THEN Fits(found, a, ref.version) ELSE found = Error
      /\ IF Choosable(b, ref.version) THEN Fits(other, b, ref.version) ELSE other = Error
  BY <1>2, ChosenIs
<1> HIDE DEF found, other
<1>4. Choosable(a, ref.version) <=> Choosable(b, ref.version)
  BY DEF Choosable
<1>5. CASE ~Choosable(a, ref.version)
  <2>1. found = Error /\ other = Error
    BY <1>3, <1>4, <1>5
  <2>2. ~found.ok /\ found.ok = other.ok
    BY <2>1 DEF Error
  <2> QED
    BY <2>2 DEF found, other, Agree
<1>6. CASE Choosable(a, ref.version)
  <2>1. Fits(found, a, ref.version) /\ Fits(other, b, ref.version)
    BY <1>3, <1>4, <1>6
  <2>2. found \in Range(a) /\ other \in Range(a)
    BY <2>1 DEF Fits
  <2>3. /\ found.offer \in Offers(sources) /\ other.offer \in Offers(sources)
        /\ found.offer.version \in Nat /\ other.offer.version \in Nat
        /\ found.ok = TRUE /\ other.ok = TRUE /\ found.offer.id = other.offer.id
    BY <1>1, <2>2
  <2>4. found.offer.version = other.offer.version
    <3>1. CASE ref.version # Unversioned
      BY <2>1, <3>1 DEF Fits
    <3>2. CASE ref.version = Unversioned
      <4>1. found.offer.version <= other.offer.version /\ other.offer.version <= found.offer.version
        BY <2>1, <2>2, <3>2 DEF Fits
      <4> QED
        BY <2>3, <4>1
    <3> QED
      BY <3>1, <3>2
  <2>5. found.offer.page = other.offer.page
    BY <2>3, <2>4 DEF Unambiguous, Text
  <2>6. Key(found.offer) = Key(other.offer)
    BY <2>3, <2>4, <2>5 DEF Key
  <2> QED
    BY <2>3, <2>6 DEF found, other, Agree
<1> QED
  BY <1>5, <1>6

\* What a reference resolves to does not depend on the order of the lists.
LEMMA ResolutionAlike ==
    ASSUME NEW sources, AreSources(sources), Unambiguous(sources),
           DOMAIN sources = {"buildpacks", "clusterBuildpacks", "store"},
           NamesDiffer(sources.buildpacks), NamesDiffer(sources.clusterBuildpacks),
           NEW listed, IsList(listed), Range(listed) = Range(sources.buildpacks),
           NEW others, IsList(others), Range(others) = Range(sources.clusterBuildpacks),
           NEW ref
    PROVE  Agree(resolve(sources, ref),
                 resolve([sources EXCEPT !.buildpacks = listed, !.clusterBuildpacks = others], ref))
<1> DEFINE turned == [sources EXCEPT !.buildpacks = listed, !.clusterBuildpacks = others]
<1>1. /\ AreSources(turned) /\ Offers(turned) = Offers(sources)
      /\ turned.buildpacks = listed /\ turned.clusterBuildpacks = others
      /\ turned.store = sources.store
      /\ OffersOf(listed) = OffersOf(sources.buildpacks)
      /\ OffersOf(others) = OffersOf(sources.clusterBuildpacks)
  BY SameObjects
<1> HIDE DEF turned
<1>2. /\ resolve(sources, ref) = Chosen(Candidates(sources, ref), ref.version)
      /\ resolve(turned, ref) = Chosen(Candidates(turned, ref), ref.version)
  BY ResolveIs
<1>3. CASE ref.kind = "" /\ ref.id # 0
  <2> DEFINE a == Candidates(sources, ref)
             b == Candidates(turned, ref)
  <2>1. IsList(a) /\ IsList(b) /\ \A m \in Range(a) : IsHit(m, sources, ref)
    BY <1>1, <1>3, CandidatesById
  <2>2. Range(a) = Range(b)
    <3>1. /\ Range(a) = Hits(ref.id, OffersOf(sources.buildpacks), 1)
                          \cup Hits(ref.id, OffersOf(sources.clusterBuildpacks), 2)
                          \cup Hits(ref.id, OffersOf(sources.store), 3)
          /\ Range(b) = Hits(ref.id, OffersOf(turned.buildpacks), 1)
                          \cup Hits(ref.id, OffersOf(turned.clusterBuildpacks), 2)
                          \cup Hits(ref.id, OffersOf(turned.store), 3)
      BY <1>1, <1>3, CandidatesById
    <3> QED
      BY <1>1, <3>1
  <2> HIDE DEF a, b
  <2>3. Agree(Chosen(a, ref.version), Chosen(b, ref.version))
    BY <1>3, <2>1, <2>2, SameChoice
  <2> QED
    BY <1>2, <2>3 DEF a, b, turned
<1>4. CASE ~(ref.kind = "" /\ ref.id # 0)
  <2>1. /\ Named(sources.buildpacks, ref.name) = Named(turned.buildpacks, ref.name)
        /\ Named(sources.clusterBuildpacks, ref.name) = Named(turned.clusterBuildpacks, ref.name)
    BY <1>1, NamedAlike DEF AreSources, AreObjects
  <2>2. Candidates(sources, ref) = Candidates(turned, ref)
    BY <1>4, <2>1 DEF Candidates
  <2>3. resolve(sources, ref) = resolve(turned, ref)
    BY <1>2, <2>2
  <2> QED
    BY <2>3 DEF turned, Agree
<1> QED
  BY <1>3, <1>4

---------------------------------------------------------------------------
(* Fetching. *)

\* Offers among which every entry of their orders has a buildpack.
Closed(offers) ==
    \A o \in offers : \A child \in Range(o.order) :
        \E p \in offers : p.id = child.id /\ child.version \in {Unversioned, p.version}

\* What fetching an offer may give: an error, or a closed list with the offer in it.
IsFetched(r, offer, sources) ==
    \/ r = Error
    \/ /\ r.ok = TRUE /\ IsList(r.offers) /\ Range(r.offers) \subseteq Offers(sources)
       /\ offer \in Range(r.offers) /\ Closed(Range(r.offers))

\* What an entry of an order resolves to is a buildpack for it.
LEMMA ChildIs ==
    ASSUME NEW sources, AreSources(sources), NEW child
    PROVE  LET m == resolve(sources, ChildRef(child))
           IN  \/ m = Error
               \/ /\ m.ok = TRUE /\ m.offer \in Offers(sources) /\ m.offer.id = child.id
                  /\ child.version \in {Unversioned, m.offer.version}
<1> DEFINE ref == ChildRef(child)
           m == resolve(sources, ref)
<1>1. ref.kind = "" /\ ref.id = child.id /\ ref.version = child.version
  BY DEF ChildRef
<1> HIDE DEF ref
<1>2. m = Error \/ (IsHit(m, sources, ref) /\ (ref.version # Unversioned => m.offer.version = ref.version))
  BY ResolveGives
<1>3. ref.id = 0 => m = Error
  BY <1>1 DEF resolve, Chosen, Candidates
<1> HIDE DEF m
<1>4. m = Error \/ /\ m.ok = TRUE /\ m.offer \in Offers(sources) /\ m.offer.id = child.id
                   /\ child.version \in {Unversioned, m.offer.version}
  BY <1>1, <1>2, <1>3 DEF IsHit
<1> QED
  BY <1>4 DEF m, ref

\* One level of fetching.
LEMMA LayersGive ==
    ASSUME NEW sources, AreSources(sources), NEW offer \in Offers(sources), NEW fetched,
           \A o \in Offers(sources) : IsFetched(fetched[o], o, sources)
    PROVE  IsFetched(layersForOrder(sources, offer, fetched), offer, sources)
<1> DEFINE n == Len(offer.order)
           child(k) == resolve(sources, ChildRef(offer.order[k]))
           part(k) == IF child(k).ok THEN fetched[child(k).offer] ELSE Error
           parts == [k \in 1 .. n |-> part(k)]
           lists == [k \in 1 .. n |-> parts[k].offers]
           r == layersForOrder(sources, offer, fetched)
<1>1. n \in Nat /\ DOMAIN offer.order = 1 .. n /\ IsList(offer.order)
  BY OffersTyped, ListIs
<1>2. Len(parts) = n
  <2> HIDE DEF part
  <2> QED
    BY <1>1, FunctionIsList
<1>3. r = IF \E k \in 1 .. n : ~parts[k].ok THEN Error
          ELSE [ok |-> TRUE, offers |-> FlattenSeq(lists) \o <<offer>>]
  BY <1>2 DEF layersForOrder, WithOwnLayer, FetchedChild
<1>4. CASE \E k \in 1 .. n : ~parts[k].ok
  BY <1>3, <1>4 DEF IsFetched
<1>5. CASE \A k \in 1 .. n : parts[k].ok
  <2>1. ASSUME NEW k \in 1 .. n
        PROVE  /\ child(k).offer.id = offer.order[k].id
               /\ offer.order[k].version \in {Unversioned, child(k).offer.version}
               /\ IsList(lists[k]) /\ Range(lists[k]) \subseteq Offers(sources)
               /\ child(k).offer \in Range(lists[k]) /\ Closed(Range(lists[k]))
    <3>1. parts[k] = part(k) /\ part(k).ok /\ lists[k] = part(k).offers
      <4> HIDE DEF part
      <4> QED
        BY <1>5
    <3>2. \/ child(k) = Error
          \/ /\ child(k).ok = TRUE /\ child(k).offer \in Offers(sources)
             /\ child(k).offer.id = offer.order[k].id
             /\ offer.order[k].version \in {Unversioned, child(k).offer.version}
      BY ChildIs
    <3> HIDE DEF child
    <3>3. ~Error.ok
      BY DEF Error
    <3>4. child(k) # Error /\ part(k) = fetched[child(k).offer]
      BY <3>1, <3>2, <3>3
    <3>5. IsFetched(fetched[child(k).offer], child(k).offer, sources)
      BY <3>2, <3>4
    <3> HIDE DEF part, lists
    <3> QED
      BY <3>1, <3>2, <3>3, <3>4, <3>5 DEF IsFetched
  <2> DEFINE flat == FlattenSeq(lists)
             all == flat \o <<offer>>
  <2>2. IsList(lists) /\ DOMAIN lists = 1 .. n
    <3> HIDE DEF parts
    <3> QED
      BY <1>1, FunctionIsList
  <2> HIDE DEF lists
  <2>3. IsList(flat) /\ Range(flat) = UNION {Range(lists[k]) : k \in DOMAIN lists}
    BY <2>1, <2>2, FlattenedRange
  <2>4. IsList(all) /\ Range(all) = Range(flat) \cup {offer}
    <3> DEFINE t == <<offer>>
    <3>1. IsList(t) /\ Range(t) = {offer}
      BY OneElement
    <3> HIDE DEF t, flat
    <3>2. IsList(flat \o t) /\ Range(flat \o t) = Range(flat) \cup Range(t)
      BY <2>3, <3>1, Joined
    <3> QED
      BY <3>1, <3>2 DEF t
  <2>5. r.ok = TRUE /\ r.offers = all
    <3> HIDE DEF parts, flat, r, n
    <3>1. r = [ok |-> TRUE, offers |-> FlattenSeq(lists) \o <<offer>>]
      BY <1>3, <1>5
    <3> QED
      BY <3>1 DEF flat
  <2> HIDE DEF all, flat, child, r
  <2>6. Range(all) \subseteq Offers(sources) /\ offer \in Range(all)
    BY <2>1, <2>2, <2>3, <2>4
  <2>7. ASSUME NEW k \in 1 .. n PROVE Range(lists[k]) \subseteq Range(all)
    BY <2>2, <2>3, <2>4
  <2>8. Closed(Range(all))
    <3> SUFFICES ASSUME NEW o \in Range(all), NEW c \in Range(o.order)
                 PROVE  \E p \in Range(all) : p.id = c.id /\ c.version \in {Unversioned, p.version}
      BY DEF Closed
    <3>1. CASE o = offer
      <4>1. PICK k \in 1 .. n : c = offer.order[k]
        BY <1>1, <3>1 DEF Range
      <4>2. child(k).offer \in Range(all)
        BY <2>1, <2>7
      <4> QED
        BY <2>1, <4>1, <4>2
    <3>2. CASE o # offer
      <4>1. PICK k \in 1 .. n : o \in Range(lists[k])
        BY <2>2, <2>3, <2>4, <3>2
      <4>2. PICK p \in Range(lists[k]) : p.id = c.id /\ c.version \in {Unversioned, p.version}
        BY <2>1, <4>1 DEF Closed
      <4> QED
        BY <2>7, <4>2
    <3> QED
      BY <3>1, <3>2
  <2>9. IsFetched(r, offer, sources)
    BY <2>4, <2>5, <2>6, <2>8 DEF IsFetched
  <2> QED
    BY <2>9 DEF r
<1> QED
  BY <1>4, <1>5

\* fetch goes down level by level.
LEMMA FetchSteps ==
    ASSUME NEW sources, NEW offer
    PROVE  \E f : /\ \A o \in Offers(sources) : f[0][o] = Error
                  /\ \A d \in 1 .. MaxDepth + 1 : \A o \in Offers(sources) :
                       f[d][o] = layersForOrder(sources, o, f[d - 1])
                  /\ fetch(sources, offer) = f[MaxDepth + 1][offer]
<1> DEFINE n == MaxDepth + 1
           Level(d, g) == [o \in Offers(sources) |->
                              IF d = 0 THEN Error ELSE layersForOrder(sources, o, g[d - 1])]
           Eq(g, k) == g = [d \in 0 .. k |-> Level(d, g)]
           P == {k \in 0 .. n : \E g : Eq(g, k)}
           upTo == CHOOSE g : Eq(g, n)
<1>1. n \in Nat
  BY DepthAssumption
<1>2. fetch(sources, offer) = upTo[n][offer]
  BY DEF fetch
<1>3. 0 \in P
  <2> DEFINE g0 == [d \in 0 .. 0 |-> [o \in Offers(sources) |-> Error]]
  <2>1. Eq(g0, 0)
    OBVIOUS
  <2>2. 0 \in 0 .. n
    BY <1>1
  <2> HIDE DEF g0
  <2> QED
    BY <2>1, <2>2
<1>4. ASSUME NEW k \in 0 .. n - 1, k \in P PROVE k + 1 \in P
  <2>1. PICK g : Eq(g, k)
    BY <1>4
  <2> DEFINE h == [d \in 0 .. k + 1 |-> Level(d, g)]
  <2>2. \A d \in 0 .. k : h[d] = g[d]
    <3>1. \A d \in 0 .. k : g[d] = Level(d, g)
      <4> HIDE DEF Level
      <4> QED
        BY <2>1
    <3>2. \A d \in 0 .. k : h[d] = Level(d, g)
      <4> HIDE DEF Level
      <4>1. \A d \in 0 .. k : d \in 0 .. k + 1
        BY <1>1
      <4> QED
        BY <4>1
    <3> QED
      BY <3>1, <3>2
  <2>3. ASSUME NEW d \in 0 .. k + 1 PROVE Level(d, g) = Level(d, h)
    <3>1. CASE d = 0
      BY <3>1
    <3>2. CASE d # 0
      <4>1. d - 1 \in 0 .. k
        BY <1>1, <3>2
      <4>2. h[d - 1] = g[d - 1]
        BY <2>2, <4>1
      <4> QED
        BY <4>2
    <3> QED
      BY <3>1, <3>2
  <2>4. Eq(h, k + 1)
    <3>1. h = [d \in 0 .. k + 1 |-> Level(d, h)]
      <4> DEFINE a(d) == Level(d, g)
                 b(d) == Level(d, h)
      <4>1. \A d \in 0 .. k + 1 : a(d) = b(d)
        BY <2>3
      <4>2. h = [d \in 0 .. k + 1 |-> a(d)]
        OBVIOUS
      <4>3. [d \in 0 .. k + 1 |-> a(d)] = [d \in 0 .. k + 1 |-> b(d)]
        <5> HIDE DEF a, b
        <5> QED
          BY <4>1
      <4> QED
        BY <4>2, <4>3
    <3> QED
      BY <3>1
  <2>5. k + 1 \in 0 .. n
    BY <1>1
  <2> HIDE DEF h
  <2> QED
    BY <2>4, <2>5
<1>5. Eq(upTo, n)
  <2> HIDE DEF P
  <2>1. n \in P
    <3>1. \A k \in 0 .. n - 1 : k \in P => k + 1 \in P
      BY <1>4
    <3>2. n \in 0 .. n
      BY <1>1
    <3> HIDE DEF n
    <3> QED
      BY <1>1, <1>3, <3>1, <3>2, Upto
  <2>2. \E g : Eq(g, n)
    BY <2>1 DEF P
  <2> HIDE DEF Eq
  <2> QED
    BY <2>2
<1> HIDE DEF upTo
<1>6. \A d \in 0 .. n : upTo[d] = Level(d, upTo)
  <2> HIDE DEF Level
  <2> QED
    BY <1>5
<1>7. \A o \in Offers(sources) : upTo[0][o] = Error
  <2>1. 0 \in 0 .. n
    BY <1>1
  <2>2. upTo[0] = Level(0, upTo)
    BY <1>6, <2>1
  <2> QED
    BY <2>2
<1>8. ASSUME NEW d \in 1 .. n, NEW o \in Offers(sources)
      PROVE  upTo[d][o] = layersForOrder(sources, o, upTo[d - 1])
  <2>1. d \in 0 .. n /\ d # 0
    BY <1>1
  <2>2. upTo[d] = Level(d, upTo)
    BY <1>6, <2>1
  <2> QED
    BY <2>1, <2>2
<1> QED
  BY <1>2, <1>7, <1>8

LEMMA FetchGives ==
    ASSUME NEW sources, AreSources(sources), NEW offer \in Offers(sources)
    PROVE  IsFetched(fetch(sources, offer), offer, sources)
<1> DEFINE n == MaxDepth + 1
<1>1. n \in Nat
  BY DepthAssumption
<1>2. PICK f : /\ \A o \in Offers(sources) : f[0][o] = Error
               /\ \A d \in 1 .. n : \A o \in Offers(sources) :
                    f[d][o] = layersForOrder(sources, o, f[d - 1])
               /\ fetch(sources, offer) = f[n][offer]
  BY FetchSteps
<1> HIDE DEF n
<1> DEFINE P == {d \in 0 .. n : \A o \in Offers(sources) : IsFetched(f[d][o], o, sources)}
<1>3. 0 \in P
  BY <1>1, <1>2 DEF IsFetched
<1>4. ASSUME NEW d \in 0 .. n - 1, d \in P PROVE d + 1 \in P
  <2>1. d + 1 \in 1 .. n /\ d + 1 \in 0 .. n /\ (d + 1) - 1 = d
    BY <1>1
  <2>2. \A o \in Offers(sources) : IsFetched(f[d][o], o, sources)
    BY <1>4
  <2>3. \A o \in Offers(sources) : f[d + 1][o] = layersForOrder(sources, o, f[d])
    BY <1>2, <2>1
  <2>4. \A o \in Offers(sources) : IsFetched(f[d + 1][o], o, sources)
    BY <2>2, <2>3, LayersGive
  <2> QED
    BY <2>1, <2>4
<1>5. n \in P
  <2> HIDE DEF P
  <2>1. n \in 0 .. n /\ \A d \in 0 .. n - 1 : d \in P => d + 1 \in P
    BY <1>1, <1>4
  <2> QED
    BY <1>1, <1>3, <2>1, Upto
<1> QED
  BY <1>2, <1>5

\* A reference gives an error, or a closed list of layers, that of its buildpack among
\* them.
LEMMA ReferenceGives ==
    ASSUME NEW sources, AreSources(sources), NEW ref
    PROVE  LET r == ResolveAndFetch(sources, ref)
           IN  \/ r = Error
               \/ /\ r.ok = TRUE /\ IsList(r.offers) /\ Range(r.offers) \subseteq Offers(sources)
                  /\ r.offer \in Range(r.offers) /\ Closed(Range(r.offers))
<1> DEFINE found == resolve(sources, ref)
           fetched == fetch(sources, found.offer)
           r == ResolveAndFetch(sources, ref)
<1>1. found = Error \/ IsHit(found, sources, ref)
  BY ResolveGives
<1>2. r = IF ~found.ok THEN Error ELSE IF ~fetched.ok THEN Error
          ELSE [ok |-> TRUE, offer |-> found.offer, offers |-> fetched.offers]
  BY DEF ResolveAndFetch
<1> HIDE DEF found
<1>3. ~Error.ok
  BY DEF Error
<1>4. CASE ~found.ok \/ ~fetched.ok
  BY <1>2, <1>4
<1>5. CASE found.ok /\ fetched.ok
  <2>1. IsFetched(fetched, found.offer, sources)
    BY <1>1, <1>3, <1>5, FetchGives DEF IsHit
  <2>2. r.ok = TRUE /\ r.offer = found.offer /\ r.offers = fetched.offers
    BY <1>2, <1>5
  <2> HIDE DEF fetched, r
  <2>3. /\ r.ok = TRUE /\ IsList(r.offers) /\ Range(r.offers) \subseteq Offers(sources)
        /\ r.offer \in Range(r.offers) /\ Closed(Range(r.offers))
    BY <1>3, <1>5, <2>1, <2>2 DEF IsFetched
  <2> QED
    BY <2>3 DEF r
<1> QED
  BY <1>4, <1>5

---------------------------------------------------------------------------
(* The inductive invariant. *)

\* The layers are offers of the sources, under their keys.
LayersKept ==
    /\ IsFiniteSet(DOMAIN layers)
    /\ \A key \in DOMAIN layers : layers[key] \in Offers(case.sources) /\ Key(layers[key]) = key

\* The layers have a buildpack for every entry of their orders.
LayersClosed ==
    \A key \in DOMAIN layers : \A child \in Range(layers[key].order) :
        \E other \in DOMAIN layers :
            other.id = child.id /\ child.version \in {Unversioned, other.version}

\* The layers have what the groups added so far name.
GroupsThere ==
    /\ IsList(order)
    /\ \A k \in 1 .. Len(order) : \A r \in Range(order[k]) :
         \E key \in DOMAIN layers : key.id = r.id /\ key.version = r.version

\* An image was written from these layers, for this stack and lifecycle.
Written ==
    /\ image \in WriteableImages(layers, order)
    /\ InputsOk /\ validateBuilder(layers, case.stack.id, Stack.mixins, Lifecycle)

IInv ==
    /\ case \in Cases /\ done \in 0 .. Len(case.order)
    /\ LayersKept /\ LayersClosed /\ GroupsThere
    /\ image = NotYet \/ image = Error \/ Written

\* The cases give sources.
LEMMA CaseIs ==
    ASSUME case \in Cases
    PROVE  /\ AreSources(case.sources)
           /\ DOMAIN case.sources = {"buildpacks", "clusterBuildpacks", "store"}
           /\ NamesDiffer(case.sources.buildpacks) /\ NamesDiffer(case.sources.clusterBuildpacks)
           /\ \A o \in Range(case.sources.store) : ListedOnce(o.offers)
           /\ IsList(case.order) /\ \A group \in Range(case.order) : IsList(group)
  BY CasesAssumption DEF AreSources

LEMMA ImagesAreOk ==
    ASSUME NEW kept, NEW groups, NEW i \in WriteableImages(kept, groups)
    PROVE  i.ok = TRUE /\ i.order = groups /\ i # NotYet /\ i # Error
<1>1. i.ok = TRUE /\ i.order = groups
  <2>1. PICK s \in SortedBySize(kept) :
          i = [ok |-> TRUE, order |-> groups, buildpacks |-> s,
               layers |-> deduplicateLayers(LayersBefore \o [k \in 1..Len(s) |-> kept[s[k]].diff]
                                                          \o LayersAfter)]
    BY DEF WriteableImages
  <2> QED
    BY <2>1
<1>2. NotYet.ok = FALSE /\ Error.ok = FALSE
  BY DEF NotYet, Error
<1> QED
  BY <1>1, <1>2

\* A later layer of the same key replaces one; no key is lost.
LEMMA LayersAdded ==
    ASSUME NEW kept, NEW offers, IsList(offers)
    PROVE  /\ DOMAIN AddLayers(kept, offers) = DOMAIN kept \cup {Key(o) : o \in Range(offers)}
           /\ \A k \in DOMAIN AddLayers(kept, offers) :
                \/ k \in DOMAIN kept /\ AddLayers(kept, offers)[k] = kept[k]
                \/ /\ AddLayers(kept, offers)[k] \in Range(offers)
                   /\ Key(AddLayers(kept, offers)[k]) = k
<1> DEFINE n == Len(offers)
           places(k) == {i \in 1 .. n : Key(offers[i]) = k}
           last(k) == IF places(k) # {} THEN Max(places(k)) ELSE 0
           keys == DOMAIN kept \cup {Key(o) : o \in Range(offers)}
           added == AddLayers(kept, offers)
<1>1. n \in Nat /\ DOMAIN offers = 1 .. n /\ \A i \in 1 .. n : offers[i] \in Range(offers)
  BY ListIs
<1>2. added = [k \in keys |-> IF last(k) = 0 THEN kept[k] ELSE offers[last(k)]]
  BY DEF AddLayers, SelectLastInSeq
<1>3. ASSUME NEW k \in keys
      PROVE  \/ k \in DOMAIN kept /\ last(k) = 0
             \/ last(k) \in 1 .. n /\ Key(offers[last(k)]) = k
  <2>1. CASE places(k) = {}
    <3>1. k \notin {Key(o) : o \in Range(offers)}
      BY <1>1, <2>1 DEF Range
    <3> QED
      BY <2>1, <3>1
  <2>2. CASE places(k) # {}
    <3>1. Max(places(k)) \in places(k)
      <4>1. places(k) \in SUBSET (1 .. n)
        OBVIOUS
      <4> HIDE DEF places, n
      <4> QED
        BY <1>1, <2>2, <4>1, LastOf
    <3> QED
      BY <2>2, <3>1
  <2> QED
    BY <2>1, <2>2
<1> HIDE DEF last, keys, added, n
<1>4. DOMAIN added = keys /\ \A k \in keys : added[k] = IF last(k) = 0 THEN kept[k] ELSE offers[last(k)]
  BY <1>2
<1>5. ASSUME NEW k \in keys
      PROVE  \/ k \in DOMAIN kept /\ added[k] = kept[k]
             \/ added[k] \in Range(offers) /\ Key(added[k]) = k
  <2>1. CASE k \in DOMAIN kept /\ last(k) = 0
    BY <1>4, <2>1
  <2>2. CASE last(k) \in 1 .. n /\ Key(offers[last(k)]) = k
    <3>1. last(k) # 0
      BY <1>1, <2>2
    <3> QED
      BY <1>1, <1>4, <2>2, <3>1
  <2> QED
    BY <1>3, <2>1, <2>2
<1> QED
  BY <1>4, <1>5 DEF added, keys

LEMMA FiniteKeys ==
    ASSUME NEW offers, IsList(offers) PROVE IsFiniteSet({Key(o) : o \in Range(offers)})
<1> DEFINE keys == {Key(o) : o \in Range(offers)}
           f == [o \in Range(offers) |-> Key(o)]
<1>1. f \in Surjection(Range(offers), keys)
  BY DEF Surjection
<1>2. IsFiniteSet(Range(offers))
  BY FiniteRange
<1> HIDE DEF f, keys
<1>3. IsFiniteSet(keys)
  BY <1>1, <1>2, FS_Surjection
<1> QED
  BY <1>3 DEF keys

\* The layers of a group are added.
LEMMA GroupAdded ==
    ASSUME IInv, NEW offers, IsList(offers), Range(offers) \subseteq Offers(case.sources),
           Closed(Range(offers)), case' = case, layers' = AddLayers(layers, offers)
    PROVE  LayersKept' /\ LayersClosed' /\ DOMAIN layers \subseteq DOMAIN layers'
           /\ \A o \in Range(offers) : Key(o) \in DOMAIN layers'
<1>1. /\ DOMAIN layers' = DOMAIN layers \cup {Key(o) : o \in Range(offers)}
      /\ \A k \in DOMAIN layers' :
           \/ k \in DOMAIN layers /\ layers'[k] = layers[k]
           \/ layers'[k] \in Range(offers) /\ Key(layers'[k]) = k
  <2> DEFINE added == AddLayers(layers, offers)
             keys == {Key(o) : o \in Range(offers)}
  <2>1. /\ DOMAIN added = DOMAIN layers \cup keys
        /\ \A k \in DOMAIN added :
             \/ k \in DOMAIN layers /\ added[k] = layers[k]
             \/ added[k] \in Range(offers) /\ Key(added[k]) = k
    BY LayersAdded, Zenon
  <2>2. layers' = added
    OBVIOUS
  <2> HIDE DEF added, keys
  <2>3. /\ DOMAIN layers' = DOMAIN layers \cup keys
        /\ \A k \in DOMAIN layers' :
             \/ k \in DOMAIN layers /\ layers'[k] = layers[k]
             \/ layers'[k] \in Range(offers) /\ Key(layers'[k]) = k
    BY <2>1, <2>2, Zenon
  <2> QED
    BY <2>3 DEF keys
<1>2. IsFiniteSet(DOMAIN layers')
  <2> DEFINE keys == {Key(o) : o \in Range(offers)}
  <2>1. IsFiniteSet(keys) /\ IsFiniteSet(DOMAIN layers)
    BY FiniteKeys DEF IInv, LayersKept
  <2>2. DOMAIN layers' = DOMAIN layers \cup keys
    BY <1>1
  <2> HIDE DEF keys
  <2>3. IsFiniteSet(DOMAIN layers \cup keys)
    BY <2>1, FS_Union
  <2> QED
    BY <2>2, <2>3
<1>3. LayersKept'
  BY <1>1, <1>2 DEF IInv, LayersKept
<1>4. DOMAIN layers \subseteq DOMAIN layers' /\ \A o \in Range(offers) : Key(o) \in DOMAIN layers'
  BY <1>1
<1>5. LayersClosed'
  <2> SUFFICES ASSUME NEW key \in DOMAIN layers', NEW child \in Range(layers'[key].order)
               PROVE  \E other \in DOMAIN layers' :
                          other.id = child.id /\ child.version \in {Unversioned, other.version}
    BY DEF LayersClosed
  <2>1. CASE key \in DOMAIN layers /\ layers'[key] = layers[key]
    <3>1. PICK other \in DOMAIN layers :
                 other.id = child.id /\ child.version \in {Unversioned, other.version}
      BY <2>1 DEF IInv, LayersClosed
    <3> QED
      BY <1>4, <3>1
  <2>2. CASE layers'[key] \in Range(offers)
    <3>1. PICK p \in Range(offers) : p.id = child.id /\ child.version \in {Unversioned, p.version}
      BY <2>2 DEF Closed
    <3>2. Key(p).id = p.id /\ Key(p).version = p.version
      BY DEF Key
    <3> QED
      BY <1>4, <3>1, <3>2
  <2> QED
    BY <1>1, <2>1, <2>2
<1> QED
  BY <1>3, <1>4, <1>5

LEMMA AddGroupStep == ASSUME IInv, AddGroup PROVE IInv'
<1> DEFINE group == Groups[done + 1]
           n == Len(group)
           found == [k \in 1 .. n |-> ResolveAndFetch(case.sources, group[k])]
           lists == [k \in 1 .. n |-> found[k].offers]
           names == [k \in 1 .. n |-> [id |-> found[k].offer.id, version |-> found[k].offer.version]]
<1>1. /\ AreSources(case.sources) /\ IsList(case.order)
      /\ \A g \in Range(case.order) : IsList(g)
  BY CaseIs DEF IInv
<1>2. /\ Len(case.order) \in Nat /\ done + 1 \in 1 .. Len(case.order)
      /\ DOMAIN case.order = 1 .. Len(case.order)
  <2>1. Len(case.order) \in Nat /\ DOMAIN case.order = 1 .. Len(case.order)
    BY <1>1, ListIs
  <2>2. done \in 0 .. Len(case.order) /\ done < Len(case.order)
    BY DEF IInv, AddGroup, Groups
  <2> QED
    BY <2>1, <2>2
<1>3. IsList(group) /\ n \in Nat /\ DOMAIN group = 1 .. n
  <2>1. group \in Range(case.order)
    BY <1>2 DEF Groups, Range
  <2> HIDE DEF group
  <2> QED
    BY <1>1, <2>1, ListIs
<1>4. case' = case /\ image = NotYet
  BY DEF AddGroup
<1>5. Len(found) = n
  BY <1>3, FunctionIsList
<1>6. CASE \E k \in 1 .. n : ~found[k].ok
  <2>1. image' = Error /\ UNCHANGED <<done, order, layers>>
    BY <1>5, <1>6 DEF AddGroup
  <2> QED
    BY <1>4, <2>1 DEF IInv, LayersKept, LayersClosed, GroupsThere
<1>7. CASE \A k \in 1 .. n : found[k].ok
  <2>1. /\ layers' = AddLayers(layers, FlattenSeq(lists)) /\ order' = Append(order, names)
        /\ done' = done + 1 /\ image' = image
    <3> DEFINE bad == \E k \in 1 .. Len(found) : ~found[k].ok
    <3>1. IF bad THEN image' = Error /\ UNCHANGED <<done, order, layers>>
          ELSE /\ layers' = AddLayers(layers, FlattenSeq([k \in 1 .. Len(found) |-> found[k].offers]))
               /\ order' = Append(order, [k \in 1 .. Len(found) |->
                                [id |-> found[k].offer.id, version |-> found[k].offer.version]])
               /\ done' = done + 1
               /\ UNCHANGED image
      BY DEF AddGroup
    <3> HIDE DEF found
    <3>2. ~bad
      BY <1>5, <1>7
    <3> QED
      BY <1>5, <3>1, <3>2
  <2>2. ASSUME NEW k \in 1 .. n
        PROVE  /\ IsList(found[k].offers) /\ Range(found[k].offers) \subseteq Offers(case.sources)
               /\ found[k].offer \in Range(found[k].offers) /\ Closed(Range(found[k].offers))
    <3> DEFINE r == ResolveAndFetch(case.sources, group[k])
    <3>1. found[k] = r
      OBVIOUS
    <3>2. \/ r = Error
          \/ /\ r.ok = TRUE /\ IsList(r.offers) /\ Range(r.offers) \subseteq Offers(case.sources)
             /\ r.offer \in Range(r.offers) /\ Closed(Range(r.offers))
      BY <1>1, ReferenceGives
    <3>3. ~Error.ok
      BY DEF Error
    <3> HIDE DEF r, found
    <3> QED
      BY <1>7, <3>1, <3>2, <3>3
  <2> HIDE DEF found
  <2>3. IsList(lists) /\ DOMAIN lists = 1 .. n /\ \A k \in 1 .. n : lists[k] = found[k].offers
    BY <1>3, FunctionIsList
  <2> HIDE DEF lists
  <2> DEFINE offers == FlattenSeq(lists)
  <2>4. IsList(offers) /\ Range(offers) = UNION {Range(lists[k]) : k \in DOMAIN lists}
    BY <2>2, <2>3, FlattenedRange
  <2> HIDE DEF offers
  <2>5. \A k \in 1 .. n : Range(found[k].offers) \subseteq Range(offers)
    BY <2>3, <2>4
  <2>6. \A o \in Range(offers) : \E k \in 1 .. n : o \in Range(found[k].offers)
    BY <2>3, <2>4
  <2>7. Range(offers) \subseteq Offers(case.sources) /\ Closed(Range(offers))
    <3>1. Range(offers) \subseteq Offers(case.sources)
      BY <2>2, <2>6
    <3>2. ASSUME NEW o \in Range(offers), NEW child \in Range(o.order)
          PROVE  \E p \in Range(offers) : p.id = child.id /\ child.version \in {Unversioned, p.version}
      <4>1. PICK k \in 1 .. n : o \in Range(found[k].offers)
        BY <2>6
      <4>2. PICK p \in Range(found[k].offers) : p.id = child.id /\ child.version \in {Unversioned, p.version}
        BY <2>2, <4>1 DEF Closed
      <4> QED
        BY <2>5, <4>2
    <3> QED
      BY <3>1, <3>2 DEF Closed
  <2>8. /\ LayersKept' /\ LayersClosed' /\ DOMAIN layers \subseteq DOMAIN layers'
        /\ \A o \in Range(offers) : Key(o) \in DOMAIN layers'
    BY <1>4, <2>1, <2>4, <2>7, GroupAdded DEF offers
  <2>9. GroupsThere'
    <3>1. IsList(order) /\ Len(order) \in Nat /\ DOMAIN order = 1 .. Len(order)
      BY ListIs DEF IInv, GroupsThere
    <3> HIDE DEF names
    <3>2. /\ IsList(order') /\ Len(order') = Len(order) + 1 /\ order'[Len(order) + 1] = names
          /\ \A k \in 1 .. Len(order) : order'[k] = order[k]
      <4> DEFINE all == Range(order) \cup {names}
      <4>1. order \in Seq(all) /\ names \in all /\ order' = Append(order, names)
        <5>1. order \in Seq(Range(order))
          BY <3>1 DEF IsList
        <5> QED
          BY <2>1, <3>1, <5>1, ListIs
      <4> HIDE DEF all
      <4>2. /\ Len(order') = Len(order) + 1 /\ order'[Len(order) + 1] = names
            /\ \A k \in 1 .. Len(order) : order'[k] = order[k]
            /\ order' = [i \in 1 .. Len(order') |-> order'[i]]
        <5> DEFINE longer == Append(order, names)
        <5>1. /\ longer \in Seq(all) /\ Len(longer) = Len(order) + 1
              /\ longer[Len(order) + 1] = names
              /\ \A k \in 1 .. Len(order) : longer[k] = order[k]
          BY <3>1, <4>1
        <5> HIDE DEF longer
        <5>2. longer = [i \in 1 .. Len(longer) |-> longer[i]]
          BY <5>1
        <5>3. order' = longer
          BY <4>1 DEF longer
        <5> QED
          BY <5>1, <5>2, <5>3
      <4>3. Len(order') \in Nat
        BY <3>1, <4>2
      <4>4. IsList(order')
        BY <4>2, <4>3, FunctionIsList
      <4> QED
        BY <4>2, <4>4
    <3>3. ASSUME NEW r \in Range(names)
          PROVE  \E key \in DOMAIN layers' : key.id = r.id /\ key.version = r.version
      <4>1. PICK k \in 1 .. n : r.id = found[k].offer.id /\ r.version = found[k].offer.version
        <5>1. DOMAIN names = 1 .. n
          BY DEF names
        <5>2. PICK k \in 1 .. n : r = names[k]
          BY <3>3, <5>1 DEF Range
        <5>3. r = [id |-> found[k].offer.id, version |-> found[k].offer.version]
          BY <5>2 DEF names
        <5> QED
          BY <5>3
      <4>2. Key(found[k].offer) \in DOMAIN layers'
        BY <2>2, <2>5, <2>8
      <4> QED
        BY <4>1, <4>2 DEF Key
    <3>4. ASSUME NEW k \in 1 .. Len(order'), NEW r \in Range(order'[k])
          PROVE  \E key \in DOMAIN layers' : key.id = r.id /\ key.version = r.version
      <4>1. k \in 1 .. Len(order) \/ k = Len(order) + 1
        BY <3>1, <3>2
      <4>2. CASE k \in 1 .. Len(order)
        <5>1. PICK key \in DOMAIN layers : key.id = r.id /\ key.version = r.version
          BY <3>2, <3>4, <4>2 DEF IInv, GroupsThere
        <5> QED
          BY <2>8, <5>1
      <4>3. CASE k = Len(order) + 1
        BY <3>2, <3>3, <3>4, <4>3
      <4> QED
        BY <4>1, <4>2, <4>3
    <3> QED
      BY <3>2, <3>4 DEF GroupsThere
  <2>10. case' \in Cases /\ done' \in 0 .. Len(case'.order)
    BY <1>2, <1>4, <2>1 DEF IInv
  <2> QED
    BY <1>4, <2>1, <2>8, <2>9, <2>10 DEF IInv
<1> QED
  BY <1>6, <1>7

LEMMA StepInv == ASSUME IInv, [Next]_vars PROVE IInv'
<1>1. CASE RefuseInputs
  BY <1>1 DEF IInv, RefuseInputs, LayersKept, LayersClosed, GroupsThere
<1>2. CASE AddGroup
  BY <1>2, AddGroupStep
<1>3. CASE WriteImage
  <2>1. UNCHANGED <<case, done, order, layers>> /\ InputsOk
    BY <1>3 DEF WriteImage
  <2>2. image' = Error \/ /\ validateBuilder(layers, case.stack.id, Stack.mixins, Lifecycle)
                          /\ image' \in WriteableImages(layers, order)
    BY <1>3 DEF WriteImage
  <2>3. InputsOk' = InputsOk /\ Stack' = Stack /\ Lifecycle' = Lifecycle
    BY <2>1 DEF InputsOk, Stack, Lifecycle
  <2>4. image' = Error \/ Written'
    BY <2>1, <2>2, <2>3 DEF Written
  <2> QED
    BY <2>1, <2>4 DEF IInv, LayersKept, LayersClosed, GroupsThere
<1>4. CASE UNCHANGED vars
  <2>1. UNCHANGED <<case, done, order, layers, image>>
    BY <1>4 DEF vars
  <2>2. InputsOk' = InputsOk /\ Stack' = Stack /\ Lifecycle' = Lifecycle
    BY <2>1 DEF InputsOk, Stack, Lifecycle
  <2>3. Written' <=> Written
    BY <2>1, <2>2 DEF Written
  <2> QED
    BY <2>1, <2>3 DEF IInv, LayersKept, LayersClosed, GroupsThere
<1> QED
  BY <1>1, <1>2, <1>3, <1>4 DEF Next

\* While a builder is put together, and in the image written, the layers are offers of
\* the sources under their keys, with a buildpack for whatever the order names and for
\* every entry of the orders of meta-buildpacks; an image was validated against its
\* stack and lifecycle.
THEOREM BuilderInvariant == Spec => []IInv
<1>1. Init => IInv
  <2> SUFFICES ASSUME Init PROVE IInv
    OBVIOUS
  <2>1. case \in Cases /\ done = 0 /\ order = <<>> /\ layers = NoLayers /\ image = NotYet
    BY DEF Init
  <2>2. DOMAIN layers = {}
    BY <2>1 DEF NoLayers
  <2>3. Len(case.order) \in Nat
    BY <2>1, CaseIs, ListIs
  <2>4. LayersKept /\ LayersClosed
    BY <2>2, FS_EmptySet DEF LayersKept, LayersClosed
  <2>5. GroupsThere
    BY <2>1, EmptyList DEF GroupsThere
  <2> QED
    BY <2>1, <2>3, <2>4, <2>5 DEF IInv
<1>2. IInv /\ [Next]_vars => IInv'
  BY StepInv
<1> QED
  BY <1>1, <1>2, PTL DEF Spec

---------------------------------------------------------------------------
(* What an image holds. *)

\* The layers of a written image: those of all buildpacks, each once.
LEMMA ImageLayers ==
    ASSUME IInv, Written
    PROVE  /\ IsList(image.layers) /\ Once(image.layers)
           /\ \A key \in DOMAIN layers : layers[key].diff \in Range(image.layers)
<1>1. PICK s \in SortedBySize(layers) :
        image = [ok |-> TRUE, order |-> order, buildpacks |-> s,
                 layers |-> deduplicateLayers(LayersBefore \o [k \in 1..Len(s) |-> layers[s[k]].diff]
                                                           \o LayersAfter)]
  BY DEF Written, WriteableImages
<1> DEFINE diffs == [k \in 1..Len(s) |-> layers[s[k]].diff]
           front == LayersBefore \o diffs
           all == front \o LayersAfter
<1>2. IsList(s) /\ Range(s) = DOMAIN layers
  <2>1. s \in SetToSeqs(DOMAIN layers) /\ IsFiniteSet(DOMAIN layers)
    BY DEF SortedBySize, IInv, LayersKept
  <2> QED
    BY <2>1, Orders
<1>3. Len(s) \in Nat /\ DOMAIN s = 1 .. Len(s)
  BY <1>2, ListIs
<1>4. IsList(diffs) /\ DOMAIN diffs = 1 .. Len(s)
  BY <1>3, FunctionIsList
<1>5. \A key \in DOMAIN layers : layers[key].diff \in Range(diffs)
  BY <1>2, <1>3 DEF Range
<1>6. IsList(LayersBefore) /\ IsList(LayersAfter)
  BY DEF LayersBefore, LayersAfter, IsList, Range
<1>7. image.layers = Distinct(all)
  BY <1>1 DEF deduplicateLayers
<1> HIDE DEF diffs
<1>8. IsList(front) /\ Range(diffs) \subseteq Range(front)
  BY <1>4, <1>6, Joined
<1> HIDE DEF front
<1>9. IsList(all) /\ Range(front) \subseteq Range(all)
  BY <1>6, <1>8, Joined
<1> HIDE DEF all
<1>10. IsList(Distinct(all)) /\ Range(Distinct(all)) = Range(all) /\ Once(Distinct(all))
  BY <1>9, DistinctElements
<1> QED
  BY <1>5, <1>7, <1>8, <1>9, <1>10

\* Every builder image is complete: what its order names is in it at that version, so
\* is a buildpack for every entry of the orders of its meta-buildpacks, and each layer
\* is there once, whatever the sources offer and however deep the orders are.
THEOREM CompleteCorrect == Spec => []ImageIsComplete
<1>1. IInv => ImageIsComplete
  <2> SUFFICES ASSUME IInv, image.ok PROVE ImageIsComplete
    BY DEF ImageIsComplete, ImageIsClosed, LayersAreDistinct
  <2>1. Written
    BY DEF IInv, NotYet, Error
  <2>2. image.order = order
    BY <2>1, ImagesAreOk DEF Written
  <2>3. /\ IsList(image.layers) /\ Once(image.layers)
        /\ \A key \in DOMAIN layers : layers[key].diff \in Range(image.layers)
    BY <2>1, ImageLayers
  <2>4. DOMAIN image.layers = 1 .. Len(image.layers)
    BY <2>3, ListIs
  <2>5. \A key \in DOMAIN layers : Contains(image.layers, layers[key].diff)
    BY <2>3, <2>4 DEF Contains, Range
  <2>6. ImageIsClosed
    BY <2>2, <2>5 DEF ImageIsClosed, IInv, LayersClosed, GroupsThere
  <2>7. LayersAreDistinct
    BY <2>3, <2>4 DEF LayersAreDistinct, Once
  <2> QED
    BY <2>6, <2>7 DEF ImageIsComplete
<1> QED
  BY <1>1, BuilderInvariant, PTL

\* The mixins a stack is read to provide are there where their stage says.
LEMMA StackProvides ==
    ASSUME Stack.ok, NEW x, DOMAIN x = {"name", "stage"}, NEW relaxed,
           mixinPresent(Stack.mixins, x, relaxed)
    PROVE  /\ x.stage \in {"", "build"} =>
                \E y \in case.stack.build.mixins : y.name = x.name /\ y.stage \in {"", "build"}
           /\ x.stage \in {"", "run"} =>
                \E y \in case.stack.run.mixins : y.name = x.name /\ y.stage \in {"", "run"}
<1> DEFINE build == case.stack.build.mixins
           run == case.stack.run.mixins
           provided == Stack.mixins
           There(n, stage) == /\ stage \in {"", "build"} =>
                                   \E y \in build : y.name = n /\ y.stage \in {"", "build"}
                              /\ stage \in {"", "run"} =>
                                   \E y \in run : y.name = n /\ y.stage \in {"", "run"}
<1>1. /\ provided = InStage(build, "") \cup InStage(build, "build") \cup InStage(run, "run")
      /\ InStage(build, "") \subseteq InStage(run, "")
  <2>1. Stack = StackMixins(build, run)
    BY DEF Stack, ReadStack, Error
  <2> QED
    BY <2>1 DEF StackMixins, Error
<1>2. ASSUME NEW y \in provided
      PROVE  There(y.name, y.stage) /\ (y.stage = "" => \A stage : There(y.name, stage))
  BY <1>1 DEF InStage
<1> HIDE DEF provided, There
<1>3. CASE x \in provided
  BY <1>2, <1>3 DEF There
<1>4. CASE x.stage # "" /\ [x EXCEPT !.stage = ""] \in provided
  <2> DEFINE y == [x EXCEPT !.stage = ""]
  <2>1. y \in provided /\ y.name = x.name /\ y.stage = ""
    BY <1>4
  <2> HIDE DEF y
  <2>2. There(x.name, x.stage)
    BY <1>2, <2>1
  <2> QED
    BY <2>2 DEF There
<1>5. CASE /\ x.stage = ""
           /\ [x EXCEPT !.stage = "build"] \in provided /\ [x EXCEPT !.stage = "run"] \in provided
  <2> DEFINE y == [x EXCEPT !.stage = "build"]
             z == [x EXCEPT !.stage = "run"]
  <2>1. y \in provided /\ y.name = x.name /\ y.stage = "build"
    BY <1>5
  <2>2. z \in provided /\ z.name = x.name /\ z.stage = "run"
    BY <1>5
  <2> HIDE DEF y, z
  <2>3. There(x.name, "build") /\ There(x.name, "run")
    BY <1>2, <2>1, <2>2
  <2> QED
    BY <2>3 DEF There
<1> QED
  BY <1>3, <1>4, <1>5 DEF mixinPresent, provided

\* Every builder image has the mixins its buildpacks need where they need them, under
\* the strict and under the relaxed contract.
THEOREM MixinsCorrect == Spec => []MixinsAreThere
<1>1. IInv => MixinsAreThere
  <2> SUFFICES ASSUME IInv, image.ok, NEW key \in DOMAIN layers, NEW k \in 1 .. Len(layers[key].stacks),
                      layers[key].order = <<>>, Len(layers[key].stacks) = 1,
                      NEW x \in layers[key].stacks[k].mixins
               PROVE  /\ x.stage \in {"", "build"} =>
                           \E y \in case.stack.build.mixins : y.name = x.name /\ y.stage \in {"", "build"}
                      /\ x.stage \in {"", "run"} =>
                           \E y \in case.stack.run.mixins : y.name = x.name /\ y.stage \in {"", "run"}
    BY DEF MixinsAreThere
  <2> DEFINE o == layers[key]
  <2>1. Written
    BY DEF IInv, NotYet, Error
  <2>2. AreSources(case.sources) /\ o \in Offers(case.sources)
    BY CaseIs DEF IInv, LayersKept
  <2>3. /\ IsList(o.stacks)
        /\ \A s \in Range(o.stacks) : \A y \in s.mixins : DOMAIN y = {"name", "stage"}
    BY <2>2, OffersTyped
  <2>4. k = 1 /\ o.stacks # <<>> /\ o.stacks[1] \in Range(o.stacks)
    BY <2>3, ListIs
  <2>5. DOMAIN x = {"name", "stage"}
    BY <2>3, <2>4
  <2>6. PICK apis, relaxed : supports(o, apis, case.stack.id, Stack.mixins, relaxed)
    BY <2>1 DEF Written, validateBuilder
  <2> DEFINE places == {i \in 1 .. Len(o.stacks) : \/ o.stacks[i].id = case.stack.id
                                                   \/ /\ o.stacks[i].id = AnyStack
                                                      /\ o.api >= AnyStackMinimumVersion}
             fits == IF places # {} THEN Min(places) ELSE 0
  <2>7. /\ fits # 0
        /\ \A y \in o.stacks[fits].mixins : mixinPresent(Stack.mixins, y, relaxed)
    BY <2>4, <2>6 DEF supports, SelectInSeq
  <2>8. fits = 1
    <3>1. places # {}
      BY <2>7
    <3>2. places \in SUBSET Nat /\ places \in SUBSET {1}
      OBVIOUS
    <3> HIDE DEF places
    <3>3. Min(places) \in places
      BY <3>1, <3>2, FirstOf
    <3> QED
      BY <3>1, <3>2, <3>3
  <2> HIDE DEF fits, places
  <2>9. mixinPresent(Stack.mixins, x, relaxed)
    BY <2>4, <2>7, <2>8
  <2>10. Stack.ok
    BY <2>1 DEF Written, InputsOk
  <2> HIDE DEF o
  <2> QED
    BY <2>5, <2>9, <2>10, StackProvides
<1> QED
  BY <1>1, BuilderInvariant, PTL

---------------------------------------------------------------------------
(* What an image depends on. *)

\* An order of a finite set, as a function on its places.
LEMMA OrderIs ==
    ASSUME NEW S, IsFiniteSet(S), NEW s \in SetToSeqs(S)
    PROVE  /\ Cardinality(S) \in Nat /\ DOMAIN s = 1 .. Cardinality(S) /\ IsList(s)
           /\ Once(s) /\ Range(s) = S /\ s = [i \in 1 .. Cardinality(S) |-> s[i]]
<1>1. Cardinality(S) \in Nat
  BY FS_CardinalityType
<1>2. /\ s \in [1 .. Cardinality(S) -> S]
      /\ \A i, j \in 1 .. Cardinality(S) : i # j => s[i] # s[j]
  BY DEF SetToSeqs
<1>3. IsList(s) /\ Range(s) = S
  BY Orders
<1> QED
  BY <1>1, <1>2, <1>3 DEF Once

\* Size and text tell the buildpacks of an image apart.
LEMMA SizesSortOnce ==
    ASSUME IInv, Unambiguous(case.sources),
           NEW s \in SortedBySize(layers), NEW t \in SortedBySize(layers)
    PROVE  s = t
<1> DEFINE keys == DOMAIN layers
           n == Cardinality(keys)
           before == {e \in keys \X keys : SortsBefore(layers[e[1]], layers[e[2]])}
<1>1. IsFiniteSet(keys) /\ \A key \in keys : layers[key] \in Offers(case.sources) /\ Key(layers[key]) = key
  BY DEF IInv, LayersKept
<1>2. /\ s \in SetToSeqs(keys) /\ t \in SetToSeqs(keys)
      /\ \A i, j \in 1 .. Len(s) : SortsBefore(layers[s[i]], layers[s[j]]) => i < j
      /\ \A i, j \in 1 .. Len(t) : SortsBefore(layers[t[i]], layers[t[j]]) => i < j
  BY DEF SortedBySize
<1>3. /\ n \in Nat /\ DOMAIN s = 1 .. n /\ Once(s) /\ Range(s) = keys /\ IsList(s)
      /\ DOMAIN t = 1 .. n /\ Once(t) /\ Range(t) = keys /\ IsList(t)
      /\ s = [i \in 1 .. n |-> s[i]] /\ t = [i \in 1 .. n |-> t[i]]
  BY <1>1, <1>2, OrderIs
<1>4. Len(s) = n /\ Len(t) = n
  BY <1>3, FunctionIsList
<1>5. ASSUME NEW x \in keys, NEW y \in keys, x # y
      PROVE  SortsBefore(layers[x], layers[y]) \/ SortsBefore(layers[y], layers[x])
  <2> DEFINE o == layers[x]
             p == layers[y]
  <2>1. o \in Offers(case.sources) /\ p \in Offers(case.sources) /\ Key(o) = x /\ Key(p) = y
    BY <1>1
  <2>2. AreSources(case.sources)
    BY CaseIs DEF IInv
  <2>3. /\ o.id \in Nat /\ o.version \in Nat /\ o.size \in Nat
        /\ p.id \in Nat /\ p.version \in Nat /\ p.size \in Nat
    BY <2>1, <2>2, OffersTyped
  <2>4. ~(o.id = p.id /\ o.version = p.version)
    <3>1. ASSUME o.id = p.id, o.version = p.version PROVE FALSE
      <4>1. Text(o) = Text(p)
        BY <3>1 DEF Text
      <4>2. o.page = p.page
        BY <2>1, <4>1 DEF Unambiguous
      <4>3. Key(o) = Key(p)
        BY <3>1, <4>2 DEF Key
      <4> QED
        BY <1>5, <2>1, <4>3
    <3> QED
      BY <3>1
  <2> HIDE DEF o, p
  <2>5. SortsBefore(o, p) \/ SortsBefore(p, o)
    BY <2>3, <2>4 DEF SortsBefore, TextBefore
  <2> QED
    BY <2>5 DEF o, p
<1> HIDE DEF keys, n
<1>6. TellsApart(before, Range(s)) /\ InOrder(before, s, n) /\ InOrder(before, t, n)
  BY <1>2, <1>3, <1>4, <1>5 DEF TellsApart, InOrder
<1> HIDE DEF before
<1>7. \A k \in 1 .. n : s[k] = t[k]
  <2>1. n \in Nat /\ DOMAIN s = 1 .. n /\ DOMAIN t = 1 .. n /\ Once(s) /\ Once(t) /\ Range(s) = Range(t)
    BY <1>3
  <2> QED
    BY <1>6, <2>1, SortedAlike
<1> QED
  BY <1>3, <1>7

\* Text and store image tell the offers of a store apart.
LEMMA StoreOrder ==
    ASSUME NEW offers, AreOffers(offers), ListedOnce(offers)
    PROVE  LET before == {e \in Range(offers) \X Range(offers) : StoreBefore(e[1], e[2])}
           IN  /\ \A x \in Range(offers) : <<x, x>> \notin before
               /\ TellsApart(before, Range(offers))
               /\ \A x, y, z \in Range(offers) :
                    <<x, y>> \in before /\ <<y, z>> \in before => <<x, z>> \in before
<1> DEFINE S == Range(offers)
           before == {e \in S \X S : StoreBefore(e[1], e[2])}
<1>1. \A x \in S : x.id \in Nat /\ x.version \in Nat /\ x.image \in Nat
  BY DEF AreOffers
<1>2. \A x, y \in S : <<x, y>> \in before <=>
        \/ x.id < y.id \/ (x.id = y.id /\ x.version < y.version)
        \/ x.id = y.id /\ x.version = y.version /\ x.image < y.image
  BY DEF StoreBefore, TextBefore, Text
<1>3. \A x, y \in S : x.id = y.id /\ x.version = y.version /\ x.image = y.image => x = y
  BY DEF ListedOnce
<1> HIDE DEF S, before
<1>4. \A x \in S : <<x, x>> \notin before
  BY <1>1, <1>2
<1>5. TellsApart(before, S)
  BY <1>1, <1>2, <1>3 DEF TellsApart
<1>6. ASSUME NEW x \in S, NEW y \in S, NEW z \in S, <<x, y>> \in before, <<y, z>> \in before
      PROVE  <<x, z>> \in before
  BY <1>1, <1>2, <1>6
<1> QED
  BY <1>4, <1>5, <1>6 DEF S, before

\* Whatever the offers of a store arrive as, one list is kept.
LEMMA StoreReadOnce ==
    ASSUME NEW offers, AreOffers(offers), ListedOnce(offers)
    PROVE  Cardinality(UNION {StoreReader(arrived) : arrived \in SetToSeqs(Range(offers))}) = 1
<1> DEFINE S == Range(offers)
           n == Cardinality(S)
           before == {e \in S \X S : StoreBefore(e[1], e[2])}
           all == UNION {StoreReader(arrived) : arrived \in SetToSeqs(S)}
<1>1. IsFiniteSet(S)
  BY FiniteRange DEF AreOffers
<1>2. /\ \A x \in S : <<x, x>> \notin before
      /\ TellsApart(before, S)
      /\ \A x, y, z \in S : <<x, y>> \in before /\ <<y, z>> \in before => <<x, z>> \in before
  BY StoreOrder
<1>3. \A x, y \in S : <<x, y>> \in before <=> StoreBefore(x, y)
  OBVIOUS
<1>4. n \in Nat
  BY <1>1, FS_CardinalityType
<1>5. IsFiniteSet(1 .. n) /\ Cardinality(1 .. n) = n
  BY <1>4, FS_Interval
<1> HIDE DEF before
<1>6. ASSUME NEW a \in SetToSeqs(S), NEW list \in StoreReader(a)
      PROVE  /\ DOMAIN list = 1 .. n /\ Once(list) /\ Range(list) = S
             /\ list = [i \in 1 .. n |-> list[i]]
             /\ InOrder(before, list, n)
  <2>1. DOMAIN a = 1 .. n /\ Once(a) /\ Range(a) = S
    BY <1>1, OrderIs
  <2>2. PICK p \in SetToSeqs(1 .. n) : list = [i \in 1 .. n |-> a[p[i]]]
    BY <2>1 DEF StoreReader
  <2>3. \A i, j \in DOMAIN list : StoreBefore(list[i], list[j]) => i < j
    BY DEF StoreReader
  <2>4. DOMAIN p = 1 .. n /\ Once(p) /\ Range(p) = 1 .. n
    BY <1>5, <2>2, OrderIs
  <2>5. \A i \in 1 .. n : p[i] \in 1 .. n /\ list[i] = a[p[i]]
    BY <2>2, <2>4 DEF Range
  <2>6. DOMAIN list = 1 .. n /\ list = [i \in 1 .. n |-> list[i]]
    BY <2>2
  <2>7. Once(list)
    BY <2>1, <2>4, <2>5, <2>6 DEF Once
  <2>8. Range(list) = S
    <3>1. \A x \in S : \E i \in 1 .. n : x = a[i]
      BY <2>1 DEF Range
    <3>2. \A i \in 1 .. n : \E k \in 1 .. n : p[k] = i
      BY <2>4 DEF Range
    <3>3. \A i \in 1 .. n : a[i] \in S
      BY <2>1 DEF Range
    <3> HIDE DEF S
    <3>4. ASSUME NEW x \in S PROVE x \in Range(list)
      BY <2>5, <2>6, <3>1, <3>2 DEF Range
    <3>5. ASSUME NEW x \in Range(list) PROVE x \in S
      BY <2>5, <2>6, <3>3 DEF Range
    <3> QED
      BY <3>4, <3>5
  <2>9. InOrder(before, list, n)
    <3>1. \A i \in 1 .. n : list[i] \in S
      BY <2>6, <2>8 DEF Range
    <3> QED
      BY <1>3, <2>3, <2>6, <3>1 DEF InOrder
  <2> QED
    BY <2>6, <2>7, <2>8, <2>9
<1> HIDE DEF S, n
<1>7. ASSUME NEW l \in all, NEW m \in all PROVE l = m
  <2>1. PICK a \in SetToSeqs(S) : l \in StoreReader(a)
    OBVIOUS
  <2>2. PICK b \in SetToSeqs(S) : m \in StoreReader(b)
    OBVIOUS
  <2>3. /\ DOMAIN l = 1 .. n /\ Once(l) /\ Range(l) = S /\ l = [i \in 1 .. n |-> l[i]]
        /\ InOrder(before, l, n)
    BY <1>6, <2>1
  <2>4. /\ DOMAIN m = 1 .. n /\ Once(m) /\ Range(m) = S /\ m = [i \in 1 .. n |-> m[i]]
        /\ InOrder(before, m, n)
    BY <1>6, <2>2
  <2>5. \A k \in 1 .. n : l[k] = m[k]
    <3>1. /\ n \in Nat /\ DOMAIN l = 1 .. n /\ DOMAIN m = 1 .. n /\ Once(l) /\ Once(m)
          /\ Range(l) = Range(m) /\ TellsApart(before, Range(l))
          /\ InOrder(before, l, n) /\ InOrder(before, m, n)
      BY <1>2, <1>4, <2>3, <2>4
    <3> QED
      BY <3>1, SortedAlike
  <2> QED
    BY <2>3, <2>4, <2>5
<1>8. PICK l : l \in all
  <2>1. PICK a : a \in SetToSeqs(S)
    BY <1>1, Orders
  <2>2. DOMAIN a = 1 .. n /\ IsList(a) /\ Once(a) /\ Range(a) = S
    BY <1>1, <2>1, OrderIs DEF n
  <2>3. PICK p \in SetToSeqs(DOMAIN a) :
          \A i, j \in DOMAIN a : <<a[p[i]], a[p[j]]>> \in before => i < j
    BY <1>2, <2>2, CanBeSorted
  <2>4. Range(p) = 1 .. n /\ DOMAIN p = 1 .. n
    BY <1>5, <2>2, <2>3, OrderIs
  <2>5. \A i \in 1 .. n : a[p[i]] \in S
    BY <2>2, <2>4 DEF Range
  <2> DEFINE list == [i \in DOMAIN a |-> a[p[i]]]
  <2>6. \A i, j \in DOMAIN list : StoreBefore(list[i], list[j]) => i < j
    BY <1>3, <2>2, <2>3, <2>5
  <2>7. list \in StoreReader(a)
    BY <2>3, <2>6 DEF StoreReader
  <2> QED
    BY <2>1, <2>7
<1>9. all = {l}
  BY <1>7, <1>8, Zenon
<1>10. Cardinality({l}) = 1
  BY FS_Singleton
<1> QED
  BY <1>9, <1>10 DEF S

\* The image written, what each reference resolves to and the list kept of a store are
\* the same whatever order objects are listed in, images answer in and maps are walked
\* in, unless an id and version is offered with two contents.
THEOREM DeterminismCorrect == Spec => []ImageIsDeterministic
<1>1. IInv => ImageIsDeterministic
  <2> SUFFICES ASSUME IInv PROVE ImageIsDeterministic
    OBVIOUS
  <2>1. /\ AreSources(case.sources)
        /\ DOMAIN case.sources = {"buildpacks", "clusterBuildpacks", "store"}
        /\ NamesDiffer(case.sources.buildpacks) /\ NamesDiffer(case.sources.clusterBuildpacks)
        /\ \A o \in Range(case.sources.store) : ListedOnce(o.offers)
    BY CaseIs DEF IInv
  <2>2. ASSUME image.ok, Unambiguous(case.sources) PROVE WriteableImages(layers, order) = {image}
    <3>1. image \in WriteableImages(layers, order)
      BY <2>2 DEF IInv, NotYet, Error, Written
    <3>2. \A s, t \in SortedBySize(layers) : s = t
      BY <2>2, SizesSortOnce
    <3>3. \A i, j \in WriteableImages(layers, order) : i = j
      BY <3>2 DEF WriteableImages
    <3> QED
      BY <3>1, <3>3, Zenon
  <2>3. ResolutionIgnoresListingOrder
    <3> SUFFICES ASSUME Unambiguous(case.sources), NEW ref \in References(case),
                        NEW listed \in SetToSeqs(Range(case.sources.buildpacks)),
                        NEW others \in SetToSeqs(Range(case.sources.clusterBuildpacks))
                 PROVE  Agree(resolve(case.sources, ref),
                              resolve([case.sources EXCEPT !.buildpacks = listed,
                                                           !.clusterBuildpacks = others], ref))
      BY DEF ResolutionIgnoresListingOrder, Agree
    <3>1. IsFiniteSet(Range(case.sources.buildpacks)) /\ IsFiniteSet(Range(case.sources.clusterBuildpacks))
      BY <2>1, FiniteRange DEF AreSources, AreObjects
    <3>2. /\ IsList(listed) /\ Range(listed) = Range(case.sources.buildpacks)
          /\ IsList(others) /\ Range(others) = Range(case.sources.clusterBuildpacks)
      BY <3>1, Orders
    <3> QED
      BY <2>1, <3>2, ResolutionAlike
  <2>4. StoreReadIsDeterministic
    <3> SUFFICES ASSUME NEW o \in Range(case.sources.store)
                 PROVE  Cardinality(UNION {StoreReader(arrived) :
                                              arrived \in SetToSeqs(Range(o.offers))}) = 1
      BY DEF StoreReadIsDeterministic
    <3>1. AreOffers(o.offers) /\ ListedOnce(o.offers)
      BY <2>1 DEF AreSources, AreObjects
    <3> QED
      BY <3>1, StoreReadOnce
  <2> QED
    BY <2>2, <2>3, <2>4 DEF ImageIsDeterministic
<1> QED
  BY <1>1, BuilderInvariant, PTL
=============================================================================
