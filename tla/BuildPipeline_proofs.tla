------------------------ MODULE BuildPipeline_proofs ------------------------
(***************************************************************************)
(* What a build is given, reports and signs, for every Build and cluster   *)
(* and however the source and the tags move meanwhile: the workspace is    *)
(* what the archive lists for it and the environment that of the Build;    *)
(* the places that read secrets agree on the credential, but for a pull    *)
(* secret that takes the place of the node's; the attestation names        *)
(* the source that was unpacked and the image that was exported; and a     *)
(* build is reported only when all its keys have signed that image.        *)
(***************************************************************************)
EXTENDS BuildPipeline, TLAPS, FiniteSetTheorems, WellFoundedInduction

---------------------------------------------------------------------------
(* The inductive invariant. *)

Exported == {"completion", "cosign", "notary", "metadata", "attest", "done"}

\* The records keep their fields, and the case is one of the cases.
Shape ==
    /\ case \in Cases
    /\ DOMAIN out = {"tree", "fetched", "meta", "env", "saved"}
    /\ DOMAIN signed = {"signatures", "targets", "repositoryEnv"}
    /\ DOMAIN report = {"image", "attested"}

\* What was unpacked goes into the metadata, from there into the label and from the
\* label into the provenance; the digest that was exported goes into the report.
Recorded ==
    /\ pc = "rebase" => case.rebase
    /\ pc \in {"descriptor", "save", "export"} => out.meta = out.fetched
    /\ pc \in Exported => /\ image.digest = Built /\ image.tags = case.tags
                          /\ ~case.rebase => image.label = out.fetched
    /\ pc \in {"attest", "done"} => report.image = Built
    /\ pc = "done" => /\ report.attested.statement.subject = Built
                      /\ ~case.rebase => report.attested.statement.source = out.fetched

\* A signature of the key in a secret, in the repository of the secret.
Signature(s) == <<s.name, Built, s.repo>>

\* The targets of all tags of a list.
Targets(tags) == {<<t, Built>> : t \in Range(tags)}

\* The keys are secrets of the cluster; signatures are those of the keys and targets
\* those of the tags, all of them when the step that makes them is over.
Signing ==
    /\ \A s \in pod.cosign : \E n \in DOMAIN case.cluster : s = case.cluster[n]
    /\ signed.repositoryEnv = ""
    /\ pc = "generate" => signed.signatures = {}
    /\ \A sig \in signed.signatures : \E s \in pod.cosign : sig = Signature(s)
    /\ pc \in {"notary", "metadata", "attest", "done"} =>
         \A s \in pod.cosign : Signature(s) \in signed.signatures
    /\ signed.targets \subseteq Targets(case.tags)
    /\ pc \in {"metadata", "attest", "done"} /\ case.notary # "" =>
         signed.targets = Targets(case.tags)

IInv == Shape /\ Recorded /\ Signing

---------------------------------------------------------------------------
(* Numbers and lists. *)

LEMMA LessIsWellFounded == IsWellFoundedOn({ss \in Nat \X Nat : ss[1] < ss[2]}, Nat)
  BY NatLessThanWellFounded, Zenon DEF OpToRel

\* A set of numbers has a least one.
LEMMA Least ==
    ASSUME NEW S \in SUBSET Nat, S # {} PROVE \E m \in S : \A n \in S : m <= n
<1> DEFINE less == {ss \in Nat \X Nat : ss[1] < ss[2]}
<1>1. PICK m \in S : \A n \in S : <<n, m>> \notin less
  <2>1. IsWellFoundedOn(less, Nat)
    BY LessIsWellFounded
  <2> HIDE DEF less
  <2> QED
    BY <2>1, WFMin
<1>2. ASSUME NEW n \in S PROVE m <= n
  <2>1. <<n, m>> \in Nat \X Nat /\ ~(n < m)
    BY <1>1
  <2> QED
    BY <2>1
<1> QED
  BY <1>2

\* Induction up to a number: what has 0, and with a number the next one, has them all.
LEMMA Upto ==
    ASSUME NEW n \in Nat, NEW S, 0 \in S, \A k \in 0 .. n - 1 : k \in S => k + 1 \in S
    PROVE  \A k \in 0 .. n : k \in S
<1> DEFINE rest == (0 .. n) \ S
<1> SUFFICES ASSUME rest # {} PROVE FALSE
  OBVIOUS
<1>1. PICK m \in rest : \A k \in rest : m <= k
  <2>1. rest \in SUBSET Nat
    OBVIOUS
  <2> HIDE DEF rest
  <2> QED
    BY <2>1, Least
<1>2. m \in 1 .. n /\ m - 1 \in 0 .. n - 1 /\ m - 1 \notin rest
  BY <1>1
<1> QED
  BY <1>1, <1>2

LEMMA LastOf ==
    ASSUME NEW k \in Nat, NEW t \in SUBSET (1 .. k + 1), k + 1 \in t PROVE Max(t) = k + 1
<1>1. \A y \in t : k + 1 >= y
  OBVIOUS
<1>2. \A x \in t : (\A y \in t : x >= y) => x = k + 1
  OBVIOUS
<1> QED
  BY <1>1, <1>2 DEF Max

\* The first places of a list.
LEMMA Places ==
    ASSUME NEW n \in Nat, NEW i \in 1 .. n
    PROVE  /\ Max(1 .. i) = i /\ (1 .. i) \ {i} = 1 .. i - 1
           /\ 1 .. i # {} /\ 1 .. i \in SUBSET (1 .. n)
<1>1. i - 1 \in Nat /\ i \in 1 .. (i - 1) + 1 /\ (i - 1) + 1 = i
  OBVIOUS
<1>2. Max(1 .. i) = i
  <2>1. 1 .. i \in SUBSET (1 .. (i - 1) + 1)
    BY <1>1
  <2> QED
    BY <1>1, <2>1, LastOf
<1>3. (1 .. i) \ {i} = 1 .. i - 1
  OBVIOUS
<1>4. \A x \in 1 .. i : x \in 1 .. n
  OBVIOUS
<1> QED
  BY <1>1, <1>2, <1>3, <1>4

LEMMA ListIs ==
    ASSUME NEW s, IsList(s)
    PROVE  Len(s) \in Nat /\ DOMAIN s = 1 .. Len(s) /\ \A i \in 1 .. Len(s) : s[i] \in Range(s)
<1>1. Len(s) \in Nat /\ DOMAIN s = 1 .. Len(s)
  BY DEF IsList
<1> QED
  BY <1>1 DEF Range

LEMMA FunctionIsList ==
    ASSUME NEW s, NEW n \in Nat, s = [i \in 1 .. n |-> s[i]]
    PROVE  IsList(s) /\ Len(s) = n
<1>1. \A i \in 1 .. n : s[i] \in Range(s)
  BY DEF Range
<1>2. s \in [1 .. n -> Range(s)]
  BY <1>1
<1>3. s \in Seq(Range(s))
  BY <1>2
<1> QED
  BY <1>2, <1>3 DEF IsList

LEMMA Joined ==
    ASSUME NEW s, NEW t, IsList(s), IsList(t)
    PROVE  /\ IsList(s \o t) /\ Range(s \o t) = Range(s) \cup Range(t)
           /\ Len(s \o t) = Len(s) + Len(t)
           /\ \A i \in 1 .. Len(s) : (s \o t)[i] = s[i]
           /\ \A i \in 1 .. Len(t) : (s \o t)[Len(s) + i] = t[i]
<1> DEFINE both == Range(s) \cup Range(t)
           u == s \o t
<1>1. Len(s) \in Nat /\ DOMAIN s = 1 .. Len(s) /\ Len(t) \in Nat /\ DOMAIN t = 1 .. Len(t)
  BY ListIs
<1>2. s \in Seq(both) /\ t \in Seq(both)
  <2>1. s \in Seq(Range(s)) /\ t \in Seq(Range(t))
    BY DEF IsList
  <2> QED
    BY <2>1, ListIs
<1> HIDE DEF both
<1>3. /\ u \in Seq(both) /\ Len(u) = Len(s) + Len(t)
      /\ \A i \in 1 .. Len(s) : u[i] = s[i]
      /\ \A i \in 1 .. Len(t) : u[Len(s) + i] = t[i]
  BY <1>1, <1>2
<1> HIDE DEF u
<1>4. Len(u) \in Nat /\ DOMAIN u = 1 .. Len(u) /\ u = [i \in 1 .. Len(u) |-> u[i]]
  BY <1>3
<1>5. IsList(u)
  BY <1>1, <1>3, <1>4, FunctionIsList
<1>6. Range(u) = both
  <2>1. ASSUME NEW x \in Range(s) PROVE x \in Range(u)
    <3>1. PICK i \in 1 .. Len(s) : x = s[i]
      BY <1>1 DEF Range
    <3> QED
      BY <1>1, <1>3, <1>4, <3>1 DEF Range
  <2>2. ASSUME NEW x \in Range(t) PROVE x \in Range(u)
    <3>1. PICK i \in 1 .. Len(t) : x = t[i]
      BY <1>1 DEF Range
    <3>2. Len(s) + i \in 1 .. Len(u)
      BY <1>1, <1>3
    <3> QED
      BY <1>3, <1>4, <3>1, <3>2 DEF Range
  <2>3. ASSUME NEW x \in Range(u) PROVE x \in both
    BY <1>3, <1>4 DEF Range
  <2> QED
    BY <2>1, <2>2, <2>3 DEF both
<1> QED
  BY <1>3, <1>5, <1>6 DEF both, u

\* FlattenSeq joins the lists of a list one after the other.
LEMMA Flattened ==
    ASSUME NEW s, IsList(s), \A i \in DOMAIN s : IsList(s[i])
    PROVE  \E f : /\ f[0] = <<>> /\ \A i \in 1 .. Len(s) : f[i] = f[i - 1] \o s[i]
                  /\ \A i \in 0 .. Len(s) : IsList(f[i])
                  /\ FlattenSeq(s) = f[Len(s)]
<1> DEFINE n == Len(s)
           Eq(g, k) == g = [i \in 1 .. k |-> IF i = 1 THEN s[i] ELSE g[i - 1] \o s[i]]
           P == {k \in 0 .. n : \E g : Eq(g, k)}
           flat == CHOOSE g : Eq(g, n)
           f == [i \in 0 .. n |-> IF i = 0 THEN <<>> ELSE flat[i]]
<1>1. n \in Nat /\ DOMAIN s = 1 .. n /\ (n = 0 => s = <<>>)
  BY ListIs DEF IsList
<1>2. FlattenSeq(s) = IF n = 0 THEN s ELSE flat[n]
  BY DEF FlattenSeq
<1>3. 0 \in P
  <2> DEFINE none == [i \in 1 .. 0 |-> s[i]]
  <2>1. Eq(none, 0)
    OBVIOUS
  <2>2. 0 \in 0 .. n
    BY <1>1
  <2> HIDE DEF none
  <2> QED
    BY <2>1, <2>2
<1>4. ASSUME NEW k \in 0 .. n - 1, k \in P PROVE k + 1 \in P
  <2>1. PICK g : Eq(g, k)
    BY <1>4
  <2> DEFINE h == [i \in 1 .. k + 1 |-> IF i = 1 THEN s[i]
                                        ELSE IF i = k + 1 THEN g[k] \o s[i] ELSE g[i]]
  <2>2. Eq(h, k + 1)
    <3>1. ASSUME NEW i \in 1 .. k + 1, i # 1 PROVE h[i] = h[i - 1] \o s[i]
      <4>1. i - 1 \in 1 .. k /\ (i = k + 1 => i - 1 = k)
        BY <3>1, <1>1
      <4>2. h[i - 1] = g[i - 1]
        BY <4>1, <2>1
      <4>3. CASE i = k + 1
        BY <3>1, <4>1, <4>2, <4>3
      <4>4. CASE i # k + 1
        <5>1. i \in 1 .. k
          BY <4>4, <1>1
        <5> QED
          BY <2>1, <3>1, <4>2, <4>4, <5>1
      <4> QED
        BY <4>3, <4>4
    <3>2. h[1] = s[1]
      BY <1>1
    <3> HIDE DEF h
    <3>3. h = [i \in 1 .. k + 1 |-> h[i]]
      BY DEF h
    <3>4. \A i \in 1 .. k + 1 : h[i] = IF i = 1 THEN s[i] ELSE h[i - 1] \o s[i]
      BY <3>1, <3>2
    <3> QED
      BY <3>3, <3>4
  <2>3. k + 1 \in 0 .. n
    BY <1>1
  <2> HIDE DEF h
  <2> QED
    BY <2>2, <2>3
<1>5. Eq(flat, n)
  <2> HIDE DEF P
  <2>1. n \in P
    <3>1. \A k \in 0 .. n - 1 : k \in P => k + 1 \in P
      BY <1>4
    <3>2. n \in 0 .. n
      BY <1>1
    <3> HIDE DEF n
    <3> QED
      BY <1>1, <1>3, <3>1, <3>2, Upto
  <2> QED
    BY <2>1 DEF P
<1> HIDE DEF flat
<1>6. f[0] = <<>> /\ FlattenSeq(s) = f[n]
  BY <1>1, <1>2
<1>7. ASSUME NEW i \in 1 .. n PROVE f[i] = IF i = 1 THEN s[i] ELSE f[i - 1] \o s[i]
  <2>1. flat[i] = IF i = 1 THEN s[i] ELSE flat[i - 1] \o s[i]
    BY <1>5
  <2>2. i # 1 => i - 1 \in 1 .. n
    BY <1>1
  <2>3. f[i] = flat[i] /\ (i # 1 => f[i - 1] = flat[i - 1])
    BY <1>1, <2>2
  <2> QED
    BY <2>1, <2>3
<1>8. <<>> \o s[1] = s[1] \/ n = 0
  BY <1>1 DEF IsList
<1>9. ASSUME NEW i \in 1 .. n PROVE f[i] = f[i - 1] \o s[i]
  <2> HIDE DEF f
  <2>1. CASE i = 1
    <3>1. f[1] = s[1] /\ f[i - 1] = <<>> /\ n # 0
      BY <1>1, <1>6, <1>7, <2>1
    <3> QED
      BY <1>8, <2>1, <3>1
  <2>2. CASE i # 1
    BY <1>7, <2>2
  <2> QED
    BY <2>1, <2>2
<1> DEFINE Q == {k \in 0 .. n : IsList(f[k])}
<1>10. 0 \in Q
  BY <1>1, <1>6 DEF IsList, Range
<1>11. ASSUME NEW k \in 0 .. n - 1, k \in Q PROVE k + 1 \in Q
  <2> HIDE DEF f
  <2>1. k + 1 \in 1 .. n /\ k + 1 \in 0 .. n /\ (k + 1) - 1 = k
    BY <1>1
  <2>2. f[k + 1] = f[k] \o s[k + 1] /\ IsList(s[k + 1]) /\ IsList(f[k])
    BY <1>1, <1>9, <1>11, <2>1
  <2>3. IsList(f[k + 1])
    BY <2>2, Joined
  <2> QED
    BY <2>1, <2>3
<1>12. \A k \in 0 .. n : IsList(f[k])
  <2> HIDE DEF f
  <2>1. \A k \in 0 .. n - 1 : k \in Q => k + 1 \in Q
    BY <1>11
  <2>2. \A k \in 0 .. n : k \in Q
    <3> HIDE DEF Q, n
    <3> QED
      BY <1>1, <1>10, <2>1, Upto
  <2> QED
    BY <2>2
<1> HIDE DEF f
<1> QED
  BY <1>6, <1>9, <1>12

LEMMA EmptyList == IsList(<<>>) /\ Range(<<>>) = {} /\ Len(<<>>) = 0
  BY DEF IsList, Range

LEMMA OneElement == ASSUME NEW x PROVE IsList(<<x>>) /\ Range(<<x>>) = {x}
  BY DEF IsList, Range

\* What is in a flattened list is what is in the lists.
LEMMA FlattenedRange ==
    ASSUME NEW s, IsList(s), \A i \in DOMAIN s : IsList(s[i])
    PROVE  IsList(FlattenSeq(s)) /\ Range(FlattenSeq(s)) = UNION {Range(s[i]) : i \in DOMAIN s}
<1> DEFINE n == Len(s)
<1>1. n \in Nat /\ DOMAIN s = 1 .. n
  BY ListIs
<1>2. PICK f : /\ f[0] = <<>> /\ \A i \in 1 .. n : f[i] = f[i - 1] \o s[i]
               /\ \A i \in 0 .. n : IsList(f[i])
               /\ FlattenSeq(s) = f[n]
  BY Flattened
<1> HIDE DEF n
<1> DEFINE P == {k \in 0 .. n : \A x : x \in Range(f[k]) <=> \E i \in 1 .. k : x \in Range(s[i])}
<1>3. 0 \in P
  BY <1>1, <1>2, EmptyList
<1>4. ASSUME NEW k \in 0 .. n - 1, k \in P PROVE k + 1 \in P
  <2>1. k \in 0 .. n /\ k + 1 \in 1 .. n /\ k + 1 \in 0 .. n /\ (k + 1) - 1 = k
    BY <1>1
  <2>2. f[k + 1] = f[k] \o s[k + 1] /\ IsList(f[k]) /\ IsList(s[k + 1])
    BY <1>1, <1>2, <2>1
  <2>3. Range(f[k + 1]) = Range(f[k]) \cup Range(s[k + 1])
    BY <2>2, Joined
  <2>4. 1 .. k + 1 = (1 .. k) \cup {k + 1}
    BY <1>1
  <2>5. \A x : (\E i \in 1 .. k + 1 : x \in Range(s[i]))
                 <=> (\E i \in 1 .. k : x \in Range(s[i])) \/ x \in Range(s[k + 1])
    BY <2>4
  <2> QED
    BY <1>4, <2>1, <2>3, <2>5
<1>5. n \in P
  <2> HIDE DEF P
  <2>1. n \in 0 .. n /\ \A k \in 0 .. n - 1 : k \in P => k + 1 \in P
    BY <1>1, <1>4
  <2> QED
    BY <1>1, <1>3, <2>1, Upto
<1>6. n \in 0 .. n
  BY <1>1
<1>7. \A x : x \in Range(f[n]) <=> \E i \in DOMAIN s : x \in Range(s[i])
  BY <1>1, <1>5
<1>8. Range(f[n]) = UNION {Range(s[i]) : i \in DOMAIN s}
  BY <1>7, Zenon
<1> QED
  BY <1>2, <1>6, <1>8

\* Pick keeps the elements at the places given.
LEMMA Picked ==
    ASSUME NEW s, IsList(s), NEW places
    PROVE  /\ IsList(Pick(s, places))
           /\ Range(Pick(s, places)) = {s[i] : i \in {j \in DOMAIN s : j \in places}}
<1> DEFINE parts == [i \in DOMAIN s |-> IF i \in places THEN <<s[i]>> ELSE <<>>]
<1>1. Len(s) \in Nat /\ DOMAIN s = 1 .. Len(s)
  BY ListIs
<1>2. IsList(parts) /\ DOMAIN parts = DOMAIN s
  BY <1>1, FunctionIsList
<1>3. ASSUME NEW i \in DOMAIN s
      PROVE  IsList(parts[i]) /\ Range(parts[i]) = IF i \in places THEN {s[i]} ELSE {}
  BY <1>3, EmptyList, OneElement
<1>4. Pick(s, places) = FlattenSeq(parts)
  BY DEF Pick
<1> HIDE DEF parts
<1>5. IsList(FlattenSeq(parts)) /\ Range(FlattenSeq(parts)) = UNION {Range(parts[i]) : i \in DOMAIN s}
  BY <1>2, <1>3, FlattenedRange
<1>6. UNION {Range(parts[i]) : i \in DOMAIN s} = {s[i] : i \in {j \in DOMAIN s : j \in places}}
  BY <1>3
<1> QED
  BY <1>4, <1>5, <1>6

\* Distinct drops no element altogether.
LEMMA DistinctElements ==
    ASSUME NEW s, IsList(s) PROVE IsList(Distinct(s)) /\ Range(Distinct(s)) = Range(s)
<1> DEFINE firsts == {i \in DOMAIN s : \A j \in 1 .. i - 1 : s[j] # s[i]}
<1>1. Len(s) \in Nat /\ DOMAIN s = 1 .. Len(s)
  BY ListIs
<1>2. Distinct(s) = Pick(s, firsts)
  BY DEF Distinct
<1>3. IsList(Pick(s, firsts)) /\ Range(Pick(s, firsts)) = {s[i] : i \in {j \in DOMAIN s : j \in firsts}}
  <2> HIDE DEF firsts
  <2> QED
    BY Picked
<1>4. ASSUME NEW x \in Range(s) PROVE \E i \in firsts : x = s[i]
  <2> DEFINE where == {i \in DOMAIN s : s[i] = x}
  <2>1. where \in SUBSET Nat /\ where # {}
    BY <1>1 DEF Range
  <2>2. PICK m \in where : \A i \in where : m <= i
    BY <2>1, Least
  <2>3. m \in firsts
    <3>1. m \in Nat /\ m \in DOMAIN s
      BY <2>1
    <3>2. ASSUME NEW j \in 1 .. m - 1, s[j] = s[m] PROVE FALSE
      <4>1. j \in DOMAIN s /\ j \in Nat /\ j < m
        BY <1>1, <3>1
      <4>2. j \in where
        BY <2>2, <3>2, <4>1
      <4> QED
        BY <2>2, <3>1, <4>1, <4>2
    <3> QED
      BY <3>1, <3>2
  <2> QED
    BY <2>3
<1>5. {s[i] : i \in {j \in DOMAIN s : j \in firsts}} = Range(s)
  BY <1>4 DEF Range
<1> QED
  BY <1>2, <1>3, <1>5

\* The targets published so far are as many as there are tags only if they are those
\* of all tags.
LEMMA TargetsOfTags ==
    ASSUME NEW tags, tags \in Seq(Range(tags)), NEW T \in SUBSET Targets(tags)
    PROVE  /\ Cardinality(T) \in Nat /\ Len(tags) \in Nat /\ Cardinality(T) <= Len(tags)
           /\ Cardinality(T) = Len(tags) => T = Targets(tags)
           /\ Cardinality(T) # Len(tags) => tags[Cardinality(T) + 1] \in Range(tags)
<1> DEFINE all == Targets(tags)
           place == [i \in 1 .. Len(tags) |-> <<tags[i], Built>>]
<1>1. Len(tags) \in Nat /\ DOMAIN tags = 1 .. Len(tags)
  OBVIOUS
<1>2. place \in Surjection(1 .. Len(tags), all)
  <2>1. \A i \in 1 .. Len(tags) : tags[i] \in Range(tags)
    BY <1>1 DEF Range
  <2>2. \A t \in Range(tags) : \E i \in 1 .. Len(tags) : t = tags[i]
    BY <1>1 DEF Range
  <2>3. place \in [1 .. Len(tags) -> all]
    BY <2>1 DEF Targets
  <2>4. \A x \in all : \E i \in 1 .. Len(tags) : place[i] = x
    BY <2>2 DEF Targets
  <2> HIDE DEF place, all
  <2> QED
    BY <2>3, <2>4 DEF Surjection
<1>3. IsFiniteSet(1 .. Len(tags)) /\ Cardinality(1 .. Len(tags)) = Len(tags)
  BY <1>1, FS_Interval
<1> HIDE DEF place, all
<1>4. IsFiniteSet(all) /\ Cardinality(all) <= Len(tags)
  BY <1>2, <1>3, FS_Surjection
<1>5. /\ IsFiniteSet(T) /\ Cardinality(T) <= Cardinality(all)
      /\ Cardinality(all) = Cardinality(T) => all = T
  BY <1>4, FS_Subset DEF all
<1>6. Cardinality(T) \in Nat /\ Cardinality(all) \in Nat
  BY <1>4, <1>5, FS_CardinalityType
<1>7. Cardinality(T) <= Len(tags) /\ (Cardinality(T) = Len(tags) => T = all)
  BY <1>1, <1>4, <1>5, <1>6
<1>8. ASSUME Cardinality(T) # Len(tags) PROVE tags[Cardinality(T) + 1] \in Range(tags)
  <2>1. Cardinality(T) + 1 \in 1 .. Len(tags)
    BY <1>1, <1>6, <1>7, <1>8
  <2> QED
    BY <1>1, <2>1 DEF Range
<1> QED
  BY <1>1, <1>6, <1>7, <1>8 DEF all

---------------------------------------------------------------------------
(* Folds, as a list of what there is after each element. *)

\* AppendEach appends the maps of a list one after the other.
LEMMA AppendEachSteps ==
    ASSUME NEW possible, NEW list, IsList(list)
    PROVE  \E acc : /\ acc[0] = possible
                    /\ \A i \in 1 .. Len(list) : acc[i] = AppendAll(acc[i - 1], list[i])
                    /\ AppendEach(possible, list) = acc[Len(list)]
<1> DEFINE n == Len(list)
           op(e, v) == AppendAll(e, v)
           Eq(g, k) == g = [t \in SUBSET (1 .. k) |->
                              IF t = {} THEN possible ELSE op(g[t \ {Max(t)}], list[Max(t)])]
           P == {k \in 0 .. n : \E g : Eq(g, k)}
           iter == CHOOSE g : Eq(g, n)
           acc == [i \in 0 .. n |-> iter[1 .. i]]
<1>1. n \in Nat /\ DOMAIN list = 1 .. n
  BY ListIs
<1>2. AppendEach(possible, list) = iter[1 .. n]
  BY <1>1 DEF AppendEach, FoldLeft, MapThenFoldSet
<1> HIDE DEF op, n
<1>3. 0 \in P
  <2>1. Eq([t \in SUBSET (1 .. 0) |-> possible], 0)
    OBVIOUS
  <2> QED
    BY <1>1, <2>1
<1>4. ASSUME NEW k \in 0 .. n - 1, k \in P PROVE k + 1 \in P
  <2>1. PICK g : Eq(g, k)
    BY <1>4
  <2> DEFINE h == [t \in SUBSET (1 .. k + 1) |->
                     IF k + 1 \in t THEN op(g[t \ {k + 1}], list[k + 1]) ELSE g[t]]
  <2>2. ASSUME NEW t \in SUBSET (1 .. k + 1)
        PROVE  h[t] = IF t = {} THEN possible ELSE op(h[t \ {Max(t)}], list[Max(t)])
    <3>1. CASE k + 1 \in t
      <4>1. Max(t) = k + 1
        BY <1>1, <3>1, LastOf
      <4>2. t \ {k + 1} \in SUBSET (1 .. k + 1) /\ t \ {k + 1} \in SUBSET (1 .. k)
        BY <1>1
      <4>3. h[t \ {k + 1}] = g[t \ {k + 1}] /\ h[t] = op(g[t \ {k + 1}], list[k + 1])
        BY <3>1, <4>2
      <4> QED
        BY <3>1, <4>1, <4>3
    <3>2. CASE k + 1 \notin t
      <4>1. t \in SUBSET (1 .. k)
        BY <1>1, <3>2
      <4>2. t # {} => t \ {Max(t)} \in SUBSET (1 .. k)
        BY <4>1
      <4>3. t # {} => t \ {Max(t)} \in SUBSET (1 .. k + 1) /\ k + 1 \notin t \ {Max(t)}
        BY <3>2
      <4>4. h[t] = g[t] /\ (t # {} => h[t \ {Max(t)}] = g[t \ {Max(t)}])
        BY <3>2, <4>3
      <4>5. g[t] = IF t = {} THEN possible ELSE op(g[t \ {Max(t)}], list[Max(t)])
        BY <2>1, <4>1
      <4> QED
        BY <4>4, <4>5
    <3> QED
      BY <3>1, <3>2
  <2>3. Eq(h, k + 1)
    BY <2>2
  <2>4. k + 1 \in 0 .. n
    BY <1>1
  <2> HIDE DEF h
  <2> QED
    BY <2>3, <2>4
<1>5. Eq(iter, n)
  <2> HIDE DEF P
  <2>1. n \in 0 .. n /\ \A k \in 0 .. n - 1 : k \in P => k + 1 \in P
    BY <1>1, <1>4
  <2>2. n \in P
    BY <1>1, <1>3, <2>1, Upto
  <2> QED
    BY <2>2 DEF P
<1> HIDE DEF iter
<1>6. acc[0] = possible /\ acc[n] = iter[1 .. n]
  <2>1. 0 \in 0 .. n /\ n \in 0 .. n /\ 1 .. 0 = {} /\ {} \in SUBSET (1 .. n)
    BY <1>1
  <2>2. iter[{}] = possible
    BY <1>5, <2>1
  <2>3. acc[0] = iter[1 .. 0] /\ acc[n] = iter[1 .. n]
    BY <2>1
  <2> QED
    BY <2>1, <2>2, <2>3
<1>7. ASSUME NEW i \in 1 .. n PROVE acc[i] = op(acc[i - 1], list[i])
  <2>1. /\ Max(1 .. i) = i /\ (1 .. i) \ {i} = 1 .. i - 1
        /\ 1 .. i # {} /\ 1 .. i \in SUBSET (1 .. n)
    BY <1>1, Places
  <2>2. iter[1 .. i] = op(iter[1 .. i - 1], list[i])
    BY <1>5, <2>1
  <2>3. i \in 0 .. n /\ i - 1 \in 0 .. n
    BY <1>1
  <2> QED
    BY <2>2, <2>3
<1> HIDE DEF acc
<1> QED
  BY <1>2, <1>6, <1>7 DEF op, n

\* AppendKeys goes from key to key.
LEMMA AppendKeysSteps ==
    ASSUME NEW creds0, NEW more, NEW order, IsList(order)
    PROVE  \E acc : /\ acc[0] = creds0
                    /\ \A i \in 1 .. Len(order) : acc[i] = IF contains(acc[i - 1], order[i]) THEN acc[i - 1] ELSE With(acc[i - 1], order[i], more[order[i]])
                    /\ AppendKeys(creds0, more, order) = acc[Len(order)]
<1> DEFINE n == Len(order)
           op(e, v) == IF contains(e, v) THEN e ELSE With(e, v, more[v])
           Eq(g, k) == g = [t \in SUBSET (1 .. k) |->
                              IF t = {} THEN creds0 ELSE op(g[t \ {Max(t)}], order[Max(t)])]
           P == {k \in 0 .. n : \E g : Eq(g, k)}
           iter == CHOOSE g : Eq(g, n)
           acc == [i \in 0 .. n |-> iter[1 .. i]]
<1>1. n \in Nat /\ DOMAIN order = 1 .. n
  BY ListIs
<1>2. AppendKeys(creds0, more, order) = iter[1 .. n]
  BY <1>1 DEF AppendKeys, FoldLeft, MapThenFoldSet
<1> HIDE DEF op, n
<1>3. 0 \in P
  <2>1. Eq([t \in SUBSET (1 .. 0) |-> creds0], 0)
    OBVIOUS
  <2> QED
    BY <1>1, <2>1
<1>4. ASSUME NEW k \in 0 .. n - 1, k \in P PROVE k + 1 \in P
  <2>1. PICK g : Eq(g, k)
    BY <1>4
  <2> DEFINE h == [t \in SUBSET (1 .. k + 1) |->
                     IF k + 1 \in t THEN op(g[t \ {k + 1}], order[k + 1]) ELSE g[t]]
  <2>2. ASSUME NEW t \in SUBSET (1 .. k + 1)
        PROVE  h[t] = IF t = {} THEN creds0 ELSE op(h[t \ {Max(t)}], order[Max(t)])
    <3>1. CASE k + 1 \in t
      <4>1. Max(t) = k + 1
        BY <1>1, <3>1, LastOf
      <4>2. t \ {k + 1} \in SUBSET (1 .. k + 1) /\ t \ {k + 1} \in SUBSET (1 .. k)
        BY <1>1
      <4>3. h[t \ {k + 1}] = g[t \ {k + 1}] /\ h[t] = op(g[t \ {k + 1}], order[k + 1])
        BY <3>1, <4>2
      <4> QED
        BY <3>1, <4>1, <4>3
    <3>2. CASE k + 1 \notin t
      <4>1. t \in SUBSET (1 .. k)
        BY <1>1, <3>2
      <4>2. t # {} => t \ {Max(t)} \in SUBSET (1 .. k)
        BY <4>1
      <4>3. t # {} => t \ {Max(t)} \in SUBSET (1 .. k + 1) /\ k + 1 \notin t \ {Max(t)}
        BY <3>2
      <4>4. h[t] = g[t] /\ (t # {} => h[t \ {Max(t)}] = g[t \ {Max(t)}])
        BY <3>2, <4>3
      <4>5. g[t] = IF t = {} THEN creds0 ELSE op(g[t \ {Max(t)}], order[Max(t)])
        BY <2>1, <4>1
      <4> QED
        BY <4>4, <4>5
    <3> QED
      BY <3>1, <3>2
  <2>3. Eq(h, k + 1)
    BY <2>2
  <2>4. k + 1 \in 0 .. n
    BY <1>1
  <2> HIDE DEF h
  <2> QED
    BY <2>3, <2>4
<1>5. Eq(iter, n)
  <2> HIDE DEF P
  <2>1. n \in 0 .. n /\ \A k \in 0 .. n - 1 : k \in P => k + 1 \in P
    BY <1>1, <1>4
  <2>2. n \in P
    BY <1>1, <1>3, <2>1, Upto
  <2> QED
    BY <2>2 DEF P
<1> HIDE DEF iter
<1>6. acc[0] = creds0 /\ acc[n] = iter[1 .. n]
  <2>1. 0 \in 0 .. n /\ n \in 0 .. n /\ 1 .. 0 = {} /\ {} \in SUBSET (1 .. n)
    BY <1>1
  <2>2. iter[{}] = creds0
    BY <1>5, <2>1
  <2>3. acc[0] = iter[1 .. 0] /\ acc[n] = iter[1 .. n]
    BY <2>1
  <2> QED
    BY <2>1, <2>2, <2>3
<1>7. ASSUME NEW i \in 1 .. n PROVE acc[i] = op(acc[i - 1], order[i])
  <2>1. /\ Max(1 .. i) = i /\ (1 .. i) \ {i} = 1 .. i - 1
        /\ 1 .. i # {} /\ 1 .. i \in SUBSET (1 .. n)
    BY <1>1, Places
  <2>2. iter[1 .. i] = op(iter[1 .. i - 1], order[i])
    BY <1>5, <2>1
  <2>3. i \in 0 .. n /\ i - 1 \in 0 .. n
    BY <1>1
  <2> QED
    BY <2>2, <2>3
<1> HIDE DEF acc
<1> QED
  BY <1>2, <1>6, <1>7 DEF op, n

\* serializeEnvVars writes one variable after the other.
Assigned(env, v) == [x \in DOMAIN env \cup {v[1]} |-> IF x = v[1] THEN v[2] ELSE env[x]]

LEMMA EnvSteps ==
    ASSUME NEW env, NEW list, IsList(list)
    PROVE  \E acc : /\ acc[0] = env
                    /\ \A i \in 1 .. Len(list) : acc[i] = Assigned(acc[i - 1], list[i])
                    /\ serializeEnvVars(env, list) = acc[Len(list)]
<1> DEFINE n == Len(list)
           op(e, v) == [x \in DOMAIN e \cup {v[1]} |-> IF x = v[1] THEN v[2] ELSE e[x]]
           Eq(g, k) == g = [t \in SUBSET (1 .. k) |->
                              IF t = {} THEN env ELSE op(g[t \ {Max(t)}], list[Max(t)])]
           P == {k \in 0 .. n : \E g : Eq(g, k)}
           iter == CHOOSE g : Eq(g, n)
           acc == [i \in 0 .. n |-> iter[1 .. i]]
<1>1. n \in Nat /\ DOMAIN list = 1 .. n
  BY ListIs
<1>2. serializeEnvVars(env, list) = iter[1 .. n]
  BY <1>1 DEF serializeEnvVars, FoldLeft, MapThenFoldSet
<1> HIDE DEF op, n
<1>3. 0 \in P
  <2>1. Eq([t \in SUBSET (1 .. 0) |-> env], 0)
    OBVIOUS
  <2> QED
    BY <1>1, <2>1
<1>4. ASSUME NEW k \in 0 .. n - 1, k \in P PROVE k + 1 \in P
  <2>1. PICK g : Eq(g, k)
    BY <1>4
  <2> DEFINE h == [t \in SUBSET (1 .. k + 1) |->
                     IF k + 1 \in t THEN op(g[t \ {k + 1}], list[k + 1]) ELSE g[t]]
  <2>2. ASSUME NEW t \in SUBSET (1 .. k + 1)
        PROVE  h[t] = IF t = {} THEN env ELSE op(h[t \ {Max(t)}], list[Max(t)])
    <3>1. CASE k + 1 \in t
      <4>1. Max(t) = k + 1
        BY <1>1, <3>1, LastOf
      <4>2. t \ {k + 1} \in SUBSET (1 .. k + 1) /\ t \ {k + 1} \in SUBSET (1 .. k)
        BY <1>1
      <4>3. h[t \ {k + 1}] = g[t \ {k + 1}] /\ h[t] = op(g[t \ {k + 1}], list[k + 1])
        BY <3>1, <4>2
      <4> QED
        BY <3>1, <4>1, <4>3
    <3>2. CASE k + 1 \notin t
      <4>1. t \in SUBSET (1 .. k)
        BY <1>1, <3>2
      <4>2. t # {} => t \ {Max(t)} \in SUBSET (1 .. k)
        BY <4>1
      <4>3. t # {} => t \ {Max(t)} \in SUBSET (1 .. k + 1) /\ k + 1 \notin t \ {Max(t)}
        BY <3>2
      <4>4. h[t] = g[t] /\ (t # {} => h[t \ {Max(t)}] = g[t \ {Max(t)}])
        BY <3>2, <4>3
      <4>5. g[t] = IF t = {} THEN env ELSE op(g[t \ {Max(t)}], list[Max(t)])
        BY <2>1, <4>1
      <4> QED
        BY <4>4, <4>5
    <3> QED
      BY <3>1, <3>2
  <2>3. Eq(h, k + 1)
    BY <2>2
  <2>4. k + 1 \in 0 .. n
    BY <1>1
  <2> HIDE DEF h
  <2> QED
    BY <2>3, <2>4
<1>5. Eq(iter, n)
  <2> HIDE DEF P
  <2>1. n \in 0 .. n /\ \A k \in 0 .. n - 1 : k \in P => k + 1 \in P
    BY <1>1, <1>4
  <2>2. n \in P
    BY <1>1, <1>3, <2>1, Upto
  <2> QED
    BY <2>2 DEF P
<1> HIDE DEF iter
<1>6. acc[0] = env /\ acc[n] = iter[1 .. n]
  <2>1. 0 \in 0 .. n /\ n \in 0 .. n /\ 1 .. 0 = {} /\ {} \in SUBSET (1 .. n)
    BY <1>1
  <2>2. iter[{}] = env
    BY <1>5, <2>1
  <2>3. acc[0] = iter[1 .. 0] /\ acc[n] = iter[1 .. n]
    BY <2>1
  <2> QED
    BY <2>1, <2>2, <2>3
<1>7. ASSUME NEW i \in 1 .. n PROVE acc[i] = op(acc[i - 1], list[i])
  <2>1. /\ Max(1 .. i) = i /\ (1 .. i) \ {i} = 1 .. i - 1
        /\ 1 .. i # {} /\ 1 .. i \in SUBSET (1 .. n)
    BY <1>1, Places
  <2>2. iter[1 .. i] = op(iter[1 .. i - 1], list[i])
    BY <1>5, <2>1
  <2>3. i \in 0 .. n /\ i - 1 \in 0 .. n
    BY <1>1
  <2> QED
    BY <2>2, <2>3
<1> HIDE DEF acc
<1> QED
  BY <1>2, <1>6, <1>7 DEF op, n, Assigned

\* UnpackEach puts one entry after the other into the tree.
LEMMA UnpackSteps ==
    ASSUME NEW tree, NEW list, IsList(list)
    PROVE  \E acc : /\ acc[0] = tree
                    /\ \A i \in 1 .. Len(list) : acc[i] = Unpack(acc[i - 1], list[i])
                    /\ UnpackEach(tree, list) = acc[Len(list)]
<1> DEFINE n == Len(list)
           op(e, v) == Unpack(e, v)
           Eq(g, k) == g = [t \in SUBSET (1 .. k) |->
                              IF t = {} THEN tree ELSE op(g[t \ {Max(t)}], list[Max(t)])]
           P == {k \in 0 .. n : \E g : Eq(g, k)}
           iter == CHOOSE g : Eq(g, n)
           acc == [i \in 0 .. n |-> iter[1 .. i]]
<1>1. n \in Nat /\ DOMAIN list = 1 .. n
  BY ListIs
<1>2. UnpackEach(tree, list) = iter[1 .. n]
  BY <1>1 DEF UnpackEach, FoldLeft, MapThenFoldSet
<1> HIDE DEF op, n
<1>3. 0 \in P
  <2>1. Eq([t \in SUBSET (1 .. 0) |-> tree], 0)
    OBVIOUS
  <2> QED
    BY <1>1, <2>1
<1>4. ASSUME NEW k \in 0 .. n - 1, k \in P PROVE k + 1 \in P
  <2>1. PICK g : Eq(g, k)
    BY <1>4
  <2> DEFINE h == [t \in SUBSET (1 .. k + 1) |->
                     IF k + 1 \in t THEN op(g[t \ {k + 1}], list[k + 1]) ELSE g[t]]
  <2>2. ASSUME NEW t \in SUBSET (1 .. k + 1)
        PROVE  h[t] = IF t = {} THEN tree ELSE op(h[t \ {Max(t)}], list[Max(t)])
    <3>1. CASE k + 1 \in t
      <4>1. Max(t) = k + 1
        BY <1>1, <3>1, LastOf
      <4>2. t \ {k + 1} \in SUBSET (1 .. k + 1) /\ t \ {k + 1} \in SUBSET (1 .. k)
        BY <1>1
      <4>3. h[t \ {k + 1}] = g[t \ {k + 1}] /\ h[t] = op(g[t \ {k + 1}], list[k + 1])
        BY <3>1, <4>2
      <4> QED
        BY <3>1, <4>1, <4>3
    <3>2. CASE k + 1 \notin t
      <4>1. t \in SUBSET (1 .. k)
        BY <1>1, <3>2
      <4>2. t # {} => t \ {Max(t)} \in SUBSET (1 .. k)
        BY <4>1
      <4>3. t # {} => t \ {Max(t)} \in SUBSET (1 .. k + 1) /\ k + 1 \notin t \ {Max(t)}
        BY <3>2
      <4>4. h[t] = g[t] /\ (t # {} => h[t \ {Max(t)}] = g[t \ {Max(t)}])
        BY <3>2, <4>3
      <4>5. g[t] = IF t = {} THEN tree ELSE op(g[t \ {Max(t)}], list[Max(t)])
        BY <2>1, <4>1
      <4> QED
        BY <4>4, <4>5
    <3> QED
      BY <3>1, <3>2
  <2>3. Eq(h, k + 1)
    BY <2>2
  <2>4. k + 1 \in 0 .. n
    BY <1>1
  <2> HIDE DEF h
  <2> QED
    BY <2>3, <2>4
<1>5. Eq(iter, n)
  <2> HIDE DEF P
  <2>1. n \in 0 .. n /\ \A k \in 0 .. n - 1 : k \in P => k + 1 \in P
    BY <1>1, <1>4
  <2>2. n \in P
    BY <1>1, <1>3, <2>1, Upto
  <2> QED
    BY <2>2 DEF P
<1> HIDE DEF iter
<1>6. acc[0] = tree /\ acc[n] = iter[1 .. n]
  <2>1. 0 \in 0 .. n /\ n \in 0 .. n /\ 1 .. 0 = {} /\ {} \in SUBSET (1 .. n)
    BY <1>1
  <2>2. iter[{}] = tree
    BY <1>5, <2>1
  <2>3. acc[0] = iter[1 .. 0] /\ acc[n] = iter[1 .. n]
    BY <2>1
  <2> QED
    BY <2>1, <2>2, <2>3
<1>7. ASSUME NEW i \in 1 .. n PROVE acc[i] = op(acc[i - 1], list[i])
  <2>1. /\ Max(1 .. i) = i /\ (1 .. i) \ {i} = 1 .. i - 1
        /\ 1 .. i # {} /\ 1 .. i \in SUBSET (1 .. n)
    BY <1>1, Places
  <2>2. iter[1 .. i] = op(iter[1 .. i - 1], list[i])
    BY <1>5, <2>1
  <2>3. i \in 0 .. n /\ i - 1 \in 0 .. n
    BY <1>1
  <2> QED
    BY <2>2, <2>3
<1> HIDE DEF acc
<1> QED
  BY <1>2, <1>6, <1>7 DEF op, n

\* HandleSource unpacks one layer after the other.
LEMMA LayerSteps ==
    ASSUME NEW tree, NEW img, IsList(img.layers)
    PROVE  \E acc : /\ acc[0] = tree
                    /\ \A i \in 1 .. Len(img.layers) : acc[i] = IF acc[i - 1] = Failed THEN acc[i - 1] ELSE ExtractTar(acc[i - 1], WorkDir, img.layers[i], 0)
                    /\ HandleSource(tree, img) = acc[Len(img.layers)]
<1> DEFINE n == Len(img.layers)
           op(e, v) == IF e = Failed THEN e ELSE ExtractTar(e, WorkDir, v, 0)
           Eq(g, k) == g = [t \in SUBSET (1 .. k) |->
                              IF t = {} THEN tree ELSE op(g[t \ {Max(t)}], img.layers[Max(t)])]
           P == {k \in 0 .. n : \E g : Eq(g, k)}
           iter == CHOOSE g : Eq(g, n)
           acc == [i \in 0 .. n |-> iter[1 .. i]]
<1>1. n \in Nat /\ DOMAIN img.layers = 1 .. n
  BY ListIs
<1>2. HandleSource(tree, img) = iter[1 .. n]
  BY <1>1 DEF HandleSource, FoldLeft, MapThenFoldSet
<1> HIDE DEF op, n
<1>3. 0 \in P
  <2>1. Eq([t \in SUBSET (1 .. 0) |-> tree], 0)
    OBVIOUS
  <2> QED
    BY <1>1, <2>1
<1>4. ASSUME NEW k \in 0 .. n - 1, k \in P PROVE k + 1 \in P
  <2>1. PICK g : Eq(g, k)
    BY <1>4
  <2> DEFINE h == [t \in SUBSET (1 .. k + 1) |->
                     IF k + 1 \in t THEN op(g[t \ {k + 1}], img.layers[k + 1]) ELSE g[t]]
  <2>2. ASSUME NEW t \in SUBSET (1 .. k + 1)
        PROVE  h[t] = IF t = {} THEN tree ELSE op(h[t \ {Max(t)}], img.layers[Max(t)])
    <3>1. CASE k + 1 \in t
      <4>1. Max(t) = k + 1
        BY <1>1, <3>1, LastOf
      <4>2. t \ {k + 1} \in SUBSET (1 .. k + 1) /\ t \ {k + 1} \in SUBSET (1 .. k)
        BY <1>1
      <4>3. h[t \ {k + 1}] = g[t \ {k + 1}] /\ h[t] = op(g[t \ {k + 1}], img.layers[k + 1])
        BY <3>1, <4>2
      <4> QED
        BY <3>1, <4>1, <4>3
    <3>2. CASE k + 1 \notin t
      <4>1. t \in SUBSET (1 .. k)
        BY <1>1, <3>2
      <4>2. t # {} => t \ {Max(t)} \in SUBSET (1 .. k)
        BY <4>1
      <4>3. t # {} => t \ {Max(t)} \in SUBSET (1 .. k + 1) /\ k + 1 \notin t \ {Max(t)}
        BY <3>2
      <4>4. h[t] = g[t] /\ (t # {} => h[t \ {Max(t)}] = g[t \ {Max(t)}])
        BY <3>2, <4>3
      <4>5. g[t] = IF t = {} THEN tree ELSE op(g[t \ {Max(t)}], img.layers[Max(t)])
        BY <2>1, <4>1
      <4> QED
        BY <4>4, <4>5
    <3> QED
      BY <3>1, <3>2
  <2>3. Eq(h, k + 1)
    BY <2>2
  <2>4. k + 1 \in 0 .. n
    BY <1>1
  <2> HIDE DEF h
  <2> QED
    BY <2>3, <2>4
<1>5. Eq(iter, n)
  <2> HIDE DEF P
  <2>1. n \in 0 .. n /\ \A k \in 0 .. n - 1 : k \in P => k + 1 \in P
    BY <1>1, <1>4
  <2>2. n \in P
    BY <1>1, <1>3, <2>1, Upto
  <2> QED
    BY <2>2 DEF P
<1> HIDE DEF iter
<1>6. acc[0] = tree /\ acc[n] = iter[1 .. n]
  <2>1. 0 \in 0 .. n /\ n \in 0 .. n /\ 1 .. 0 = {} /\ {} \in SUBSET (1 .. n)
    BY <1>1
  <2>2. iter[{}] = tree
    BY <1>5, <2>1
  <2>3. acc[0] = iter[1 .. 0] /\ acc[n] = iter[1 .. n]
    BY <2>1
  <2> QED
    BY <2>1, <2>2, <2>3
<1>7. ASSUME NEW i \in 1 .. n PROVE acc[i] = op(acc[i - 1], img.layers[i])
  <2>1. /\ Max(1 .. i) = i /\ (1 .. i) \ {i} = 1 .. i - 1
        /\ 1 .. i # {} /\ 1 .. i \in SUBSET (1 .. n)
    BY <1>1, Places
  <2>2. iter[1 .. i] = op(iter[1 .. i - 1], img.layers[i])
    BY <1>5, <2>1
  <2>3. i \in 0 .. n /\ i - 1 \in 0 .. n
    BY <1>1
  <2> QED
    BY <2>2, <2>3
<1> HIDE DEF acc
<1> QED
  BY <1>2, <1>6, <1>7 DEF op, n

\* ParseBasicAuthSecrets takes one flag after the other.
LEMMA BasicSteps ==
    ASSUME NEW args, IsList(args)
    PROVE  \E acc : /\ acc[0] = NoCreds
                    /\ \A i \in 1 .. Len(args) : acc[i] = [x \in DOMAIN acc[i - 1] \cup args[i][2].docker |-> IF x \in args[i][2].docker THEN args[i][2].name ELSE acc[i - 1][x]]
                    /\ ParseBasicAuthSecrets(args) = acc[Len(args)]
<1> DEFINE n == Len(args)
           op(e, v) == [x \in DOMAIN e \cup v[2].docker |-> IF x \in v[2].docker THEN v[2].name ELSE e[x]]
           Eq(g, k) == g = [t \in SUBSET (1 .. k) |->
                              IF t = {} THEN NoCreds ELSE op(g[t \ {Max(t)}], args[Max(t)])]
           P == {k \in 0 .. n : \E g : Eq(g, k)}
           iter == CHOOSE g : Eq(g, n)
           acc == [i \in 0 .. n |-> iter[1 .. i]]
<1>1. n \in Nat /\ DOMAIN args = 1 .. n
  BY ListIs
<1>2. ParseBasicAuthSecrets(args) = iter[1 .. n]
  BY <1>1 DEF ParseBasicAuthSecrets, FoldLeft, MapThenFoldSet
<1> HIDE DEF op, n
<1>3. 0 \in P
  <2>1. Eq([t \in SUBSET (1 .. 0) |-> NoCreds], 0)
    OBVIOUS
  <2> QED
    BY <1>1, <2>1
<1>4. ASSUME NEW k \in 0 .. n - 1, k \in P PROVE k + 1 \in P
  <2>1. PICK g : Eq(g, k)
    BY <1>4
  <2> DEFINE h == [t \in SUBSET (1 .. k + 1) |->
                     IF k + 1 \in t THEN op(g[t \ {k + 1}], args[k + 1]) ELSE g[t]]
  <2>2. ASSUME NEW t \in SUBSET (1 .. k + 1)
        PROVE  h[t] = IF t = {} THEN NoCreds ELSE op(h[t \ {Max(t)}], args[Max(t)])
    <3>1. CASE k + 1 \in t
      <4>1. Max(t) = k + 1
        BY <1>1, <3>1, LastOf
      <4>2. t \ {k + 1} \in SUBSET (1 .. k + 1) /\ t \ {k + 1} \in SUBSET (1 .. k)
        BY <1>1
      <4>3. h[t \ {k + 1}] = g[t \ {k + 1}] /\ h[t] = op(g[t \ {k + 1}], args[k + 1])
        BY <3>1, <4>2
      <4> QED
        BY <3>1, <4>1, <4>3
    <3>2. CASE k + 1 \notin t
      <4>1. t \in SUBSET (1 .. k)
        BY <1>1, <3>2
      <4>2. t # {} => t \ {Max(t)} \in SUBSET (1 .. k)
        BY <4>1
      <4>3. t # {} => t \ {Max(t)} \in SUBSET (1 .. k + 1) /\ k + 1 \notin t \ {Max(t)}
        BY <3>2
      <4>4. h[t] = g[t] /\ (t # {} => h[t \ {Max(t)}] = g[t \ {Max(t)}])
        BY <3>2, <4>3
      <4>5. g[t] = IF t = {} THEN NoCreds ELSE op(g[t \ {Max(t)}], args[Max(t)])
        BY <2>1, <4>1
      <4> QED
        BY <4>4, <4>5
    <3> QED
      BY <3>1, <3>2
  <2>3. Eq(h, k + 1)
    BY <2>2
  <2>4. k + 1 \in 0 .. n
    BY <1>1
  <2> HIDE DEF h
  <2> QED
    BY <2>3, <2>4
<1>5. Eq(iter, n)
  <2> HIDE DEF P
  <2>1. n \in 0 .. n /\ \A k \in 0 .. n - 1 : k \in P => k + 1 \in P
    BY <1>1, <1>4
  <2>2. n \in P
    BY <1>1, <1>3, <2>1, Upto
  <2> QED
    BY <2>2 DEF P
<1> HIDE DEF iter
<1>6. acc[0] = NoCreds /\ acc[n] = iter[1 .. n]
  <2>1. 0 \in 0 .. n /\ n \in 0 .. n /\ 1 .. 0 = {} /\ {} \in SUBSET (1 .. n)
    BY <1>1
  <2>2. iter[{}] = NoCreds
    BY <1>5, <2>1
  <2>3. acc[0] = iter[1 .. 0] /\ acc[n] = iter[1 .. n]
    BY <2>1
  <2> QED
    BY <2>1, <2>2, <2>3
<1>7. ASSUME NEW i \in 1 .. n PROVE acc[i] = op(acc[i - 1], args[i])
  <2>1. /\ Max(1 .. i) = i /\ (1 .. i) \ {i} = 1 .. i - 1
        /\ 1 .. i # {} /\ 1 .. i \in SUBSET (1 .. n)
    BY <1>1, Places
  <2>2. iter[1 .. i] = op(iter[1 .. i - 1], args[i])
    BY <1>5, <2>1
  <2>3. i \in 0 .. n /\ i - 1 \in 0 .. n
    BY <1>1
  <2> QED
    BY <2>2, <2>3
<1> HIDE DEF acc
<1> QED
  BY <1>2, <1>6, <1>7 DEF op, n

---------------------------------------------------------------------------
(* Registry credentials. *)

\* A map has an entry for a registry.
Knows(c, host) == \E k \in DOMAIN c : Match(k, host)

\* What a map becomes when others are appended: it knows the registries of all, and for
\* a registry it knew before it has the entries it had.
Joins(c, d, maps, host) ==
    /\ Knows(d, host) <=> Knows(c, host) \/ \E m \in maps : Knows(m, host)
    /\ \A k \in DOMAIN d : Match(k, host) =>
         \/ k \in DOMAIN c /\ d[k] = c[k]
         \/ ~Knows(c, host) /\ \E m \in maps : k \in DOMAIN m /\ d[k] = m[k]
    /\ \A k \in DOMAIN c : Match(k, host) => k \in DOMAIN d /\ d[k] = c[k]

LEMMA JoinsTwice ==
    ASSUME NEW c, NEW d, NEW e, NEW maps, NEW m, NEW host,
           Joins(c, d, maps, host), Joins(d, e, {m}, host)
    PROVE  Joins(c, e, maps \cup {m}, host)
<1>1. Knows(e, host) <=> Knows(c, host) \/ \E x \in maps \cup {m} : Knows(x, host)
  BY DEF Joins
<1>2. ASSUME NEW k \in DOMAIN e, Match(k, host)
      PROVE  \/ k \in DOMAIN c /\ e[k] = c[k]
             \/ ~Knows(c, host) /\ \E x \in maps \cup {m} : k \in DOMAIN x /\ e[k] = x[k]
  <2>1. CASE k \in DOMAIN d /\ e[k] = d[k]
    BY <1>2, <2>1 DEF Joins
  <2>2. CASE ~Knows(d, host) /\ k \in DOMAIN m /\ e[k] = m[k]
    BY <2>2 DEF Joins
  <2> QED
    BY <1>2, <2>1, <2>2 DEF Joins
<1>3. ASSUME NEW k \in DOMAIN c, Match(k, host) PROVE k \in DOMAIN e /\ e[k] = c[k]
  BY <1>3 DEF Joins
<1> QED
  BY <1>1, <1>2, <1>3 DEF Joins

LEMMA ContainsKnows == ASSUME NEW c, NEW k PROVE contains(c, k) <=> Knows(c, k.host)
  BY DEF contains, Knows

LEMMA MatchHost == ASSUME NEW k, NEW host, Match(k, host) PROVE k.host = host
  BY DEF Match

\* One key: it is added where its registry is not known yet.
LEMMA JoinKey ==
    ASSUME NEW c, NEW d, NEW part, NEW more, NEW key, NEW host, NEW whole,
           DOMAIN whole = DOMAIN part \cup {key}, whole[key] = more[key],
           \A k \in DOMAIN part : whole[k] = part[k],
           Joins(c, d, {part}, host)
    PROVE  Joins(c, IF contains(d, key) THEN d ELSE With(d, key, more[key]), {whole}, host)
<1>1. Knows(whole, host) <=> Knows(part, host) \/ Match(key, host)
  BY DEF Knows
<1>2. \A k \in DOMAIN part : k \in DOMAIN whole /\ whole[k] = part[k]
  OBVIOUS
<1>3. CASE contains(d, key)
  <2>1. Match(key, host) => Knows(d, host)
    BY <1>3, ContainsKnows, MatchHost
  <2>2. Knows(d, host) <=> Knows(c, host) \/ Knows(whole, host)
    BY <1>1, <2>1 DEF Joins
  <2>3. \A k \in DOMAIN d : Match(k, host) =>
           \/ k \in DOMAIN c /\ d[k] = c[k]
           \/ ~Knows(c, host) /\ k \in DOMAIN whole /\ d[k] = whole[k]
    BY <1>2 DEF Joins
  <2>4. \A k \in DOMAIN c : Match(k, host) => k \in DOMAIN d /\ d[k] = c[k]
    BY DEF Joins
  <2>5. Joins(c, d, {whole}, host)
    BY <2>2, <2>3, <2>4 DEF Joins
  <2> QED
    BY <1>3, <2>5
<1>4. CASE ~contains(d, key)
  <2> DEFINE e == With(d, key, more[key])
  <2>1. /\ DOMAIN e = DOMAIN d \cup {key} /\ e[key] = more[key]
        /\ \A k \in DOMAIN d : k # key => e[k] = d[k]
    BY DEF With
  <2>2. key \in DOMAIN whole /\ whole[key] = more[key]
    OBVIOUS
  <2> HIDE DEF e
  <2>3. Knows(e, host) <=> Knows(d, host) \/ Match(key, host)
    BY <2>1 DEF Knows
  <2>4. Match(key, host) => ~Knows(d, host)
    BY <1>4, ContainsKnows, MatchHost
  <2>5. Knows(e, host) <=> Knows(c, host) \/ Knows(whole, host)
    BY <1>1, <2>3 DEF Joins
  <2>6. ASSUME NEW k \in DOMAIN e, Match(k, host)
        PROVE  \/ k \in DOMAIN c /\ e[k] = c[k]
               \/ ~Knows(c, host) /\ k \in DOMAIN whole /\ e[k] = whole[k]
    <3>1. CASE k = key
      <4>1. ~Knows(c, host)
        BY <2>4, <2>6, <3>1 DEF Joins
      <4> QED
        BY <2>1, <2>2, <3>1, <4>1
    <3>2. CASE k # key
      <4>1. k \in DOMAIN d /\ e[k] = d[k]
        BY <2>1, <3>2
      <4>2. \/ k \in DOMAIN c /\ d[k] = c[k]
            \/ ~Knows(c, host) /\ k \in DOMAIN part /\ d[k] = part[k]
        BY <2>6, <4>1 DEF Joins
      <4> QED
        BY <1>2, <4>1, <4>2
    <3> QED
      BY <3>1, <3>2
  <2>7. ASSUME NEW k \in DOMAIN c, Match(k, host) PROVE k \in DOMAIN e /\ e[k] = c[k]
    <3>1. k \in DOMAIN d /\ d[k] = c[k]
      BY <2>7 DEF Joins
    <3>2. k # key
      BY <2>4, <2>7, <3>1 DEF Knows
    <3> QED
      BY <2>1, <3>1, <3>2
  <2>8. Joins(c, e, {whole}, host)
    BY <2>5, <2>6, <2>7 DEF Joins
  <2> QED
    BY <1>4, <2>8 DEF e
<1> QED
  BY <1>3, <1>4

\* All keys of a map, in some order.
LEMMA JoinKeys ==
    ASSUME NEW c, NEW more, NEW order, IsList(order), Range(order) = DOMAIN more, NEW host
    PROVE  Joins(c, AppendKeys(c, more, order), {more}, host)
<1> DEFINE n == Len(order)
           part(i) == [k \in {order[j] : j \in 1 .. i} |-> more[k]]
<1>1. n \in Nat /\ DOMAIN order = 1 .. n
  BY ListIs
<1>2. PICK acc : /\ acc[0] = c
                 /\ \A i \in 1 .. n : acc[i] = IF contains(acc[i - 1], order[i]) THEN acc[i - 1]
                                               ELSE With(acc[i - 1], order[i], more[order[i]])
                 /\ AppendKeys(c, more, order) = acc[n]
  BY AppendKeysSteps
<1> HIDE DEF n
<1> DEFINE P == {i \in 0 .. n : Joins(c, acc[i], {part(i)}, host)}
<1>3. 0 \in P
  <2>1. DOMAIN part(0) = {}
    OBVIOUS
  <2>2. ~Knows(part(0), host)
    BY <2>1 DEF Knows
  <2> HIDE DEF part
  <2>3. Joins(c, c, {part(0)}, host)
    BY <2>2 DEF Joins
  <2> QED
    BY <1>1, <1>2, <2>3
<1>4. ASSUME NEW i \in 0 .. n - 1, i \in P PROVE i + 1 \in P
  <2>1. i + 1 \in 1 .. n /\ i + 1 \in 0 .. n /\ (i + 1) - 1 = i
    BY <1>1
  <2>2. acc[i + 1] = IF contains(acc[i], order[i + 1]) THEN acc[i]
                     ELSE With(acc[i], order[i + 1], more[order[i + 1]])
    BY <1>2, <2>1
  <2>3. 1 .. i + 1 = (1 .. i) \cup {i + 1}
    BY <1>1
  <2>4. {order[j] : j \in 1 .. i + 1} = {order[j] : j \in 1 .. i} \cup {order[i + 1]}
    BY <2>3
  <2>5. /\ DOMAIN part(i + 1) = DOMAIN part(i) \cup {order[i + 1]}
        /\ part(i + 1)[order[i + 1]] = more[order[i + 1]]
        /\ \A k \in DOMAIN part(i) : part(i + 1)[k] = part(i)[k]
    BY <2>4
  <2> HIDE DEF part
  <2> DEFINE key == order[i + 1]
             now == part(i)
             then == part(i + 1)
  <2>6. Joins(c, acc[i], {now}, host)
    BY <1>4
  <2>7. /\ DOMAIN then = DOMAIN now \cup {key} /\ then[key] = more[key]
        /\ \A k \in DOMAIN now : then[k] = now[k]
        /\ acc[i + 1] = IF contains(acc[i], key) THEN acc[i] ELSE With(acc[i], key, more[key])
    BY <2>2, <2>5
  <2> HIDE DEF key, now, then
  <2>8. Joins(c, IF contains(acc[i], key) THEN acc[i] ELSE With(acc[i], key, more[key]), {then}, host)
    BY <2>6, <2>7, JoinKey
  <2>9. Joins(c, acc[i + 1], {then}, host)
    BY <2>7, <2>8
  <2> QED
    BY <2>1, <2>9 DEF then
<1>5. n \in P
  <2> HIDE DEF P
  <2>1. n \in 0 .. n /\ \A k \in 0 .. n - 1 : k \in P => k + 1 \in P
    BY <1>1, <1>4
  <2> QED
    BY <1>1, <1>3, <2>1, Upto
<1>6. DOMAIN part(n) = DOMAIN more /\ \A k \in DOMAIN more : part(n)[k] = more[k]
  <2>1. {order[j] : j \in 1 .. n} = DOMAIN more
    BY <1>1 DEF Range
  <2> QED
    BY <2>1
<1>7. Joins(c, acc[n], {part(n)}, host)
  BY <1>5
<1> HIDE DEF part
<1>8. Joins(c, acc[n], {more}, host)
  BY <1>6, <1>7 DEF Joins, Knows
<1> QED
  BY <1>2, <1>8

\* The orders of a finite set are lists of all its elements.
LEMMA Orders ==
    ASSUME NEW S, IsFiniteSet(S)
    PROVE  /\ SetToSeqs(S) # {}
           /\ \A order \in SetToSeqs(S) : IsList(order) /\ Range(order) = S
<1> DEFINE n == Cardinality(S)
<1>1. n \in Nat /\ IsFiniteSet(1 .. n) /\ Cardinality(1 .. n) = n
  BY FS_CardinalityType, FS_Interval
<1>2. \E order : order \in SetToSeqs(S)
  <2>1. PICK f : f \in Bijection(1 .. n, S)
    BY <1>1, FS_CardinalityType DEF ExistsBijection
  <2>2. f \in [1 .. n -> S] /\ \A i, j \in 1 .. n : i # j => f[i] # f[j]
    BY <2>1 DEF Bijection, Injection, IsInjective
  <2> QED
    BY <2>2 DEF SetToSeqs
<1>3. ASSUME NEW order \in SetToSeqs(S) PROVE IsList(order) /\ Range(order) = S
  <2>1. order \in [1 .. n -> S] /\ \A i, j \in 1 .. n : i # j => order[i] # order[j]
    BY <1>3 DEF SetToSeqs
  <2>2. order = [i \in 1 .. n |-> order[i]]
    BY <2>1
  <2>3. IsList(order)
    BY <1>1, <2>2, FunctionIsList
  <2>4. order \in Injection(1 .. n, S)
    BY <2>1 DEF Injection, IsInjective
  <2>5. order \in Surjection(1 .. n, S)
    BY <1>1, <2>4, FS_Injection
  <2>6. Range(order) = S
    BY <2>1, <2>5 DEF Surjection, Range
  <2> QED
    BY <2>3, <2>6
<1> QED
  BY <1>2, <1>3

LEMMA JoinMap ==
    ASSUME NEW c, NEW more, IsFiniteSet(DOMAIN more), NEW host
    PROVE  Append_(c, more) # {} /\ \A d \in Append_(c, more) : Joins(c, d, {more}, host)
<1>1. Append_(c, more) # {}
  BY Orders DEF Append_
<1>2. ASSUME NEW d \in Append_(c, more) PROVE Joins(c, d, {more}, host)
  <2>1. PICK order \in SetToSeqs(DOMAIN more) : d = AppendKeys(c, more, order)
    BY DEF Append_
  <2>2. IsList(order) /\ Range(order) = DOMAIN more
    BY Orders
  <2> QED
    BY <2>1, <2>2, JoinKeys
<1> QED
  BY <1>1, <1>2

\* The maps of a list.
LEMMA JoinMaps ==
    ASSUME NEW possible, NEW list, IsList(list), \A i \in DOMAIN list : IsFiniteSet(DOMAIN list[i]),
           NEW host
    PROVE  /\ possible # {} => AppendEach(possible, list) # {}
           /\ \A d \in AppendEach(possible, list) : \E c \in possible : Joins(c, d, Range(list), host)
<1> DEFINE n == Len(list)
           maps(i) == {list[j] : j \in 1 .. i}
<1>1. n \in Nat /\ DOMAIN list = 1 .. n
  BY ListIs
<1>2. PICK acc : /\ acc[0] = possible
                 /\ \A i \in 1 .. n : acc[i] = AppendAll(acc[i - 1], list[i])
                 /\ AppendEach(possible, list) = acc[n]
  BY AppendEachSteps
<1> HIDE DEF n
<1> DEFINE P == {i \in 0 .. n : /\ possible # {} => acc[i] # {}
                                /\ \A d \in acc[i] : \E c \in possible : Joins(c, d, maps(i), host)}
<1>3. 0 \in P
  <2>1. maps(0) = {}
    OBVIOUS
  <2> HIDE DEF maps
  <2>2. \A c \in possible : Joins(c, c, maps(0), host)
    BY <2>1 DEF Joins
  <2> QED
    BY <1>1, <1>2, <2>2
<1>4. ASSUME NEW i \in 0 .. n - 1, i \in P PROVE i + 1 \in P
  <2> DEFINE m == list[i + 1]
  <2>1. i + 1 \in 1 .. n /\ i + 1 \in 0 .. n /\ (i + 1) - 1 = i
    BY <1>1
  <2>2. acc[i + 1] = AppendAll(acc[i], m) /\ IsFiniteSet(DOMAIN m)
    BY <1>1, <1>2, <2>1
  <2>3. 1 .. i + 1 = (1 .. i) \cup {i + 1}
    BY <1>1
  <2>4. maps(i + 1) = maps(i) \cup {m}
    BY <2>3
  <2> HIDE DEF m, maps
  <2>5. possible # {} => acc[i + 1] # {}
    <3> SUFFICES ASSUME possible # {} PROVE acc[i + 1] # {}
      OBVIOUS
    <3>1. PICK d : d \in acc[i]
      BY <1>4
    <3>2. Append_(d, m) # {}
      BY <2>2, JoinMap
    <3> QED
      BY <2>2, <3>1, <3>2 DEF AppendAll
  <2>6. ASSUME NEW e \in acc[i + 1] PROVE \E c \in possible : Joins(c, e, maps(i + 1), host)
    <3>1. PICK d \in acc[i] : e \in Append_(d, m)
      BY <2>2 DEF AppendAll
    <3>2. PICK c \in possible : Joins(c, d, maps(i), host)
      BY <1>4
    <3>3. Joins(d, e, {m}, host)
      BY <2>2, <3>1, JoinMap
    <3>4. Joins(c, e, maps(i) \cup {m}, host)
      BY <3>2, <3>3, JoinsTwice
    <3> QED
      BY <2>4, <3>4
  <2> QED
    BY <2>1, <2>5, <2>6
<1>5. n \in P
  <2> HIDE DEF P
  <2>1. n \in 0 .. n /\ \A k \in 0 .. n - 1 : k \in P => k + 1 \in P
    BY <1>1, <1>4
  <2> QED
    BY <1>1, <1>3, <2>1, Upto
<1>6. maps(n) = Range(list)
  BY <1>1 DEF Range
<1> HIDE DEF maps
<1> QED
  BY <1>2, <1>5, <1>6

\* The basic credentials: for each key of a flag there is an entry, and each entry is
\* that of a flag.
LEMMA BasicCreds ==
    ASSUME NEW flags, IsList(flags)
    PROVE  LET c == ParseBasicAuthSecrets(flags)
           IN  /\ \A a \in Range(flags) : \A k \in a[2].docker : k \in DOMAIN c
               /\ \A k \in DOMAIN c : \E a \in Range(flags) : k \in a[2].docker /\ c[k] = a[2].name
<1> DEFINE n == Len(flags)
<1>1. n \in Nat /\ DOMAIN flags = 1 .. n
  BY ListIs
<1>2. PICK acc : /\ acc[0] = NoCreds
                 /\ \A i \in 1 .. n : acc[i] = [x \in DOMAIN acc[i - 1] \cup flags[i][2].docker |->
                        IF x \in flags[i][2].docker THEN flags[i][2].name ELSE acc[i - 1][x]]
                 /\ ParseBasicAuthSecrets(flags) = acc[n]
  BY BasicSteps
<1> HIDE DEF n
<1> DEFINE All(i) == \A j \in 1 .. i : \A k \in flags[j][2].docker : k \in DOMAIN acc[i]
           Only(i) == \A k \in DOMAIN acc[i] : \E j \in 1 .. i : k \in flags[j][2].docker
                                                               /\ acc[i][k] = flags[j][2].name
           P == {i \in 0 .. n : All(i) /\ Only(i)}
<1>3. 0 \in P
  BY <1>1, <1>2 DEF NoCreds
<1>4. ASSUME NEW i \in 0 .. n - 1, i \in P PROVE i + 1 \in P
  <2>1. i + 1 \in 1 .. n /\ i + 1 \in 0 .. n /\ (i + 1) - 1 = i /\ 1 .. i + 1 = (1 .. i) \cup {i + 1}
    BY <1>1
  <2> DEFINE s == flags[i + 1][2]
  <2>2. /\ DOMAIN acc[i + 1] = DOMAIN acc[i] \cup s.docker
        /\ \A x \in DOMAIN acc[i + 1] : acc[i + 1][x] = IF x \in s.docker THEN s.name ELSE acc[i][x]
    <3>1. acc[i + 1] = [x \in DOMAIN acc[(i + 1) - 1] \cup flags[i + 1][2].docker |->
              IF x \in flags[i + 1][2].docker THEN flags[i + 1][2].name ELSE acc[(i + 1) - 1][x]]
      BY <1>2, <2>1, Zenon
    <3> QED
      BY <2>1, <3>1
  <2>3. All(i + 1)
    BY <1>4, <2>1, <2>2
  <2>4. ASSUME NEW k \in DOMAIN acc[i + 1]
        PROVE  \E j \in 1 .. i + 1 : k \in flags[j][2].docker /\ acc[i + 1][k] = flags[j][2].name
    <3>1. CASE k \in s.docker
      BY <2>1, <2>2, <3>1
    <3>2. CASE k \notin s.docker
      BY <1>4, <2>1, <2>2, <3>2
    <3> QED
      BY <3>1, <3>2
  <2> QED
    BY <2>1, <2>3, <2>4
<1>5. n \in P
  <2> HIDE DEF P
  <2>1. n \in 0 .. n /\ \A k \in 0 .. n - 1 : k \in P => k + 1 \in P
    BY <1>1, <1>4
  <2> QED
    BY <1>1, <1>3, <2>1, Upto
<1>6. All(n) /\ Only(n)
  BY <1>5
<1> QED
  BY <1>1, <1>2, <1>6 DEF Range

LEMMA FlaggedArgs ==
    ASSUME NEW args, IsList(args), NEW flags
    PROVE  IsList(Flagged(args, flags)) /\ Range(Flagged(args, flags)) = {a \in Range(args) : a[1] \in flags}
<1> DEFINE places == {i \in DOMAIN args : args[i][1] \in flags}
<1>1. Flagged(args, flags) = Pick(args, places)
  BY DEF Flagged
<1>2. {args[i] : i \in {j \in DOMAIN args : j \in places}} = {a \in Range(args) : a[1] \in flags}
  BY DEF Range
<1> HIDE DEF places
<1> QED
  BY <1>1, <1>2, Picked

\* The registry keys that come with a flag.
Given(a) == IF a[1] = "basic-docker" THEN a[2].docker
            ELSE IF a[1] \in {"dockercfg", "dockerconfig"} THEN a[2].keys ELSE {}

\* The flags of a program speak of secrets with finitely many keys.
AreArgs(args) == IsList(args) /\ \A a \in Range(args) : IsFiniteSet(a[2].keys) /\ IsFiniteSet(a[2].docker)

\* The maps of the docker config secrets in a list of flags.
Configs(args) == [i \in DOMAIN args |-> DockerConfig(args[i][2])]

LEMMA ConfigsAre ==
    ASSUME NEW args, AreArgs(args)
    PROVE  /\ IsList(Configs(args)) /\ \A i \in DOMAIN Configs(args) : IsFiniteSet(DOMAIN Configs(args)[i])
           /\ Range(Configs(args)) = {DockerConfig(a[2]) : a \in Range(args)}
<1>1. Len(args) \in Nat /\ DOMAIN args = 1 .. Len(args)
  BY ListIs DEF AreArgs
<1>2. IsList(Configs(args))
  <2>1. Configs(args) = [i \in 1 .. Len(args) |-> Configs(args)[i]]
    BY <1>1 DEF Configs
  <2> QED
    BY <1>1, <2>1, FunctionIsList
<1>3. ASSUME NEW i \in DOMAIN args PROVE IsFiniteSet(DOMAIN Configs(args)[i])
  <2>1. IsFiniteSet(args[i][2].keys)
    BY DEF AreArgs, Range
  <2>2. DOMAIN Configs(args)[i] = args[i][2].keys
    BY DEF Configs, DockerConfig
  <2> QED
    BY <2>1, <2>2
<1>4. Range(Configs(args)) = {DockerConfig(a[2]) : a \in Range(args)}
  BY DEF Range, Configs
<1> QED
  BY <1>2, <1>3, <1>4 DEF Configs

\* What the credentials of a program know of a registry: a key of one of its flags, and
\* the secret of that flag.
LEMMA LoadedCreds ==
    ASSUME NEW args, AreArgs(args), NEW d \in LoadCreds(args), NEW host
    PROVE  /\ Knows(d, host) <=> \E a \in Range(args) : \E k \in Given(a) : Match(k, host)
           /\ \A k \in DOMAIN d : Match(k, host) =>
                \E a \in Range(args) : k \in Given(a) /\ d[k] = a[2].name
<1> DEFINE basics == Flagged(args, {"basic-docker"})
           cfgs == Flagged(args, {"dockercfg"}) \o Flagged(args, {"dockerconfig"})
           basic == ParseBasicAuthSecrets(basics)
           maps == Range(Configs(cfgs))
<1>1. IsList(args)
  BY DEF AreArgs
<1>2. IsList(basics) /\ Range(basics) = {a \in Range(args) : a[1] = "basic-docker"}
  BY <1>1, FlaggedArgs
<1>3. IsList(cfgs) /\ Range(cfgs) = {a \in Range(args) : a[1] \in {"dockercfg", "dockerconfig"}}
  <2>1. \A flags : /\ IsList(Flagged(args, flags))
                   /\ Range(Flagged(args, flags)) = {a \in Range(args) : a[1] \in flags}
    BY <1>1, FlaggedArgs
  <2>2. /\ Range(Flagged(args, {"dockercfg"})) = {a \in Range(args) : a[1] = "dockercfg"}
        /\ Range(Flagged(args, {"dockerconfig"})) = {a \in Range(args) : a[1] = "dockerconfig"}
    BY <2>1
  <2>3. IsList(cfgs) /\ Range(cfgs) = Range(Flagged(args, {"dockercfg"})) \cup Range(Flagged(args, {"dockerconfig"}))
    BY <2>1, Joined
  <2> QED
    BY <2>2, <2>3
<1>4. /\ \A a \in Range(basics) : \A k \in a[2].docker : k \in DOMAIN basic
      /\ \A k \in DOMAIN basic : \E a \in Range(basics) : k \in a[2].docker /\ basic[k] = a[2].name
  <2> HIDE DEF basics
  <2> QED
    BY <1>2, BasicCreds
<1>5. LoadCreds(args) = AppendEach({basic}, Configs(cfgs))
  BY DEF LoadCreds, ParseDockerConfigSecrets, Configs
<1> HIDE DEF basics, cfgs, basic
<1>6. AreArgs(cfgs)
  BY <1>3 DEF AreArgs
<1>7. Joins(basic, d, maps, host) /\ maps = {DockerConfig(a[2]) : a \in Range(cfgs)}
  BY <1>5, <1>6, ConfigsAre, JoinMaps
<1> HIDE DEF maps
<1>8. Knows(basic, host) <=> \E a \in Range(basics) : \E k \in a[2].docker : Match(k, host)
  BY <1>4 DEF Knows
<1>9. \A a : DOMAIN DockerConfig(a[2]) = a[2].keys
  BY DEF DockerConfig
<1>10. (\E m \in maps : Knows(m, host)) <=> \E a \in Range(cfgs) : \E k \in a[2].keys : Match(k, host)
  BY <1>7, <1>9 DEF Knows
<1>11. /\ \A a \in Range(basics) : a \in Range(args) /\ Given(a) = a[2].docker
       /\ \A a \in Range(cfgs) : a \in Range(args) /\ Given(a) = a[2].keys
       /\ \A a \in Range(args) : Given(a) # {} => a \in Range(basics) \/ a \in Range(cfgs)
  BY <1>2, <1>3 DEF Given
<1>12. Knows(d, host) <=> \E a \in Range(args) : \E k \in Given(a) : Match(k, host)
  <2>1. Knows(d, host) <=> \/ \E a \in Range(basics) : \E k \in a[2].docker : Match(k, host)
                           \/ \E a \in Range(cfgs) : \E k \in a[2].keys : Match(k, host)
    BY <1>7, <1>8, <1>10 DEF Joins
  <2> QED
    BY <1>11, <2>1
<1>13. ASSUME NEW k \in DOMAIN d, Match(k, host)
       PROVE  \E a \in Range(args) : k \in Given(a) /\ d[k] = a[2].name
  <2>1. CASE k \in DOMAIN basic /\ d[k] = basic[k]
    BY <1>4, <1>11, <2>1
  <2>2. CASE \E m \in maps : k \in DOMAIN m /\ d[k] = m[k]
    <3>1. PICK a \in Range(cfgs) : k \in DOMAIN DockerConfig(a[2]) /\ d[k] = DockerConfig(a[2])[k]
      BY <1>7, <2>2
    <3>2. k \in a[2].keys /\ d[k] = a[2].name
      BY <3>1 DEF DockerConfig
    <3> QED
      BY <1>11, <3>2
  <2> QED
    BY <1>7, <1>13, <2>1, <2>2 DEF Joins
<1> QED
  BY <1>12, <1>13

\* What the controller's keychain knows of a registry.
LEMMA AccountCreds ==
    ASSUME NEW list, IsList(list), \A s \in Range(list) : IsFiniteSet(DOMAIN SecretCreds(s)), NEW host
    PROVE  /\ keychainFromServiceAccount(list) # {}
           /\ \A d \in keychainFromServiceAccount(list) :
                /\ Knows(d, host) <=> \E s \in Range(list) : \E k \in DOMAIN SecretCreds(s) : Match(k, host)
                /\ \A k \in DOMAIN d : Match(k, host) =>
                     \E s \in Range(list) : k \in DOMAIN SecretCreds(s) /\ d[k] = s.name
<1> DEFINE maps == [i \in DOMAIN list |-> SecretCreds(list[i])]
<1>1. Len(list) \in Nat /\ DOMAIN list = 1 .. Len(list)
  BY ListIs
<1>2. IsList(maps) /\ DOMAIN maps = DOMAIN list /\ Range(maps) = {SecretCreds(s) : s \in Range(list)}
  <2>1. IsList(maps)
    BY <1>1, FunctionIsList
  <2> QED
    BY <2>1 DEF Range
<1>3. \A i \in DOMAIN maps : IsFiniteSet(DOMAIN maps[i])
  BY DEF Range
<1>4. keychainFromServiceAccount(list) = AppendEach({NoCreds}, maps)
  BY DEF keychainFromServiceAccount
<1> HIDE DEF maps
<1>5. keychainFromServiceAccount(list) # {}
  BY <1>2, <1>3, <1>4, JoinMaps
<1>6. \A s : \A k \in DOMAIN SecretCreds(s) : SecretCreds(s)[k] = s.name
  BY DEF SecretCreds, DockerConfig, NoCreds
<1>7. ASSUME NEW d \in keychainFromServiceAccount(list)
      PROVE  /\ Knows(d, host) <=> \E s \in Range(list) : \E k \in DOMAIN SecretCreds(s) : Match(k, host)
             /\ \A k \in DOMAIN d : Match(k, host) =>
                  \E s \in Range(list) : k \in DOMAIN SecretCreds(s) /\ d[k] = s.name
  <2>1. Joins(NoCreds, d, Range(maps), host)
    BY <1>2, <1>3, <1>4, JoinMaps
  <2>2. DOMAIN NoCreds = {} /\ ~Knows(NoCreds, host)
    BY DEF NoCreds, Knows
  <2>3. Knows(d, host) <=> \E m \in Range(maps) : Knows(m, host)
    BY <2>1, <2>2 DEF Joins
  <2>4. Knows(d, host) <=> \E s \in Range(list) : Knows(SecretCreds(s), host)
    BY <1>2, <2>3
  <2>5. \A k \in DOMAIN d : Match(k, host) => \E m \in Range(maps) : k \in DOMAIN m /\ d[k] = m[k]
    BY <2>1, <2>2 DEF Joins
  <2>6. \A k \in DOMAIN d : Match(k, host) =>
           \E s \in Range(list) : k \in DOMAIN SecretCreds(s) /\ d[k] = SecretCreds(s)[k]
    BY <1>2, <2>5
  <2> QED
    BY <1>6, <2>4, <2>6 DEF Knows
<1> QED
  BY <1>5, <1>7

\* The secrets of the service account, and the flags the generator makes of them.
Account == {SecretNamed(n) : n \in Range(case.secrets)}
GivenArgs ==
    LET names == fetchBuildSecrets.secrets
    IN  SecretArgs([i \in DOMAIN names |-> SecretNamed(names[i])])

\* The secrets of the account exist, and so do its pull secrets.
Existing == case \in Cases /\ Range(case.secrets) \cup Range(case.pullSecrets) \subseteq DOMAIN case.cluster

LEMMA AccountSecrets ==
    ASSUME Existing
    PROVE  /\ IsList(case.secrets)
           /\ \A n \in Range(case.secrets) : SecretNamed(n).name = n /\ n \in Nat /\ n # Anonymous
           /\ \A s \in Account : /\ s.name \in Range(case.secrets) /\ s = SecretNamed(s.name)
                                 /\ s.name # Anonymous /\ s.name \in Nat
                                 /\ IsFiniteSet(s.keys) /\ IsFiniteSet(s.docker)
<1>1. /\ IsList(case.secrets)
      /\ \A n \in DOMAIN case.cluster :
           /\ n \in Nat \ {Anonymous} /\ case.cluster[n].name = n
           /\ IsFiniteSet(case.cluster[n].keys) /\ IsFiniteSet(case.cluster[n].docker)
  BY CasesAssumption DEF Existing
<1>2. \A n \in Range(case.secrets) : n \in DOMAIN case.cluster
  BY DEF Existing
<1> QED
  BY <1>1, <1>2 DEF Account, SecretNamed

LEMMA ListedSecrets ==
    ASSUME Existing
    PROVE  LET list == SecretsForServiceAccount(case.secrets, case.cluster)
           IN  IsList(list) /\ Range(list) = Account
<1> DEFINE places == {i \in DOMAIN case.secrets : case.secrets[i] \in DOMAIN case.cluster}
           found == Pick(case.secrets, places)
           list == [i \in DOMAIN found |-> case.cluster[found[i]]]
<1>1. IsList(case.secrets)
  BY AccountSecrets
<1>2. IsList(found) /\ Range(found) = Range(case.secrets)
  <2>1. {case.secrets[i] : i \in {j \in DOMAIN case.secrets : j \in places}} = Range(case.secrets)
    BY DEF Existing, Range
  <2> HIDE DEF places
  <2> QED
    BY <1>1, <2>1, Picked
<1>3. SecretsForServiceAccount(case.secrets, case.cluster) = list
  BY DEF SecretsForServiceAccount
<1> HIDE DEF found
<1>4. Len(found) \in Nat /\ DOMAIN found = 1 .. Len(found)
  BY <1>2, ListIs
<1>5. IsList(list)
  BY <1>4, FunctionIsList
<1>6. Range(list) = Account
  BY <1>2 DEF Range, Account, SecretNamed
<1> QED
  BY <1>3, <1>5, <1>6

LEMMA ArgsAre ==
    ASSUME Existing
    PROVE  /\ AreArgs(GivenArgs)
           /\ \A a \in Range(GivenArgs) : a[2] \in Account /\ a[1] = SecretFlag(a[2]) /\ a = <<a[1], a[2]>>
           /\ \A s \in Account : SecretFlag(s) # "" => <<SecretFlag(s), s>> \in Range(GivenArgs)
<1> DEFINE names == Distinct(case.secrets)
           secrets == [i \in DOMAIN names |-> SecretNamed(names[i])]
           flags == [i \in DOMAIN secrets |-> <<SecretFlag(secrets[i]), secrets[i]>>]
           places == {i \in DOMAIN flags : flags[i][1] # ""}
<1>1. IsList(names) /\ Range(names) = Range(case.secrets)
  BY AccountSecrets, DistinctElements
<1>2. GivenArgs = Pick(flags, places)
  BY DEF GivenArgs, SecretArgs, fetchBuildSecrets
<1> HIDE DEF names
<1>3. Len(names) \in Nat /\ DOMAIN names = 1 .. Len(names)
  BY <1>1, ListIs
<1>4. Range(secrets) = Account /\ DOMAIN secrets = DOMAIN names
  BY <1>1 DEF Range, Account
<1> HIDE DEF secrets
<1>5. IsList(flags)
  BY <1>3, <1>4, FunctionIsList
<1>6. Range(GivenArgs) = {flags[i] : i \in places} /\ IsList(GivenArgs)
  <2>1. {flags[i] : i \in {j \in DOMAIN flags : j \in places}} = {flags[i] : i \in places}
    OBVIOUS
  <2> HIDE DEF flags, places
  <2> QED
    BY <1>2, <1>5, <2>1, Picked
<1>7. \A a \in Range(GivenArgs) : a[2] \in Account /\ a[1] = SecretFlag(a[2]) /\ a = <<a[1], a[2]>>
  <2> SUFFICES ASSUME NEW a \in Range(GivenArgs)
               PROVE  a[2] \in Account /\ a[1] = SecretFlag(a[2]) /\ a = <<a[1], a[2]>>
    OBVIOUS
  <2>1. PICK i \in places : a = flags[i]
    BY <1>6
  <2>2. i \in DOMAIN secrets /\ a = <<SecretFlag(secrets[i]), secrets[i]>>
    BY <2>1
  <2>3. secrets[i] \in Account
    BY <1>4, <2>2 DEF Range
  <2> QED
    BY <2>2, <2>3
<1>8. \A s \in Account : SecretFlag(s) # "" => <<SecretFlag(s), s>> \in Range(GivenArgs)
  <2> SUFFICES ASSUME NEW s \in Account, SecretFlag(s) # "" PROVE <<SecretFlag(s), s>> \in Range(GivenArgs)
    OBVIOUS
  <2>1. PICK i \in DOMAIN secrets : s = secrets[i]
    BY <1>4 DEF Range
  <2>2. i \in places /\ flags[i] = <<SecretFlag(s), s>>
    BY <2>1
  <2> QED
    BY <1>6, <2>2
<1>9. AreArgs(GivenArgs)
  BY <1>6, <1>7, AccountSecrets DEF AreArgs
<1> QED
  BY <1>7, <1>8, <1>9

\* The pod and the controller take the same keys from a secret.
LEMMA SameKeys ==
    ASSUME NEW s
    PROVE  /\ Given(<<SecretFlag(s), s>>) = DOMAIN SecretCreds(s)
           /\ DOMAIN SecretCreds(s) \subseteq s.keys \cup s.docker
<1>1. DOMAIN SecretCreds(s) = IF s.type = "basic-auth" THEN s.docker ELSE IF IsDockerConfig(s) THEN s.keys ELSE {}
  BY DEF SecretCreds, DockerConfig, NoCreds
<1>2. Given(<<SecretFlag(s), s>>) = DOMAIN SecretCreds(s)
  BY <1>1 DEF Given, SecretFlag, SecretIsUsed, IsDockerConfig
<1> QED
  BY <1>1, <1>2

LEMMA ResolveKnows ==
    ASSUME NEW c, NEW host, \A k \in DOMAIN c : Match(k, host) => c[k] # Anonymous
    PROVE  Knows(c, host) <=> Resolve(c, host) # {Anonymous}
<1> DEFINE matching == {k \in DOMAIN c : Match(k, host)}
<1>1. Resolve(c, host) = IF matching = {} THEN {Anonymous} ELSE {c[k] : k \in matching}
  BY DEF Resolve
<1>2. Knows(c, host) <=> matching # {}
  BY DEF Knows
<1>3. ASSUME matching # {} PROVE {c[k] : k \in matching} # {Anonymous}
  BY <1>3
<1> QED
  BY <1>1, <1>2, <1>3

\* A keychain of two: the second is asked where the first does not know the registry.
LEMMA TwoKeychains ==
    ASSUME NEW K, NEW N, NEW host
    PROVE  MultiKeychain(<<K, N>>, host) =
               IF \E c \in K : Resolve(c, host) # {Anonymous} THEN UNION {Resolve(c, host) : c \in K}
               ELSE IF \E c \in N : Resolve(c, host) # {Anonymous} THEN UNION {Resolve(c, host) : c \in N}
               ELSE {Anonymous}
<1> DEFINE chains == <<K, N>>
           knows(i) == \E c \in chains[i] : Resolve(c, host) # {Anonymous}
           first == {i \in DOMAIN chains : knows(i) /\ \A j \in 1 .. i - 1 : ~knows(j)}
<1>1. MultiKeychain(<<K, N>>, host) =
          IF first = {} THEN {Anonymous}
          ELSE UNION {Resolve(c, host) : c \in chains[CHOOSE i \in first : TRUE]}
  BY DEF MultiKeychain
<1>2. DOMAIN chains = {1, 2} /\ chains[1] = K /\ chains[2] = N /\ 1 .. 1 - 1 = {} /\ 1 .. 2 - 1 = {1}
  OBVIOUS
<1>3. first = IF knows(1) THEN {1} ELSE IF knows(2) THEN {2} ELSE {}
  <2> HIDE DEF chains, knows
  <2>1. 1 \in first <=> knows(1)
    BY <1>2
  <2>2. 2 \in first <=> knows(2) /\ ~knows(1)
    BY <1>2
  <2>3. first \subseteq {1, 2}
    BY <1>2
  <2> QED
    BY <2>1, <2>2, <2>3
<1> HIDE DEF first, chains
<1>4. CASE knows(1)
  <2>1. (CHOOSE i \in first : TRUE) = 1
    BY <1>3, <1>4
  <2> QED
    BY <1>1, <1>2, <1>3, <1>4, <2>1
<1>5. CASE ~knows(1) /\ knows(2)
  <2>1. (CHOOSE i \in first : TRUE) = 2
    BY <1>3, <1>5
  <2> QED
    BY <1>1, <1>2, <1>3, <1>5, <2>1
<1>6. CASE ~knows(1) /\ ~knows(2)
  BY <1>1, <1>2, <1>3, <1>6
<1> QED
  BY <1>4, <1>5, <1>6

\* The credentials of a program name secrets of the account.
LEMMA ProgramCreds ==
    ASSUME Existing, NEW c \in LoadCreds(GivenArgs), NEW host
    PROVE  /\ Knows(c, host) <=> \E s \in Account : \E k \in DOMAIN SecretCreds(s) : Match(k, host)
           /\ \A k \in DOMAIN c : Match(k, host) =>
                \E s \in Account : k \in DOMAIN SecretCreds(s) /\ c[k] = s.name
<1>1. /\ Knows(c, host) <=> \E a \in Range(GivenArgs) : \E k \in Given(a) : Match(k, host)
      /\ \A k \in DOMAIN c : Match(k, host) =>
           \E a \in Range(GivenArgs) : k \in Given(a) /\ c[k] = a[2].name
  <2>1. AreArgs(GivenArgs)
    BY ArgsAre
  <2> HIDE DEF GivenArgs
  <2> QED
    BY <2>1, LoadedCreds
<1>2. \A a \in Range(GivenArgs) : a[2] \in Account /\ Given(a) = DOMAIN SecretCreds(a[2])
  <2> SUFFICES ASSUME NEW a \in Range(GivenArgs)
               PROVE  a[2] \in Account /\ Given(a) = DOMAIN SecretCreds(a[2])
    OBVIOUS
  <2>1. a[2] \in Account /\ a[1] = SecretFlag(a[2]) /\ a = <<a[1], a[2]>>
    BY ArgsAre
  <2>2. a = <<SecretFlag(a[2]), a[2]>>
    BY <2>1
  <2> QED
    BY <2>1, <2>2, SameKeys
<1>3. ASSUME NEW s \in Account, DOMAIN SecretCreds(s) # {}
      PROVE  <<SecretFlag(s), s>> \in Range(GivenArgs) /\ Given(<<SecretFlag(s), s>>) = DOMAIN SecretCreds(s)
  <2>1. Given(<<SecretFlag(s), s>>) # {}
    BY <1>3, SameKeys
  <2>2. SecretFlag(s) # ""
    BY <2>1 DEF Given
  <2> QED
    BY <2>2, ArgsAre, SameKeys
<1>4. (\E a \in Range(GivenArgs) : \E k \in Given(a) : Match(k, host))
         <=> \E s \in Account : \E k \in DOMAIN SecretCreds(s) : Match(k, host)
  BY <1>2, <1>3
<1>5. ASSUME NEW k \in DOMAIN c, Match(k, host)
      PROVE  \E s \in Account : k \in DOMAIN SecretCreds(s) /\ c[k] = s.name
  BY <1>1, <1>2, <1>5
<1> QED
  BY <1>1, <1>4, <1>5

\* The flags of the pull secrets.
GivenPullArgs == PullArgs(fetchBuildSecrets.pull)

LEMMA PullArgsAre ==
    ASSUME Existing
    PROVE  /\ AreArgs(Flagged(GivenPullArgs, {"imagepull"}))
           /\ \A a \in Range(Flagged(GivenPullArgs, {"imagepull"})) :
                a \in Range(GivenPullArgs) /\ a[2].name # Anonymous
<1> DEFINE pull == Distinct(case.pullSecrets)
           places == {i \in DOMAIN pull : pull[i] \notin Range(case.secrets)}
           mine == Pick(pull, places)
           names == Distinct(mine \o case.builderPullSecrets)
           args == [i \in DOMAIN names |-> <<"imagepull", SecretNamed(names[i])>>]
<1>1. /\ IsList(case.pullSecrets) /\ IsList(case.builderPullSecrets)
      /\ Range(case.pullSecrets) \cup Range(case.builderPullSecrets) \subseteq DOMAIN case.cluster
      /\ \A n \in DOMAIN case.cluster :
           /\ IsFiniteSet(case.cluster[n].keys) /\ IsFiniteSet(case.cluster[n].docker)
           /\ case.cluster[n].name # Anonymous
  BY CasesAssumption DEF Existing
<1>2. GivenPullArgs = args
  BY DEF GivenPullArgs, PullArgs, fetchBuildSecrets
<1>3. IsList(pull) /\ Range(pull) = Range(case.pullSecrets)
  BY <1>1, DistinctElements
<1> HIDE DEF pull
<1>4. IsList(mine) /\ Range(mine) \subseteq Range(pull)
  <2> HIDE DEF places
  <2>1. IsList(mine) /\ Range(mine) = {pull[i] : i \in {j \in DOMAIN pull : j \in places}}
    BY <1>3, Picked
  <2> HIDE DEF mine
  <2> QED
    BY <2>1 DEF Range
<1> HIDE DEF mine
<1>5. IsList(mine \o case.builderPullSecrets)
      /\ Range(mine \o case.builderPullSecrets) = Range(mine) \cup Range(case.builderPullSecrets)
  BY <1>1, <1>4, Joined
<1>6. IsList(names) /\ Range(names) = Range(mine) \cup Range(case.builderPullSecrets)
  BY <1>5, DistinctElements
<1>7. Range(names) \subseteq DOMAIN case.cluster
  BY <1>1, <1>3, <1>4, <1>6
<1> HIDE DEF names
<1>8. Len(names) \in Nat /\ DOMAIN names = 1 .. Len(names)
  BY <1>6, ListIs
<1>9. IsList(args)
  BY <1>8, FunctionIsList
<1>10. ASSUME NEW a \in Range(args)
       PROVE  IsFiniteSet(a[2].keys) /\ IsFiniteSet(a[2].docker) /\ a[2].name # Anonymous
  <2>1. PICK i \in DOMAIN names : a = <<"imagepull", SecretNamed(names[i])>>
    BY DEF Range
  <2>2. names[i] \in DOMAIN case.cluster
    BY <1>7 DEF Range
  <2> QED
    BY <1>1, <2>1, <2>2 DEF SecretNamed
<1> HIDE DEF args
<1>11. /\ IsList(Flagged(args, {"imagepull"}))
       /\ Range(Flagged(args, {"imagepull"})) = {a \in Range(args) : a[1] \in {"imagepull"}}
  BY <1>9, FlaggedArgs
<1> QED
  BY <1>2, <1>10, <1>11 DEF AreArgs

\* Pull secrets do not change what the credentials have for a registry they know; for one
\* they do not know, they have that of a pull secret.
LEMMA PullSecretsJoin ==
    ASSUME Existing, NEW c, NEW d \in LoadPullCreds({c}, GivenPullArgs), NEW host
    PROVE  /\ Knows(c, host) => Resolve(d, host) = Resolve(c, host)
           /\ ~Knows(c, host) => \A k \in DOMAIN d : Match(k, host) =>
                \E a \in Range(GivenPullArgs) : k \in a[2].keys /\ d[k] = a[2].name /\ d[k] # Anonymous
<1> DEFINE args == Flagged(GivenPullArgs, {"imagepull"})
<1>1. LoadPullCreds({c}, GivenPullArgs) = AppendEach({c}, Configs(args))
  BY DEF LoadPullCreds, ParseDockerConfigSecrets, Configs
<1>2. AreArgs(args) /\ \A a \in Range(args) : a \in Range(GivenPullArgs) /\ a[2].name # Anonymous
  BY PullArgsAre
<1> HIDE DEF args
<1>3. /\ Joins(c, d, Range(Configs(args)), host)
      /\ Range(Configs(args)) = {DockerConfig(a[2]) : a \in Range(args)}
  BY <1>1, <1>2, ConfigsAre, JoinMaps
<1>4. ASSUME Knows(c, host) PROVE Resolve(d, host) = Resolve(c, host)
  <2>1. {k \in DOMAIN d : Match(k, host)} = {k \in DOMAIN c : Match(k, host)}
    BY <1>3, <1>4 DEF Joins
  <2>2. \A k \in {j \in DOMAIN c : Match(j, host)} : d[k] = c[k]
    BY <1>3, <1>4 DEF Joins
  <2> QED
    BY <2>1, <2>2 DEF Resolve
<1>5. ASSUME ~Knows(c, host), NEW k \in DOMAIN d, Match(k, host)
      PROVE  \E a \in Range(GivenPullArgs) : k \in a[2].keys /\ d[k] = a[2].name /\ d[k] # Anonymous
  <2>1. \E m \in Range(Configs(args)) : k \in DOMAIN m /\ d[k] = m[k]
    BY <1>3, <1>5 DEF Joins, Knows
  <2>2. PICK a \in Range(args) : k \in DOMAIN DockerConfig(a[2]) /\ d[k] = DockerConfig(a[2])[k]
    BY <1>3, <2>1
  <2>3. k \in a[2].keys /\ d[k] = a[2].name
    BY <2>2 DEF DockerConfig
  <2> QED
    BY <1>2, <2>3
<1> QED
  BY <1>4, <1>5

\* The keychain of a program: its credentials, else what the node knows.
LEMMA ThenTheNode ==
    ASSUME NEW e, NEW host
    PROVE  MultiKeychain(<<{e}, {case.node}>>, host) =
               IF Resolve(e, host) # {Anonymous} THEN Resolve(e, host) ELSE Resolve(case.node, host)
<1> DEFINE K == {e}
           N == {case.node}
           fromN == IF \E x \in N : Resolve(x, host) # {Anonymous}
                    THEN UNION {Resolve(x, host) : x \in N} ELSE {Anonymous}
<1>1. \A x : UNION {Resolve(y, host) : y \in {x}} = Resolve(x, host)
  OBVIOUS
<1>2. /\ UNION {Resolve(x, host) : x \in K} = Resolve(e, host)
      /\ UNION {Resolve(x, host) : x \in N} = Resolve(case.node, host)
  BY <1>1
<1>3. /\ (\E x \in K : Resolve(x, host) # {Anonymous}) <=> Resolve(e, host) # {Anonymous}
      /\ (\E x \in N : Resolve(x, host) # {Anonymous}) <=> Resolve(case.node, host) # {Anonymous}
  OBVIOUS
<1>4. fromN = Resolve(case.node, host)
  BY <1>2, <1>3
<1> HIDE DEF K, N
<1>5. MultiKeychain(<<K, N>>, host) = IF \E x \in K : Resolve(x, host) # {Anonymous}
                                      THEN UNION {Resolve(x, host) : x \in K} ELSE fromN
  BY TwoKeychains
<1> HIDE DEF fromN
<1>6. CASE Resolve(e, host) # {Anonymous}
  BY <1>2, <1>3, <1>5, <1>6 DEF K, N
<1>7. CASE Resolve(e, host) = {Anonymous}
  BY <1>3, <1>4, <1>5, <1>7 DEF K, N
<1> QED
  BY <1>6, <1>7

\* The credentials that were checked are those that are used; but where the account has none
\* for the registry, a pull secret for it takes the place of what the node has.
LEMMA CheckedIsUsed ==
    ASSUME Existing, NEW c \in LoadCreds(GivenArgs), NEW d \in LoadPullCreds({c}, GivenPullArgs), NEW host
    PROVE  \/ MultiKeychain(<<{d}, {case.node}>>, host) = MultiKeychain(<<{c}, {case.node}>>, host)
           \/ /\ \A b \in LoadCreds(GivenArgs) : Resolve(b, host) = {Anonymous}
              /\ MultiKeychain(<<{c}, {case.node}>>, host) = Resolve(case.node, host)
              /\ MultiKeychain(<<{d}, {case.node}>>, host) \subseteq
                   {a[2].name : a \in {x \in Range(GivenPullArgs) : \E k \in x[2].keys : Match(k, host)}}
<1> DEFINE names == {a[2].name : a \in {x \in Range(GivenPullArgs) : \E k \in x[2].keys : Match(k, host)}}
<1>1. \A e : ~Knows(e, host) => Resolve(e, host) = {Anonymous}
  BY DEF Knows, Resolve
<1>2. CASE Knows(c, host)
  <2>1. Resolve(d, host) = Resolve(c, host)
    BY <1>2, PullSecretsJoin
  <2> QED
    BY <2>1, ThenTheNode
<1>3. CASE ~Knows(c, host) /\ ~Knows(d, host)
  <2>1. Resolve(d, host) = Resolve(c, host)
    BY <1>1, <1>3
  <2> QED
    BY <2>1, ThenTheNode
<1>4. CASE ~Knows(c, host) /\ Knows(d, host)
  <2>1. ASSUME NEW b \in LoadCreds(GivenArgs) PROVE Resolve(b, host) = {Anonymous}
    <3>1. ~Knows(b, host)
      BY <1>4, ProgramCreds
    <3> QED
      BY <1>1, <3>1
  <2>2. MultiKeychain(<<{c}, {case.node}>>, host) = Resolve(case.node, host)
    BY <2>1, ThenTheNode
  <2>3. \A k \in DOMAIN d : Match(k, host) =>
           \E a \in Range(GivenPullArgs) : k \in a[2].keys /\ d[k] = a[2].name /\ d[k] # Anonymous
    BY <1>4, PullSecretsJoin
  <2>4. Resolve(d, host) # {Anonymous}
    BY <1>4, <2>3, ResolveKnows
  <2>5. Resolve(d, host) = {d[k] : k \in {j \in DOMAIN d : Match(j, host)}}
    BY <1>4 DEF Knows, Resolve
  <2>6. \A k \in DOMAIN d : Match(k, host) => d[k] \in names
    BY <2>3
  <2>7. Resolve(d, host) \subseteq names
    <3> HIDE DEF names
    <3> QED
      BY <2>5, <2>6
  <2>8. MultiKeychain(<<{d}, {case.node}>>, host) = Resolve(d, host)
    BY <2>4, ThenTheNode
  <2> QED
    BY <2>1, <2>2, <2>7, <2>8
<1> QED
  BY <1>2, <1>3, <1>4

\* A keychain of four, of which the first knows the registry.
LEMMA FirstKnows ==
    ASSUME NEW K, NEW A, NEW B, NEW C, NEW host, \E c \in K : Resolve(c, host) # {Anonymous}
    PROVE  MultiKeychain(<<K, A, B, C>>, host) = UNION {Resolve(c, host) : c \in K}
<1> DEFINE chains == <<K, A, B, C>>
           knows(i) == \E c \in chains[i] : Resolve(c, host) # {Anonymous}
           first == {i \in DOMAIN chains : knows(i) /\ \A j \in 1 .. i - 1 : ~knows(j)}
<1>1. MultiKeychain(<<K, A, B, C>>, host) =
          IF first = {} THEN {Anonymous}
          ELSE UNION {Resolve(c, host) : c \in chains[CHOOSE i \in first : TRUE]}
  BY DEF MultiKeychain
<1>2. DOMAIN chains = 1 .. 4 /\ chains[1] = K /\ 1 .. 1 - 1 = {} /\ \A i \in 1 .. 4 : i # 1 => 1 \in 1 .. i - 1
  OBVIOUS
<1>3. knows(1)
  BY <1>2
<1>4. first = {1}
  <2> HIDE DEF chains, knows
  <2>1. 1 \in first /\ \A i \in first : i = 1
    BY <1>2, <1>3
  <2> QED
    BY <2>1
<1> HIDE DEF first, chains
<1>5. (CHOOSE i \in first : TRUE) = 1
  BY <1>4
<1> QED
  BY <1>1, <1>2, <1>4, <1>5

\* The secrets of the account that name a registry.
Naming(host) ==
    {n \in Range(case.secrets) : \E k \in SecretNamed(n).keys \cup SecretNamed(n).docker : k.host = host}

\* The controller and the pod find the one secret there is for a registry.
LEMMA AgreeOnRegistry ==
    ASSUME Existing, NEW c \in LoadCreds(GivenArgs), NEW host, NEW pull,
           Cardinality(Naming(host)) = 1,
           \E n \in Naming(host) : \E k \in DOMAIN SecretCreds(SecretNamed(n)) : Match(k, host)
    PROVE  MultiKeychain(KeychainForSecretRef(SecretsForServiceAccount(case.secrets, case.cluster),
                                              case.volume, pull, case.node), host)
             = MultiKeychain(<<{c}, {case.node}>>, host)
<1> DEFINE names == Naming(host)
           list == SecretsForServiceAccount(case.secrets, case.cluster)
           K == keychainFromServiceAccount(list)
           Has == \E s \in Account : \E k \in DOMAIN SecretCreds(s) : Match(k, host)
<1>1. PICK n \in names : names = {n}
  <2>1. IsFiniteSet(names)
    <3>1. IsFiniteSet(Range(case.secrets))
      <4>1. /\ IsList(case.secrets) /\ Len(case.secrets) \in Nat
            /\ DOMAIN case.secrets = 1 .. Len(case.secrets)
            /\ \A i \in 1 .. Len(case.secrets) : case.secrets[i] \in Range(case.secrets)
        BY AccountSecrets, ListIs
      <4>2. case.secrets \in Surjection(1 .. Len(case.secrets), Range(case.secrets))
        <5>1. case.secrets \in [1 .. Len(case.secrets) -> Range(case.secrets)]
          BY <4>1 DEF IsList
        <5> QED
          BY <4>1, <5>1 DEF Surjection, Range
      <4>3. IsFiniteSet(1 .. Len(case.secrets))
        BY <4>1, FS_Interval
      <4> QED
        BY <4>2, <4>3, FS_Surjection
    <3> QED
      BY <3>1, FS_Subset DEF Naming
  <2> HIDE DEF names
  <2>2. \E x : names = {x}
    BY <2>1, FS_Singleton DEF names
  <2> QED
    BY <2>2
<1>2. \A s \in Account : \A k \in DOMAIN SecretCreds(s) : Match(k, host) => s.name = n
  <2> SUFFICES ASSUME NEW s \in Account, NEW k \in DOMAIN SecretCreds(s), Match(k, host) PROVE s.name = n
    OBVIOUS
  <2>1. k \in s.keys \cup s.docker /\ k.host = host
    BY SameKeys, MatchHost
  <2>2. s.name \in Range(case.secrets) /\ s = SecretNamed(s.name)
    BY AccountSecrets
  <2>3. s.name \in names
    BY <2>1, <2>2 DEF Naming
  <2> QED
    BY <1>1, <2>3
<1>3. n # Anonymous /\ Has
  BY <1>1, AccountSecrets DEF Naming, Account
<1> HIDE DEF names
<1>4. ASSUME NEW d, Knows(d, host) <=> Has,
             \A k \in DOMAIN d : Match(k, host) =>
               \E s \in Account : k \in DOMAIN SecretCreds(s) /\ d[k] = s.name
      PROVE  Resolve(d, host) = IF Has THEN {n} ELSE {Anonymous}
  <2> HIDE DEF Has
  <2>1. \A k \in DOMAIN d : Match(k, host) => d[k] = n
    BY <1>2, <1>4
  <2>2. Knows(d, host) <=> {k \in DOMAIN d : Match(k, host)} # {}
    BY DEF Knows
  <2>3. CASE Has
    BY <1>4, <2>1, <2>2, <2>3 DEF Resolve
  <2>4. CASE ~Has
    BY <1>4, <2>2, <2>4 DEF Resolve
  <2> QED
    BY <2>3, <2>4
<1>5. Resolve(c, host) = IF Has THEN {n} ELSE {Anonymous}
  BY <1>4, ProgramCreds
<1>6. K # {} /\ \A d \in K : Resolve(d, host) = IF Has THEN {n} ELSE {Anonymous}
  <2>1. IsList(list) /\ Range(list) = Account
    BY ListedSecrets
  <2>2. \A s \in Range(list) : IsFiniteSet(DOMAIN SecretCreds(s))
    <3> SUFFICES ASSUME NEW s \in Account PROVE IsFiniteSet(DOMAIN SecretCreds(s))
      BY <2>1
    <3>1. IsFiniteSet(s.keys) /\ IsFiniteSet(s.docker) /\ DOMAIN SecretCreds(s) \subseteq s.keys \cup s.docker
      BY AccountSecrets, SameKeys
    <3>2. IsFiniteSet(s.keys \cup s.docker)
      BY <3>1, FS_Union
    <3> QED
      BY <3>1, <3>2, FS_Subset
  <2> HIDE DEF list
  <2>3. K # {}
    BY <2>1, <2>2, AccountCreds
  <2>4. \A d \in K :
          /\ Knows(d, host) <=> \E s \in Range(list) : \E k \in DOMAIN SecretCreds(s) : Match(k, host)
          /\ \A k \in DOMAIN d : Match(k, host) =>
               \E s \in Range(list) : k \in DOMAIN SecretCreds(s) /\ d[k] = s.name
    BY <2>1, <2>2, AccountCreds
  <2> QED
    BY <1>4, <2>1, <2>3, <2>4
<1> HIDE DEF K, Has
<1>8. UNION {Resolve(x, host) : x \in K} = IF Has THEN {n} ELSE {Anonymous}
  <2>1. {Resolve(x, host) : x \in K} = {IF Has THEN {n} ELSE {Anonymous}}
    BY <1>6
  <2> QED
    BY <2>1
<1>9. MultiKeychain(<<{c}, {case.node}>>, host) = {n}
  BY <1>3, <1>5, ThenTheNode
<1>10. \E x \in K : Resolve(x, host) # {Anonymous}
  BY <1>3, <1>6
<1>11. \E A, B, C : KeychainForSecretRef(list, case.volume, pull, case.node) = <<K, A, B, C>>
  BY DEF KeychainForSecretRef, K
<1>12. MultiKeychain(KeychainForSecretRef(list, case.volume, pull, case.node), host) = {n}
  BY <1>3, <1>8, <1>10, <1>11, FirstKnows
<1> QED
  BY <1>9, <1>12

---------------------------------------------------------------------------
(* Archives and layers. *)

\* The directories on a way, and what is at its end.
Ways(path) == {SubSeq(path, 1, n) : n \in 1 .. Len(path)}

LEMMA WaysTo ==
    ASSUME NEW path, IsList(path), path # <<>>
    PROVE  /\ path \in Ways(path) /\ Ways(path) = Ways(Front(path)) \cup {path}
           /\ IsList(Front(path))
<1> DEFINE n == Len(path)
           S == Range(path)
<1>1. n \in Nat /\ n # 0 /\ path \in Seq(S) /\ SubSeq(path, 1, n) = path
  BY ListIs DEF IsList
<1>2. n - 1 \in Nat /\ Front(path) = SubSeq(path, 1, n - 1) /\ Front(path) \in Seq(S) /\ Len(Front(path)) = n - 1
  BY <1>1 DEF Front
<1>3. \A m \in 1 .. n - 1 : SubSeq(Front(path), 1, m) = SubSeq(path, 1, m)
  BY <1>1, <1>2
<1>4. 1 .. n = (1 .. n - 1) \cup {n}
  BY <1>1
<1>5. Ways(path) = {SubSeq(path, 1, m) : m \in 1 .. n - 1} \cup {path}
  BY <1>1, <1>4 DEF Ways
<1>6. Ways(Front(path)) = {SubSeq(path, 1, m) : m \in 1 .. n - 1}
  BY <1>2, <1>3 DEF Ways
<1>7. IsList(Front(path))
  <2>1. Front(path) = [i \in 1 .. n - 1 |-> Front(path)[i]]
    BY <1>2
  <2> QED
    BY <1>2, <2>1, FunctionIsList
<1> QED
  BY <1>5, <1>6, <1>7

\* What MkdirAll makes of a tree, and WriteFile, and what an entry of an archive does.
DirsMade(tree, path, made) ==
    /\ DOMAIN made = DOMAIN tree \cup Ways(path)
    /\ \A q \in DOMAIN tree : made[q] = tree[q]
    /\ \A q \in Ways(path) : q \notin DOMAIN tree => made[q].kind = "dir"

FileWritten(tree, path, data, made) ==
    /\ tree # Failed
    /\ DOMAIN made = DOMAIN tree \cup {path}
    /\ \A q \in DOMAIN tree : q # path => made[q] = tree[q]
    /\ made[path].data = data

EntryUnpacked(tree, e, made) ==
    /\ DOMAIN made = DOMAIN tree \cup Ways(e.path)
    /\ \A q \in DOMAIN tree : q # e.path => made[q] = tree[q]
    /\ e.kind = "file" => made[e.path].data = e.data
    /\ \A q \in DOMAIN made : made[q].kind = "file" =>
         \/ q \in DOMAIN tree /\ made[q] = tree[q]
         \/ e.kind = "file" /\ made[q].data = e.data

LEMMA MkdirAllMakes ==
    ASSUME NEW tree, NEW path, NEW mode, MkdirAll(tree, path, mode) # Failed
    PROVE  DirsMade(tree, path, MkdirAll(tree, path, mode))
<1> DEFINE missing == {q \in Ways(path) : q \notin DOMAIN tree}
           made == [q \in DOMAIN tree \cup missing |->
                      IF q \in DOMAIN tree THEN tree[q] ELSE Node("dir", <<>>, mode)]
<1>1. MkdirAll(tree, path, mode) = made
  BY DEF MkdirAll, Ways
<1>2. DOMAIN made = DOMAIN tree \cup Ways(path)
  OBVIOUS
<1>3. \A q \in DOMAIN tree : made[q] = tree[q]
  OBVIOUS
<1>4. \A q \in Ways(path) : q \notin DOMAIN tree => made[q].kind = "dir"
  BY DEF Node
<1> HIDE DEF made
<1> QED
  BY <1>1, <1>2, <1>3, <1>4 DEF DirsMade

LEMMA WriteFileMakes ==
    ASSUME NEW tree, NEW path, NEW data, NEW mode, WriteFile(tree, path, data, mode) # Failed
    PROVE  FileWritten(tree, path, data, WriteFile(tree, path, data, mode))
<1> DEFINE made == [q \in DOMAIN tree \cup {path} |->
                      IF q # path THEN tree[q]
                      ELSE Node("file", data, IF q \in DOMAIN tree THEN tree[q].mode ELSE mode)]
<1>1. WriteFile(tree, path, data, mode) = made /\ tree # Failed
  BY DEF WriteFile
<1>2. made[path].data = data
  BY DEF Node
<1>3. DOMAIN made = DOMAIN tree \cup {path} /\ \A q \in DOMAIN tree : q # path => made[q] = tree[q]
  OBVIOUS
<1> HIDE DEF made
<1> QED
  BY <1>1, <1>2, <1>3 DEF FileWritten

LEMMA UnpackMakes ==
    ASSUME NEW tree, NEW e, IsList(e.path), Unpack(tree, e) # Failed
    PROVE  /\ tree # Failed
           /\ e.kind \notin {"dir", "file"} => Unpack(tree, e) = tree
           /\ e.kind \in {"dir", "file"} => EntryUnpacked(tree, e, Unpack(tree, e))
           /\ e.kind = "file" => e.path \in DOMAIN Unpack(tree, e)
<1>1. tree # Failed
  BY DEF Unpack
<1>2. CASE e.kind \notin {"dir", "file"}
  BY <1>1, <1>2 DEF Unpack
<1>3. CASE e.kind = "dir"
  <2> DEFINE made == MkdirAll(tree, e.path, e.mode)
  <2>1. Unpack(tree, e) = made
    BY <1>1, <1>3 DEF Unpack
  <2>2. DirsMade(tree, e.path, made)
    BY <2>1, MkdirAllMakes
  <2> HIDE DEF made
  <2>3. EntryUnpacked(tree, e, made)
    <3>1. e.kind # "file"
      BY <1>3
    <3>2. \A q \in DOMAIN made : made[q].kind = "file" => q \in DOMAIN tree
      <4>1. "dir" # "file"
        OBVIOUS
      <4> QED
        BY <2>2, <4>1 DEF DirsMade
    <3> QED
      BY <2>2, <3>1, <3>2 DEF DirsMade, EntryUnpacked
  <2> QED
    BY <1>1, <1>3, <2>1, <2>3
<1>4. CASE e.kind = "file"
  <2> DEFINE dirs == MkdirAll(tree, Front(e.path), "x")
             made == WriteFile(dirs, e.path, e.data, e.mode)
  <2>1. Unpack(tree, e) = made /\ e.path # <<>>
    BY <1>1, <1>4 DEF Unpack
  <2>2. FileWritten(dirs, e.path, e.data, made)
    <3> HIDE DEF dirs
    <3> QED
      BY <2>1, WriteFileMakes
  <2>3. DirsMade(tree, Front(e.path), dirs)
    <3>1. dirs # Failed
      BY <2>2 DEF FileWritten
    <3> QED
      BY <3>1, MkdirAllMakes
  <2> HIDE DEF dirs, made
  <2>4. DOMAIN made = DOMAIN tree \cup Ways(e.path)
    <3>1. Ways(e.path) = Ways(Front(e.path)) \cup {e.path}
      BY <2>1, WaysTo
    <3> QED
      BY <2>2, <2>3, <3>1 DEF FileWritten, DirsMade
  <2>5. \A q \in DOMAIN tree : q # e.path => made[q] = tree[q]
    BY <2>2, <2>3 DEF FileWritten, DirsMade
  <2>6. ASSUME NEW q \in DOMAIN made, made[q].kind = "file", made[q].data # e.data
        PROVE  q \in DOMAIN tree /\ made[q] = tree[q]
    <3>1. q # e.path /\ q \in DOMAIN dirs /\ made[q] = dirs[q]
      BY <2>2, <2>6 DEF FileWritten
    <3>2. q \in DOMAIN tree
      <4>1. "dir" # "file"
        OBVIOUS
      <4> QED
        BY <2>3, <2>6, <3>1, <4>1 DEF DirsMade
    <3> QED
      BY <2>5, <3>1, <3>2
  <2>7. EntryUnpacked(tree, e, made)
    BY <1>4, <2>2, <2>4, <2>5, <2>6 DEF EntryUnpacked, FileWritten
  <2>8. e.path \in DOMAIN made
    BY <2>2 DEF FileWritten
  <2> QED
    BY <1>1, <1>4, <2>1, <2>7, <2>8
<1> QED
  BY <1>2, <1>3, <1>4

\* The entries of an archive, each with the path it goes to.
ArePlaced(W) == IsList(W) /\ \A i \in DOMAIN W : IsList(W[i].path)

\* The ones among the first m that are unpacked, and a tree that holds them beside what was
\* there before.
ListedTo(W, m) == {i \in 1 .. m : W[i].kind \in {"dir", "file"}}

HoldsTo(tree, W, m, base) ==
    LET listed == ListedTo(W, m)
    IN  /\ DOMAIN tree = base \cup UNION {Ways(W[i].path) : i \in listed}
        /\ \A i \in listed : W[i].kind = "file" => W[i].path \in DOMAIN tree
        /\ \A i \in listed :
             W[i].kind = "file" /\ (\A j \in listed : W[j].path = W[i].path => j <= i)
                 => tree[W[i].path].data = W[i].data
        /\ \A q \in DOMAIN tree : tree[q].kind = "file" =>
             \E i \in listed : W[i].kind = "file" /\ tree[q].data = W[i].data

LEMMA UnpackOne ==
    ASSUME NEW W, ArePlaced(W), NEW m \in Nat, m + 1 \in 1 .. Len(W), NEW base,
           NEW tree, HoldsTo(tree, W, m, base), Unpack(tree, W[m + 1]) # Failed
    PROVE  HoldsTo(Unpack(tree, W[m + 1]), W, m + 1, base)
<1> DEFINE e == W[m + 1]
           made == Unpack(tree, e)
           before == ListedTo(W, m)
           after == ListedTo(W, m + 1)
<1>1. IsList(e.path)
  <2>1. m + 1 \in DOMAIN W
    BY ListIs DEF ArePlaced
  <2> QED
    BY <2>1 DEF ArePlaced
<1>2. 1 .. m + 1 = (1 .. m) \cup {m + 1} /\ m + 1 \notin 1 .. m
  OBVIOUS
<1>3. after = before \cup (IF e.kind \in {"dir", "file"} THEN {m + 1} ELSE {})
  BY <1>2 DEF ListedTo
<1>4. CASE e.kind \notin {"dir", "file"}
  <2>1. made = tree
    BY <1>1, <1>4, UnpackMakes
  <2>2. after = before
    BY <1>3, <1>4
  <2> QED
    BY <2>1, <2>2 DEF HoldsTo
<1>5. CASE e.kind \in {"dir", "file"}
  <2>1. EntryUnpacked(tree, e, made) /\ (e.kind = "file" => e.path \in DOMAIN made)
    BY <1>1, <1>5, UnpackMakes
  <2>2. after = before \cup {m + 1}
    BY <1>3, <1>5
  <2>3. \A i \in before : i \in 1 .. m
    BY DEF ListedTo
  <2>4. \A i \in before : W[i].kind = "file" => W[i].path \in DOMAIN tree
    BY DEF HoldsTo
  <2> HIDE DEF made, before, after
  <2>5. DOMAIN made = base \cup UNION {Ways(W[i].path) : i \in after}
    <3>1. DOMAIN tree = base \cup UNION {Ways(W[i].path) : i \in before}
      BY DEF HoldsTo, before
    <3>2. DOMAIN made = DOMAIN tree \cup Ways(W[m + 1].path)
      BY <2>1 DEF EntryUnpacked
    <3>3. ASSUME NEW i \in after PROVE Ways(W[i].path) \subseteq DOMAIN made
      BY <2>2, <3>1, <3>2
    <3>4. ASSUME NEW q \in DOMAIN made PROVE q \in base \/ \E i \in after : q \in Ways(W[i].path)
      BY <2>2, <3>1, <3>2
    <3>5. base \subseteq DOMAIN made
      BY <3>1, <3>2
    <3> QED
      BY <3>3, <3>4, <3>5
  <2>6. ASSUME NEW i \in after, W[i].kind = "file" PROVE W[i].path \in DOMAIN made
    BY <2>1, <2>2, <2>4, <2>6 DEF EntryUnpacked
  <2>7. ASSUME NEW i \in after, W[i].kind = "file", \A j \in after : W[j].path = W[i].path => j <= i
        PROVE  made[W[i].path].data = W[i].data
    <3>1. CASE i = m + 1
      BY <2>1, <2>7, <3>1 DEF EntryUnpacked
    <3>2. CASE i # m + 1
      <4>1. i \in before /\ i \in 1 .. m
        BY <2>2, <2>3, <3>2
      <4>2. W[i].path # W[m + 1].path
        <5>1. ~(m + 1 <= i) /\ m + 1 \in after
          BY <2>2, <4>1
        <5> QED
          BY <2>7, <5>1
      <4>3. made[W[i].path] = tree[W[i].path]
        BY <2>1, <2>4, <2>7, <4>1, <4>2 DEF EntryUnpacked
      <4>4. tree[W[i].path].data = W[i].data
        <5>1. \A j \in before : W[j].path = W[i].path => j <= i
          BY <2>2, <2>7
        <5> QED
          BY <2>7, <4>1, <5>1 DEF HoldsTo, before
      <4> QED
        BY <4>3, <4>4
    <3> QED
      BY <3>1, <3>2
  <2>8. ASSUME NEW q \in DOMAIN made, made[q].kind = "file"
        PROVE  \E i \in after : W[i].kind = "file" /\ made[q].data = W[i].data
    <3>1. CASE q \in DOMAIN tree /\ made[q] = tree[q]
      <4>1. \E i \in before : W[i].kind = "file" /\ tree[q].data = W[i].data
        BY <2>8, <3>1 DEF HoldsTo, before
      <4> QED
        BY <2>2, <3>1, <4>1
    <3>2. CASE e.kind = "file" /\ made[q].data = e.data
      BY <2>2, <3>2
    <3> QED
      BY <2>1, <2>8, <3>1, <3>2 DEF EntryUnpacked
  <2>9. HoldsTo(made, W, m + 1, base)
    BY <2>5, <2>6, <2>7, <2>8 DEF HoldsTo, after
  <2> QED
    BY <2>9 DEF made
<1> QED
  BY <1>4, <1>5

\* The entries after the first m.
PartAt(part, W, m) ==
    /\ IsList(part) /\ m + Len(part) <= Len(W)
    /\ \A i \in 1 .. Len(part) : part[i] = W[m + i]

LEMMA UnpackPart ==
    ASSUME NEW W, ArePlaced(W), NEW m \in Nat, NEW base, NEW tree, HoldsTo(tree, W, m, base),
           NEW part, PartAt(part, W, m), UnpackEach(tree, part) # Failed
    PROVE  HoldsTo(UnpackEach(tree, part), W, m + Len(part), base)
<1> DEFINE n == Len(part)
<1>1. n \in Nat /\ DOMAIN part = 1 .. n /\ Len(W) \in Nat /\ m + n <= Len(W)
  BY ListIs DEF PartAt, ArePlaced
<1>2. PICK acc : /\ acc[0] = tree
                 /\ \A i \in 1 .. n : acc[i] = Unpack(acc[i - 1], part[i])
                 /\ UnpackEach(tree, part) = acc[n]
  BY UnpackSteps DEF PartAt
<1> DEFINE S == {k \in 0 .. n : acc[k] # Failed => HoldsTo(acc[k], W, m + k, base)}
<1>3. 0 \in S
  <2>1. m + 0 = m /\ 0 \in 0 .. n
    BY <1>1
  <2> QED
    BY <1>2, <2>1
<1>4. ASSUME NEW k \in 0 .. n - 1, k \in S PROVE k + 1 \in S
  <2>1. /\ k + 1 \in 1 .. n /\ k + 1 \in 0 .. n /\ (k + 1) - 1 = k
        /\ m + k \in Nat /\ (m + k) + 1 = m + (k + 1) /\ (m + k) + 1 \in 1 .. Len(W)
    BY <1>1
  <2>2. acc[k + 1] = Unpack(acc[k], W[(m + k) + 1])
    BY <1>2, <2>1 DEF PartAt
  <2>3. ASSUME acc[k + 1] # Failed PROVE HoldsTo(acc[k + 1], W, m + (k + 1), base)
    <3>1. acc[k] # Failed
      BY <2>2, <2>3 DEF Unpack
    <3>2. HoldsTo(acc[k], W, m + k, base)
      BY <1>4, <3>1
    <3>3. HoldsTo(Unpack(acc[k], W[(m + k) + 1]), W, (m + k) + 1, base)
      BY <2>1, <2>2, <2>3, <3>2, UnpackOne
    <3> QED
      BY <2>1, <2>2, <3>3
  <2> QED
    BY <2>1, <2>3
<1>5. n \in S
  <2>1. n \in 0 .. n /\ \A k \in 0 .. n - 1 : k \in S => k + 1 \in S
    BY <1>1, <1>4
  <2> HIDE DEF S, n
  <2> QED
    BY <1>1, <1>3, <2>1, Upto
<1> QED
  BY <1>2, <1>5

\* A list is a part of itself, and two lists are parts of the one that joins them.
LEMMA WholeIsPart ==
    ASSUME NEW W, ArePlaced(W) PROVE PartAt(W, W, 0) /\ 0 + Len(W) = Len(W) /\ Len(W) \in Nat
<1>1. Len(W) \in Nat /\ IsList(W)
  BY ListIs DEF ArePlaced
<1>2. \A i \in 1 .. Len(W) : 0 + i = i
  BY <1>1
<1> QED
  BY <1>1, <1>2 DEF PartAt

LEMMA HalvesAreParts ==
    ASSUME NEW s, NEW t, ArePlaced(s), ArePlaced(t)
    PROVE  /\ ArePlaced(s \o t) /\ PartAt(s, s \o t, 0) /\ PartAt(t, s \o t, Len(s))
           /\ Len(s) \in Nat /\ 0 + Len(s) = Len(s) /\ Len(s) + Len(t) = Len(s \o t)
<1> DEFINE W == s \o t
<1>1. /\ IsList(s) /\ IsList(t) /\ Len(s) \in Nat /\ Len(t) \in Nat
      /\ DOMAIN s = 1 .. Len(s) /\ DOMAIN t = 1 .. Len(t)
  BY ListIs DEF ArePlaced
<1>2. /\ IsList(W) /\ Len(W) = Len(s) + Len(t) /\ Range(W) = Range(s) \cup Range(t)
      /\ \A i \in 1 .. Len(s) : W[i] = s[i]
      /\ \A i \in 1 .. Len(t) : W[Len(s) + i] = t[i]
  BY <1>1, Joined
<1> HIDE DEF W
<1>3. ASSUME NEW i \in DOMAIN W PROVE IsList(W[i].path)
  <2>1. W[i] \in Range(W)
    BY DEF Range
  <2>2. CASE W[i] \in Range(s)
    BY <2>2 DEF Range, ArePlaced
  <2>3. CASE W[i] \in Range(t)
    BY <2>3 DEF Range, ArePlaced
  <2> QED
    BY <1>2, <2>1, <2>2, <2>3
<1>4. \A i \in 1 .. Len(s) : 0 + i = i
  BY <1>1
<1> QED
  BY <1>1, <1>2, <1>3, <1>4 DEF PartAt, ArePlaced, W

\* A part of a path is a path.
LEMMA SubList ==
    ASSUME NEW s, IsList(s), NEW m \in Nat, m # 0 PROVE IsList(SubSeq(s, m, Len(s)))
<1>1. Len(s) \in Nat /\ s \in Seq(Range(s))
  BY ListIs DEF IsList
<1> DEFINE t == SubSeq(s, m, Len(s))
<1>2. CASE m <= Len(s)
  <2>1. t \in Seq(Range(s)) /\ Len(t) \in Nat /\ t = [i \in 1 .. Len(t) |-> t[i]]
    BY <1>1, <1>2
  <2> HIDE DEF t
  <2>2. IsList(t)
    BY <2>1, FunctionIsList
  <2> QED
    BY <2>2 DEF t
<1>3. CASE ~(m <= Len(s))
  <2>1. t = <<>>
    BY <1>1, <1>3
  <2> QED
    BY <2>1, EmptyList
<1> QED
  BY <1>2, <1>3

LEMMA WayIsList ==
    ASSUME NEW path, IsList(path), NEW q \in Ways(path) PROVE IsList(q) /\ q[1] = path[1]
<1>1. PICK n \in 1 .. Len(path) : q = SubSeq(path, 1, n)
  BY DEF Ways
<1>2. Len(path) \in Nat /\ path \in Seq(Range(path))
  BY ListIs DEF IsList
<1>3. q \in Seq(Range(path)) /\ Len(q) = n /\ n \in Nat /\ q = [i \in 1 .. n |-> q[i]] /\ q[1] = path[1]
  BY <1>1, <1>2
<1> QED
  BY <1>3, FunctionIsList

LEMMA CleanIsList == ASSUME NEW p, IsList(p) PROVE IsList(Clean(p))
<1> DEFINE names(i, j) == {k \in i .. j : p[k] \notin {"", ".", ".."}}
           ups(i, j) == {k \in i .. j : p[k] = ".."}
           places == {i \in names(1, Len(p)) : \A j \in i + 1 .. Len(p) :
                        Cardinality(ups(i + 1, j)) <= Cardinality(names(i + 1, j))}
<1>1. Clean(p) = Pick(p, places)
  BY DEF Clean
<1> HIDE DEF places
<1> QED
  BY <1>1, Picked

\* The entries of an archive are placed, and a file of a tar archive is one of its files.
LEMMA EntriesArePlaced ==
    ASSUME NEW entries, AreEntries(entries), NEW dir, IsList(dir), NEW strip \in Nat
    PROVE  /\ ArePlaced(TarEntries(entries, dir, strip)) /\ ArePlaced(ZipEntries(entries, dir, strip))
           /\ Len(TarEntries(entries, dir, strip)) = Len(entries)
           /\ \A i \in DOMAIN entries :
                TarEntries(entries, dir, strip)[i].kind = "file" =>
                    entries[i].kind = "file" /\ TarEntries(entries, dir, strip)[i].data = entries[i].data
<1> DEFINE n == Len(entries)
           tar == TarEntries(entries, dir, strip)
           zip == ZipEntries(entries, dir, strip)
           at(i) == Placed(entries[i], dir, strip)
<1>1. n \in Nat /\ DOMAIN entries = 1 .. n
  BY ListIs DEF AreEntries
<1>2. tar = [i \in 1 .. n |-> at(i)] /\ zip = [i \in 1 .. n |-> zip[i]] /\ DOMAIN zip = 1 .. n
  BY <1>1 DEF TarEntries, ZipEntries
<1>3. ASSUME NEW i \in 1 .. n
      PROVE  /\ IsList(at(i).path) /\ at(i).data = entries[i].data
             /\ at(i).kind = "file" => entries[i].kind = "file"
             /\ zip[i].path = at(i).path
  <2> DEFINE rest == stripPath(entries[i].path, strip)
             path == Clean(dir \o rest)
             kind == IF \A j \in DOMAIN rest : rest[j] = "" THEN "none" ELSE entries[i].kind
  <2>1. IsList(entries[i].path) /\ DOMAIN entries[i] = {"path", "kind", "data", "mode", "fat"}
    BY <1>1 DEF AreEntries
  <2>2. IsList(rest)
    <3>1. strip + 1 \in Nat /\ strip + 1 # 0
      OBVIOUS
    <3> QED
      BY <2>1, <3>1, SubList DEF stripPath
  <2>3. IsList(path)
    <3> HIDE DEF rest
    <3> QED
      BY <2>2, Joined, CleanIsList
  <2>4. at(i) = [entries[i] EXCEPT !.path = path, !.kind = kind]
    BY DEF Placed
  <2>5. kind = "file" => entries[i].kind = "file"
    OBVIOUS
  <2> HIDE DEF path, kind
  <2>6. at(i).path = path /\ at(i).data = entries[i].data /\ at(i).kind = kind
        /\ DOMAIN at(i) = {"path", "kind", "data", "mode", "fat"}
    BY <2>1, <2>4
  <2>7. zip[i].path = at(i).path
    <3>1. zip[i] = [at(i) EXCEPT !.kind = IF at(i).kind = "link" THEN "file" ELSE at(i).kind,
                                 !.mode = IF entries[i].fat THEN "x" ELSE at(i).mode]
      BY <1>1 DEF ZipEntries
    <3> HIDE DEF at, zip
    <3> QED
      BY <2>6, <3>1
  <2> QED
    BY <2>3, <2>5, <2>6, <2>7
<1> HIDE DEF tar, zip, at
<1>4. IsList(tar) /\ Len(tar) = n /\ IsList(zip) /\ DOMAIN tar = 1 .. n
  <2>1. tar = [i \in 1 .. n |-> tar[i]]
    BY <1>2
  <2> QED
    BY <1>1, <1>2, <2>1, FunctionIsList
<1>5. \A i \in 1 .. n : IsList(tar[i].path) /\ IsList(zip[i].path)
                        /\ (tar[i].kind = "file" => entries[i].kind = "file" /\ tar[i].data = entries[i].data)
  BY <1>2, <1>3
<1>6. ArePlaced(tar) /\ ArePlaced(zip)
  BY <1>2, <1>4, <1>5 DEF ArePlaced
<1> QED
  BY <1>1, <1>4, <1>5, <1>6 DEF tar, zip

\* Before anything is unpacked there are directories only, none of them in the workspace.
TempDisk == MkdirAll(Disk, TempDir, "x")

LEMMA Directories ==
    /\ IsList(WorkDir) /\ IsList(TempDir)
    /\ \A q \in DOMAIN Disk : IsList(q) /\ ~Inside(q)
    /\ \A q \in DOMAIN TempDisk : IsList(q) /\ ~Inside(q)
    /\ \A W : HoldsTo(Disk, W, 0, DOMAIN Disk) /\ HoldsTo(TempDisk, W, 0, DOMAIN TempDisk)
<1>1. IsList(WorkDir) /\ IsList(TempDir) /\ IsList(<<"tmp">>) /\ TempDir[1] = "tmp"
  <2>1. WorkDir \in Seq(Range(WorkDir)) /\ <<"tmp">> \in Seq(Range(<<"tmp">>))
    BY OneElement DEF WorkDir, IsList
  <2>2. TempDir = <<"tmp", "source">>
    BY DEF TempDir
  <2>3. TempDir = [i \in 1 .. 2 |-> TempDir[i]] /\ 2 \in Nat
    BY <2>2
  <2> QED
    BY <2>1, <2>2, <2>3, FunctionIsList DEF IsList
<1>2. /\ DOMAIN Disk = {WorkDir, <<"tmp">>}
      /\ \A q \in DOMAIN Disk : Disk[q].kind = "dir"
  BY DEF Disk, Node
<1>3. \A q \in DOMAIN Disk : IsList(q) /\ ~Inside(q)
  <2>1. ~Inside(WorkDir) /\ ~Inside(<<"tmp">>)
    BY DEF Inside, WorkDir
  <2> QED
    BY <1>1, <1>2, <2>1
<1>4. DirsMade(Disk, TempDir, TempDisk)
  <2>1. TempDisk # Failed
    <3> DEFINE missing == {q \in {SubSeq(TempDir, 1, n) : n \in 1 .. Len(TempDir)} : q \notin DOMAIN Disk}
    <3>1. ~\E n \in 1 .. Len(TempDir) : /\ SubSeq(TempDir, 1, n) \in DOMAIN Disk
                                        /\ Disk[SubSeq(TempDir, 1, n)].kind # "dir"
      BY <1>2
    <3>2. DOMAIN TempDisk = DOMAIN Disk \cup missing
      BY <3>1 DEF TempDisk, MkdirAll
    <3>3. WorkDir \in DOMAIN TempDisk /\ DOMAIN Failed = {<<>>} /\ WorkDir # <<>>
      BY <1>2, <3>2 DEF Failed, WorkDir
    <3> QED
      BY <3>3
  <2> QED
    BY <2>1, MkdirAllMakes DEF TempDisk
<1>5. \A q \in DOMAIN TempDisk : IsList(q) /\ ~Inside(q)
  <2>1. DOMAIN TempDisk = DOMAIN Disk \cup Ways(TempDir)
    BY <1>4 DEF DirsMade
  <2>2. ASSUME NEW q \in Ways(TempDir) PROVE IsList(q) /\ ~Inside(q)
    <3>1. IsList(q) /\ q[1] = "tmp"
      BY <1>1, WayIsList
    <3> QED
      BY <3>1 DEF Inside
  <2> QED
    BY <1>3, <2>1, <2>2
<1>6. \A q \in DOMAIN TempDisk : TempDisk[q].kind = "dir"
  BY <1>2, <1>4 DEF DirsMade
<1>7. ASSUME NEW W, NEW tree, \A q \in DOMAIN tree : tree[q].kind = "dir" PROVE HoldsTo(tree, W, 0, DOMAIN tree)
  <2>1. ListedTo(W, 0) = {} /\ "dir" # "file"
    BY DEF ListedTo
  <2> QED
    BY <1>7, <2>1 DEF HoldsTo
<1> HIDE DEF TempDisk
<1> QED
  BY <1>1, <1>2, <1>3, <1>5, <1>6, <1>7

\* What the workspace is when everything is unpacked: what WorkspaceIsTheArchive says.
HasAll(tree, W) ==
    LET listed == ListedTo(W, Len(W))
        ways == UNION {Ways(W[i].path) : i \in listed}
    IN  /\ {q \in DOMAIN tree : Inside(q)} = {q \in ways : Inside(q)}
        /\ \A i \in listed :
             W[i].kind = "file" /\ Inside(W[i].path) /\ (\A j \in listed : W[j].path = W[i].path => j <= i)
                 => tree[W[i].path].data = W[i].data

LEMMA AllHeld ==
    ASSUME NEW tree, NEW W, NEW base, \A q \in base : ~Inside(q), HoldsTo(tree, W, Len(W), base)
    PROVE  HasAll(tree, W)
  BY DEF HoldsTo, HasAll

LEMMA WholeArchive ==
    ASSUME NEW W, ArePlaced(W), UnpackEach(Disk, W) # Failed PROVE HasAll(UnpackEach(Disk, W), W)
<1>1. HoldsTo(Disk, W, 0, DOMAIN Disk) /\ \A q \in DOMAIN Disk : ~Inside(q)
  BY Directories
<1>2. HoldsTo(UnpackEach(Disk, W), W, 0 + Len(W), DOMAIN Disk)
  BY <1>1, WholeIsPart, UnpackPart
<1> QED
  BY <1>1, <1>2, WholeIsPart, AllHeld

\* The temporary directory goes with nothing of the workspace.
LEMMA TempRemoved ==
    ASSUME NEW tree, NEW W, ArePlaced(W), HoldsTo(tree, W, Len(W), DOMAIN TempDisk), tree # Failed
    PROVE  HasAll(RemoveAll(tree, TempDir), W)
<1> DEFINE left == RemoveAll(tree, TempDir)
           listed == ListedTo(W, Len(W))
<1>1. left = [p \in {q \in DOMAIN tree : ~IsPrefix(TempDir, q)} |-> tree[p]]
  BY DEF RemoveAll
<1>2. ASSUME NEW q \in DOMAIN tree, Inside(q) PROVE ~IsPrefix(TempDir, q)
  <2>1. IsList(q)
    <3>1. CASE q \in DOMAIN TempDisk
      BY <3>1, Directories
    <3>2. CASE q \notin DOMAIN TempDisk
      <4>1. PICK i \in listed : q \in Ways(W[i].path)
        BY <3>2 DEF HoldsTo
      <4>2. i \in DOMAIN W
        BY <4>1, ListIs DEF ListedTo, ArePlaced
      <4> QED
        BY <4>1, <4>2, WayIsList DEF ArePlaced
    <3> QED
      BY <3>1, <3>2
  <2>2. q \in Seq(Range(q)) /\ q[1] = "workspace"
    BY <1>2, <2>1 DEF IsList, Inside
  <2>3. ASSUME IsPrefix(TempDir, q) PROVE FALSE
    <3>1. TempDir = <<"tmp", "source">> /\ Len(TempDir) = 2
      BY DEF TempDir
    <3>2. 2 <= Len(q) /\ SubSeq(TempDir, 1, 2) = SubSeq(q, 1, 2)
      BY <2>3, <3>1 DEF IsPrefix
    <3>3. SubSeq(TempDir, 1, 2)[1] = "tmp"
      BY <3>1
    <3>4. SubSeq(q, 1, 2)[1] = q[1]
      BY <2>2, <3>2
    <3> QED
      BY <2>2, <3>2, <3>3, <3>4
  <2> QED
    BY <2>3
<1>3. HasAll(tree, W)
  BY Directories, AllHeld
<1> HIDE DEF left
<1>4. {q \in DOMAIN left : Inside(q)} = {q \in DOMAIN tree : Inside(q)}
  BY <1>1, <1>2
<1>5. \A q \in DOMAIN tree : Inside(q) => left[q] = tree[q]
  BY <1>1, <1>2
<1>6. \A i \in listed : W[i].kind = "file" => W[i].path \in DOMAIN tree
  BY DEF HoldsTo
<1>7. HasAll(left, W)
  BY <1>3, <1>4, <1>5, <1>6 DEF HasAll
<1> QED
  BY <1>7 DEF left

\* The layer of an image that is an archive: what it holds, and that the archive is well formed.
LEMMA ArchiveInImage ==
    ASSUME NEW img, AreLayers(img.layers), NEW format \in {"zip", "tar", "tar.gz"},
           getSourceFile(FetchOneLayer(Disk, img)).format = format
    PROVE  /\ FetchOneLayer(Disk, img) # Failed
           /\ FetchOneLayer(Disk, img) = UnpackEach(TempDisk, TarEntries(img.layers[1], TempDir, 0))
           /\ ArePlaced(TarEntries(img.layers[1], TempDir, 0))
           /\ AreEntries(getSourceFile(FetchOneLayer(Disk, img)).entries)
<1> DEFINE layer == img.layers[1]
           W == TarEntries(layer, TempDir, 0)
           dir == FetchOneLayer(Disk, img)
           top == {p \in DOMAIN dir : IsPrefix(TempDir, p) /\ Len(p) = Len(TempDir) + 1}
           node == dir[CHOOSE p \in top : TRUE]
           none == [format |-> "none"]
<1>1. getSourceFile(dir) = IF dir = Failed \/ Cardinality(top) # 1 THEN none
                           ELSE IF node.kind = "file" THEN node.data ELSE none
  BY DEF getSourceFile
<1>2. none.format # format
  OBVIOUS
<1>3. dir # Failed /\ Cardinality(top) = 1 /\ node.kind = "file" /\ getSourceFile(dir) = node.data
  <2> HIDE DEF none, top, dir, node
  <2> QED
    BY <1>1, <1>2 DEF dir
<1>4. Len(img.layers) = 1 /\ dir = UnpackEach(TempDisk, W)
  BY <1>3 DEF FetchOneLayer, ExtractTar, TempDisk
<1>5. /\ AreEntries(layer)
      /\ \A x \in Range(layer) : x.kind = "file" /\ x.data.format \in {"zip", "tar", "tar.gz"} =>
                                     AreEntries(x.data.entries)
  <2>1. 1 \in DOMAIN img.layers
    <3>1. DOMAIN img.layers = 1 .. Len(img.layers)
      BY ListIs DEF AreLayers
    <3> QED
      BY <1>4, <3>1
  <2> QED
    BY <2>1 DEF AreLayers
<1> HIDE DEF layer
<1>6. /\ ArePlaced(W) /\ Len(W) = Len(layer)
      /\ \A i \in DOMAIN layer : W[i].kind = "file" => layer[i].kind = "file" /\ W[i].data = layer[i].data
  <2>1. 0 \in Nat
    OBVIOUS
  <2> QED
    BY <1>5, <2>1, Directories, EntriesArePlaced
<1> HIDE DEF dir, W
<1>7. HoldsTo(dir, W, 0 + Len(W), DOMAIN TempDisk)
  BY <1>3, <1>4, <1>6, Directories, WholeIsPart, UnpackPart
<1>8. (CHOOSE p \in top : TRUE) \in DOMAIN dir
  <2>1. top # {}
    <3>1. Cardinality({}) = 0
      BY FS_EmptySet
    <3> HIDE DEF top
    <3> QED
      BY <1>3, <3>1
  <2> QED
    BY <2>1
<1>9. PICK i \in ListedTo(W, 0 + Len(W)) : W[i].kind = "file" /\ node.data = W[i].data
  BY <1>3, <1>7, <1>8 DEF HoldsTo
<1>10. i \in DOMAIN layer
  <2>1. DOMAIN layer = 1 .. Len(layer) /\ 0 + Len(W) = Len(W)
    BY <1>5, <1>6, ListIs, WholeIsPart DEF AreEntries
  <2> QED
    BY <1>6, <1>9, <2>1 DEF ListedTo
<1>11. layer[i].kind = "file" /\ layer[i] \in Range(layer) /\ node.data = layer[i].data
  BY <1>6, <1>9, <1>10 DEF Range
<1>12. AreEntries(getSourceFile(dir).entries)
  BY <1>3, <1>5, <1>11 DEF dir
<1> QED
  BY <1>3, <1>4, <1>6, <1>12 DEF dir, W, layer

\* An archive in an image: the layer is unpacked, then the archive, then the layer goes.
LEMMA WholeArchiveInImage ==
    ASSUME NEW s, NEW t, ArePlaced(s), ArePlaced(t), UnpackEach(TempDisk, s) # Failed,
           NEW tree, tree = UnpackEach(UnpackEach(TempDisk, s), t), tree # Failed
    PROVE  HasAll(RemoveAll(tree, TempDir), s \o t)
<1> DEFINE W == s \o t
<1>1. /\ ArePlaced(W) /\ PartAt(s, W, 0) /\ PartAt(t, W, Len(s))
      /\ Len(s) \in Nat /\ 0 + Len(s) = Len(s) /\ Len(s) + Len(t) = Len(W)
  BY HalvesAreParts
<1> HIDE DEF W
<1>2. HoldsTo(UnpackEach(TempDisk, s), W, Len(s), DOMAIN TempDisk)
  <2>1. HoldsTo(TempDisk, W, 0, DOMAIN TempDisk) /\ 0 \in Nat
    BY Directories
  <2>2. HoldsTo(UnpackEach(TempDisk, s), W, 0 + Len(s), DOMAIN TempDisk)
    BY <1>1, <2>1, UnpackPart
  <2> QED
    BY <1>1, <2>2
<1>3. HoldsTo(tree, W, Len(s) + Len(t), DOMAIN TempDisk)
  BY <1>1, <1>2, UnpackPart
<1>4. HasAll(RemoveAll(tree, TempDir), W)
  BY <1>1, <1>3, TempRemoved
<1> QED
  BY <1>4 DEF W

LEMMA Sums == \A a, b \in Nat : a <= a + b /\ \A i \in 1 .. b : a + i \in 1 .. a + b
  OBVIOUS

\* The layers of an image, one over the other.
LEMMA WholeImage ==
    ASSUME NEW img, AreLayers(img.layers), HandleSource(Disk, img) # Failed
    PROVE  LET all == FlattenSeq([i \in DOMAIN img.layers |-> TarEntries(img.layers[i], WorkDir, 0)])
           IN  ArePlaced(all) /\ HasAll(HandleSource(Disk, img), all)
<1> DEFINE layers == [i \in DOMAIN img.layers |-> TarEntries(img.layers[i], WorkDir, 0)]
           n == Len(img.layers)
           all == FlattenSeq(layers)
<1>1. /\ n \in Nat /\ DOMAIN layers = 1 .. n /\ IsList(layers) /\ Len(layers) = n
      /\ \A i \in DOMAIN layers : IsList(layers[i]) /\ ArePlaced(layers[i])
      /\ DOMAIN img.layers = 1 .. n /\ IsList(img.layers)
  <2>1. n \in Nat /\ DOMAIN img.layers = 1 .. n /\ IsList(img.layers)
    BY ListIs DEF AreLayers
  <2>2. layers = [i \in 1 .. n |-> layers[i]]
    BY <2>1
  <2>3. \A i \in 1 .. n : ArePlaced(layers[i])
    <3>1. ASSUME NEW i \in 1 .. n PROVE ArePlaced(TarEntries(img.layers[i], WorkDir, 0))
      <4>1. AreEntries(img.layers[i]) /\ 0 \in Nat
        BY <2>1 DEF AreLayers
      <4> QED
        BY <4>1, Directories, EntriesArePlaced
    <3> QED
      BY <2>1, <3>1
  <2> HIDE DEF layers
  <2> QED
    BY <2>1, <2>2, <2>3, FunctionIsList DEF ArePlaced
<1>2. ArePlaced(all)
  <2>1. IsList(all) /\ Range(all) = UNION {Range(layers[i]) : i \in DOMAIN layers}
    <3> HIDE DEF layers
    <3> QED
      BY <1>1, FlattenedRange
  <2> HIDE DEF all, layers
  <2>2. ASSUME NEW i \in DOMAIN all PROVE IsList(all[i].path)
    <3>1. PICK l \in DOMAIN layers : all[i] \in Range(layers[l])
      BY <2>1 DEF Range
    <3>2. PICK j \in DOMAIN layers[l] : all[i] = layers[l][j]
      BY <3>1 DEF Range
    <3> QED
      BY <1>1, <3>2 DEF ArePlaced
  <2> QED
    BY <2>1, <2>2 DEF ArePlaced
<1>3. PICK acc : /\ acc[0] = Disk
                 /\ \A i \in 1 .. n : acc[i] = IF acc[i - 1] = Failed THEN acc[i - 1] ELSE UnpackEach(acc[i - 1], layers[i])
                 /\ HandleSource(Disk, img) = acc[n]
  <2>1. PICK acc : /\ acc[0] = Disk
                   /\ \A i \in 1 .. n : acc[i] = IF acc[i - 1] = Failed THEN acc[i - 1]
                                                 ELSE ExtractTar(acc[i - 1], WorkDir, img.layers[i], 0)
                   /\ HandleSource(Disk, img) = acc[n]
    BY <1>1, LayerSteps
  <2>2. \A i \in 1 .. n : \A t : ExtractTar(t, WorkDir, img.layers[i], 0) = UnpackEach(t, layers[i])
    BY <1>1 DEF ExtractTar
  <2> QED
    BY <2>1, <2>2
<1>4. PICK f : /\ f[0] = <<>> /\ \A i \in 1 .. n : f[i] = f[i - 1] \o layers[i]
               /\ \A i \in 0 .. n : IsList(f[i])
               /\ all = f[n]
  <2>1. IsList(layers) /\ Len(layers) = n /\ \A i \in DOMAIN layers : IsList(layers[i])
    BY <1>1 DEF ArePlaced
  <2> HIDE DEF layers, n
  <2> QED
    BY <2>1, Flattened
<1> HIDE DEF layers, n, all
<1> DEFINE Begins(s) == Len(s) <= Len(all) /\ \A i \in 1 .. Len(s) : s[i] = all[i]
<1>5. \A k \in 0 .. n : Len(f[k]) \in Nat
  BY <1>4, ListIs
<1>6. ASSUME NEW k \in 0 .. n - 1
      PROVE  /\ Len(f[k + 1]) = Len(f[k]) + Len(layers[k + 1]) /\ Len(layers[k + 1]) \in Nat
             /\ \A i \in 1 .. Len(f[k]) : f[k + 1][i] = f[k][i]
             /\ \A i \in 1 .. Len(layers[k + 1]) : f[k + 1][Len(f[k]) + i] = layers[k + 1][i]
  <2>1. k + 1 \in 1 .. n /\ (k + 1) - 1 = k /\ k \in 0 .. n
    BY <1>1
  <2>2. f[k + 1] = f[k] \o layers[k + 1] /\ IsList(f[k]) /\ IsList(layers[k + 1])
    BY <1>1, <1>4, <2>1
  <2> DEFINE s == f[k]
             t == layers[k + 1]
  <2>3. IsList(s) /\ IsList(t) /\ f[k + 1] = s \o t
    BY <2>2
  <2> HIDE DEF s, t
  <2>4. /\ Len(s \o t) = Len(s) + Len(t) /\ Len(t) \in Nat
        /\ \A i \in 1 .. Len(s) : (s \o t)[i] = s[i]
        /\ \A i \in 1 .. Len(t) : (s \o t)[Len(s) + i] = t[i]
    BY <2>3, Joined, ListIs
  <2> QED
    BY <2>3, <2>4 DEF s, t
<1>7. \A k \in 0 .. n : Begins(f[n - k])
  <2> DEFINE S == {k \in 0 .. n : Begins(f[n - k])}
  <2>1. 0 \in S
    <3>1. n - 0 = n /\ 0 \in 0 .. n /\ n \in 0 .. n /\ Len(all) \in Nat
      BY <1>1, <1>4, <1>5
    <3> QED
      BY <1>4, <3>1
  <2>2. ASSUME NEW k \in 0 .. n - 1, k \in S PROVE k + 1 \in S
    <3> DEFINE j == n - (k + 1)
    <3>1. j \in 0 .. n - 1 /\ j + 1 = n - k /\ k + 1 \in 0 .. n /\ j \in 0 .. n /\ j + 1 \in 0 .. n
      BY <1>1
    <3> HIDE DEF j
    <3>2. Begins(f[j + 1])
      BY <2>2, <3>1
    <3>3. Len(f[j]) \in Nat /\ Len(f[j + 1]) \in Nat /\ Len(f[j]) <= Len(f[j + 1]) /\ Len(all) \in Nat
          /\ \A i \in 1 .. Len(f[j]) : f[j + 1][i] = f[j][i]
      <4>1. Len(all) \in Nat
        BY <1>2, ListIs DEF ArePlaced
      <4> QED
        <5>1. Len(f[j]) \in Nat /\ Len(f[j + 1]) \in Nat
          BY <1>5, <3>1
        <5>2. Len(f[j + 1]) = Len(f[j]) + Len(layers[j + 1]) /\ Len(layers[j + 1]) \in Nat
          BY <1>6, <3>1
        <5>3. Len(f[j]) <= Len(f[j + 1])
          BY <5>1, <5>2, Sums
        <5>4. \A i \in 1 .. Len(f[j]) : f[j + 1][i] = f[j][i]
          BY <1>6, <3>1
        <5> QED
          BY <4>1, <5>1, <5>3, <5>4
    <3>4. Begins(f[j])
      BY <3>2, <3>3
    <3> QED
      BY <3>1, <3>4 DEF j
  <2>3. \A k \in 0 .. n - 1 : k \in S => k + 1 \in S
    BY <2>2
  <2>4. \A k \in 0 .. n : k \in S
    <3> HIDE DEF S
    <3> QED
      BY <1>1, <2>1, <2>3, Upto
  <2> QED
    BY <2>4
<1>8. ASSUME NEW k \in 0 .. n PROVE Begins(f[k])
  <2>1. n - k \in 0 .. n /\ n - (n - k) = k
    BY <1>1
  <2> QED
    BY <1>7, <2>1
<1> DEFINE T == {k \in 0 .. n : acc[k] # Failed => HoldsTo(acc[k], all, Len(f[k]), DOMAIN Disk)}
<1>9. 0 \in T
  <2>1. 0 \in 0 .. n /\ Len(f[0]) = 0
    BY <1>1, <1>4
  <2> QED
    BY <1>3, <2>1, Directories
<1>10. ASSUME NEW k \in 0 .. n - 1, k \in T PROVE k + 1 \in T
  <2>1. k + 1 \in 1 .. n /\ (k + 1) - 1 = k /\ k \in 0 .. n /\ k + 1 \in 0 .. n
    BY <1>1
  <2>2. ASSUME acc[k + 1] # Failed PROVE HoldsTo(acc[k + 1], all, Len(f[k + 1]), DOMAIN Disk)
    <3>1. acc[k] # Failed /\ acc[k + 1] = UnpackEach(acc[k], layers[k + 1])
      BY <1>3, <2>1, <2>2
    <3>2. HoldsTo(acc[k], all, Len(f[k]), DOMAIN Disk)
      BY <1>10, <3>1
    <3>3. PartAt(layers[k + 1], all, Len(f[k]))
      <4>1. Begins(f[k + 1]) /\ Len(f[k]) \in Nat
        BY <1>5, <1>8, <2>1
      <4>2. IsList(layers[k + 1])
        BY <1>1, <2>1
      <4>3. Len(f[k]) + Len(layers[k + 1]) <= Len(all)
        BY <1>6, <4>1
      <4>4. ASSUME NEW i \in 1 .. Len(layers[k + 1]) PROVE layers[k + 1][i] = all[Len(f[k]) + i]
        <5>1. Len(f[k]) + i \in 1 .. Len(f[k + 1])
          <6>1. Len(f[k + 1]) = Len(f[k]) + Len(layers[k + 1]) /\ Len(layers[k + 1]) \in Nat
            BY <1>6
          <6> QED
            BY <4>1, <6>1, Sums
        <5>2. f[k + 1][Len(f[k]) + i] = layers[k + 1][i]
          BY <1>6
        <5> QED
          BY <4>1, <5>1, <5>2
      <4> QED
        BY <4>2, <4>3, <4>4 DEF PartAt
    <3>4. HoldsTo(acc[k + 1], all, Len(f[k]) + Len(layers[k + 1]), DOMAIN Disk)
      <4>1. Len(f[k]) \in Nat /\ UnpackEach(acc[k], layers[k + 1]) # Failed
        BY <1>5, <2>1, <2>2, <3>1
      <4> QED
        BY <1>2, <3>1, <3>2, <3>3, <4>1, UnpackPart
    <3> QED
      BY <1>6, <3>4
  <2> QED
    BY <2>1, <2>2
<1>11. n \in T
  <2>1. n \in 0 .. n /\ \A k \in 0 .. n - 1 : k \in T => k + 1 \in T
    <3>1. n \in 0 .. n
      BY <1>1
    <3> HIDE DEF T
    <3> QED
      BY <1>10, <3>1
  <2> HIDE DEF T
  <2> QED
    BY <1>1, <1>9, <2>1, Upto
<1>12. HoldsTo(HandleSource(Disk, img), all, Len(all), DOMAIN Disk)
  BY <1>3, <1>4, <1>11
<1>13. HasAll(HandleSource(Disk, img), all)
  BY <1>12, Directories, AllHeld
<1> QED
  BY <1>2, <1>13 DEF all, layers

\* What was downloaded holds what was written.
LEMMA Downloaded ==
    ASSUME case \in Cases, out.fetched \in DOMAIN case.source.content, case.source.type # "git",
           Download(out.fetched) # Failed
    PROVE  ArePlaced(Written) /\ HasAll(Download(out.fetched), Written)
<1> DEFINE content == case.source.content[out.fetched]
           dir == FetchOneLayer(Disk, content)
           file == getSourceFile(dir)
           layer == TarEntries(content.layers[1], TempDir, 0)
           tree == Download(out.fetched)
           strip == case.source.strip
<1>1. CASE case.source.type = "blob"
  <2>1. AreEntries(content.entries) /\ strip \in Nat
    BY <1>1, CasesAssumption
  <2>2. tree = BlobFetch(Disk, content, strip)
    BY <1>1 DEF Download
  <2>3. Written = IF content.format = "zip" THEN ZipEntries(content.entries, WorkDir, strip)
                  ELSE TarEntries(content.entries, WorkDir, strip)
    BY <1>1 DEF Written
  <2> HIDE DEF content, strip, tree
  <2>4. ArePlaced(Written)
    BY <2>1, <2>3, Directories, EntriesArePlaced
  <2>5. tree = UnpackEach(Disk, Written)
    <3>1. CASE content.format = "zip"
      BY <2>2, <2>3, <3>1 DEF BlobFetch, ExtractZip
    <3>2. CASE content.format \in {"tar", "tar.gz"}
      BY <2>2, <2>3, <3>2 DEF BlobFetch, ExtractTar
    <3>3. CASE content.format \notin {"zip", "tar", "tar.gz"}
      BY <2>2, <3>3 DEF BlobFetch, tree
    <3> QED
      BY <3>1, <3>2, <3>3
  <2> QED
    BY <2>4, <2>5, WholeArchive DEF tree
<1>2. CASE case.source.type # "blob"
  <2>1. AreLayers(content.layers)
    BY <1>2, CasesAssumption
  <2>2. tree = RegistryFetch(Disk, content)
    BY <1>2 DEF Download
  <2>3. ASSUME content.label \in {"zip", "jar", "war", "tar", "tar.gz"}
        PROVE  Written = layer \o (IF content.label \in {"zip", "jar", "war"} THEN ZipEntries(file.entries, WorkDir, 0)
                                   ELSE TarEntries(file.entries, WorkDir, 0))
    BY <1>2, <2>3 DEF Written
  <2>4. ASSUME content.label \notin {"zip", "jar", "war", "tar", "tar.gz"}
        PROVE  Written = FlattenSeq([i \in DOMAIN content.layers |-> TarEntries(content.layers[i], WorkDir, 0)])
    BY <1>2, <2>4 DEF Written
  <2> HIDE DEF content
  <2>5. CASE content.label \in {"zip", "jar", "war", "tar", "tar.gz"}
    <3> DEFINE zipped == content.label \in {"zip", "jar", "war"}
               format == IF zipped THEN "zip" ELSE content.label
               unzip == IF zipped THEN ZipEntries(file.entries, WorkDir, 0) ELSE TarEntries(file.entries, WorkDir, 0)
    <3>1. tree = HandleArchive(Disk, content, format) /\ format \in {"zip", "tar", "tar.gz"} /\ (zipped <=> format = "zip")
      BY <2>2, <2>5 DEF RegistryFetch
    <3> HIDE DEF format
    <3>2. /\ file.format = format
          /\ tree = RemoveAll(IF format = "zip" THEN ExtractZip(dir, WorkDir, file.entries, 0)
                              ELSE ExtractTar(dir, WorkDir, file.entries, 0), TempDir)
      BY <3>1 DEF HandleArchive
    <3>3. /\ dir # Failed /\ dir = UnpackEach(TempDisk, layer) /\ ArePlaced(layer)
          /\ AreEntries(file.entries)
      BY <2>1, <3>1, <3>2, ArchiveInImage
    <3> HIDE DEF dir, file, layer
    <3>4. tree = RemoveAll(UnpackEach(dir, unzip), TempDir)
      BY <3>1, <3>2 DEF ExtractZip, ExtractTar
    <3>5. ArePlaced(unzip)
      <4>1. 0 \in Nat
        OBVIOUS
      <4> QED
        BY <3>3, <4>1, Directories, EntriesArePlaced
    <3>6. Written = layer \o unzip
      BY <2>3, <2>5
    <3> HIDE DEF unzip
    <3>7. UnpackEach(dir, unzip) # Failed
      BY <3>4 DEF RemoveAll
    <3>8. HasAll(RemoveAll(UnpackEach(dir, unzip), TempDir), layer \o unzip)
      BY <3>3, <3>5, <3>7, WholeArchiveInImage
    <3> QED
      BY <3>3, <3>4, <3>5, <3>6, <3>8, HalvesAreParts
  <2>6. CASE content.label \notin {"zip", "jar", "war", "tar", "tar.gz"}
    <3>1. tree = HandleSource(Disk, content)
      BY <2>2, <2>6 DEF RegistryFetch
    <3>2. Written = FlattenSeq([i \in DOMAIN content.layers |-> TarEntries(content.layers[i], WorkDir, 0)])
      BY <2>4, <2>6
    <3> QED
      BY <2>1, <3>1, <3>2, WholeImage
  <2> QED
    BY <2>5, <2>6
<1> QED
  BY <1>1, <1>2

LEMMA WorkspaceHolds ==
    ASSUME case \in Cases, out.fetched \in DOMAIN case.source.content,
           out.tree = Download(out.fetched), out.tree # Failed
    PROVE  WorkspaceIsTheArchive
<1> SUFFICES ASSUME case.source.type # "git" PROVE WorkspaceIsTheArchive
  BY DEF WorkspaceIsTheArchive
<1> DEFINE W == Written
           listed == {i \in DOMAIN W : W[i].kind \in {"dir", "file"}}
           ways == UNION {{SubSeq(W[i].path, 1, n) : n \in 1 .. Len(W[i].path)} : i \in listed}
<1>1. ArePlaced(W) /\ HasAll(out.tree, W)
  BY Downloaded
<1> HIDE DEF W
<1>2. listed = ListedTo(W, Len(W))
  BY <1>1, ListIs DEF ListedTo, ArePlaced
<1>3. ways = UNION {Ways(W[i].path) : i \in ListedTo(W, Len(W))}
  BY <1>2 DEF Ways
<1> HIDE DEF listed, ways
<1>4. /\ {q \in DOMAIN out.tree : Inside(q)} = {q \in ways : Inside(q)}
      /\ \A i \in listed :
           /\ W[i].kind = "file" /\ Inside(W[i].path)
           /\ \A j \in listed : W[j].path = W[i].path => j <= i
           => out.tree[W[i].path].data = W[i].data
  BY <1>1, <1>2, <1>3 DEF HasAll
<1> QED
  BY <1>4 DEF WorkspaceIsTheArchive, W, listed, ways

\* The last value of a variable stays.
LEMMA LastValueStays ==
    ASSUME NEW env, NEW list, IsList(list)
    PROVE  \A i \in DOMAIN list :
             (\A j \in DOMAIN list : list[j][1] = list[i][1] => j <= i)
                 => serializeEnvVars(env, list)[list[i][1]] = list[i][2]
<1> DEFINE n == Len(list)
<1>1. n \in Nat /\ DOMAIN list = 1 .. n
  BY ListIs
<1>2. PICK acc : /\ acc[0] = env
                 /\ \A k \in 1 .. n : acc[k] = Assigned(acc[k - 1], list[k])
                 /\ serializeEnvVars(env, list) = acc[n]
  BY EnvSteps
<1> HIDE DEF n
<1> SUFFICES ASSUME NEW i \in 1 .. n, \A j \in 1 .. n : list[j][1] = list[i][1] => j <= i
             PROVE  serializeEnvVars(env, list)[list[i][1]] = list[i][2]
  BY <1>1
<1> DEFINE name == list[i][1]
           v == list[i][2]
           S == {k \in 0 .. n : k >= i => name \in DOMAIN acc[k] /\ acc[k][name] = v}
<1>3. 0 \in S
  BY <1>1
<1>4. ASSUME NEW k \in 0 .. n - 1, k \in S PROVE k + 1 \in S
  <2>1. k + 1 \in 1 .. n /\ (k + 1) - 1 = k /\ k + 1 \in 0 .. n
    BY <1>1
  <2>2. acc[k + 1] = [x \in DOMAIN acc[k] \cup {list[k + 1][1]} |->
                        IF x = list[k + 1][1] THEN list[k + 1][2] ELSE acc[k][x]]
    BY <1>2, <2>1 DEF Assigned
  <2>3. CASE k + 1 = i
    BY <2>1, <2>2, <2>3
  <2>4. CASE k + 1 < i
    BY <1>1, <2>1, <2>4
  <2>5. CASE k + 1 > i
    <3>1. name \in DOMAIN acc[k] /\ acc[k][name] = v
      BY <1>1, <1>4, <2>1, <2>5
    <3>2. list[k + 1][1] # name
      BY <1>1, <2>1, <2>5
    <3>3. name \in DOMAIN acc[k + 1] /\ acc[k + 1][name] = v
      <4> HIDE DEF name, v
      <4> QED
        BY <2>2, <3>1, <3>2
    <3> QED
      BY <2>1, <3>3
  <2> QED
    BY <1>1, <2>1, <2>3, <2>4, <2>5
<1>5. n \in S
  <2>1. n \in 0 .. n /\ \A k \in 0 .. n - 1 : k \in S => k + 1 \in S
    BY <1>1, <1>4
  <2> HIDE DEF S
  <2> QED
    BY <1>1, <1>3, <2>1, Upto
<1> QED
  BY <1>1, <1>2, <1>5

---------------------------------------------------------------------------
(* Git credentials. *)

\* The Git credential in a secret.
GitCred(s) == [name |-> s.name, domain |-> s.git, kind |-> IF s.type = "basic-auth" THEN "basic" ELSE "ssh"]

\* The one with the first name.
FirstNamed(match) == IF match = {} THEN Anonymous
                     ELSE (CHOOSE c \in match : \A d \in match : c.name <= d.name).name

\* The controller and the pod know the same Git credentials for a URL.
LEMMA GitCredsAgree ==
    ASSUME Existing, ~case.rebase,
           \A n \in Range(case.secrets) : SecretNamed(n).git = "" \/ SecretNamed(n).docker = {}
    PROVE  GitResolve(K8sGitCreds(SecretsForServiceAccount(case.secrets, case.cluster)), case.source.url)
             = GitResolve(MountedGitCreds(GivenArgs), case.source.url)
<1> DEFINE list == SecretsForServiceAccount(case.secrets, case.cluster)
           url == case.source.url
           flagged == Flagged(GivenArgs, {"basic-git", "ssh-git"})
           k8s == {c \in K8sGitCreds(list) : GitMatch(c, url)}
           mounted == {c \in MountedGitCreds(GivenArgs) : GitMatch(c, url)}
<1>1. IsList(list) /\ Range(list) = Account
  BY ListedSecrets
<1>2. Range(flagged) = {a \in Range(GivenArgs) : a[1] \in {"basic-git", "ssh-git"}}
  <2>1. IsList(GivenArgs)
    BY ArgsAre DEF AreArgs
  <2> HIDE DEF GivenArgs
  <2> QED
    BY <2>1, FlaggedArgs
<1>3. url.host # ""
  BY CasesAssumption DEF Existing
<1>4. \A s \in Account : s.git = "" \/ s.docker = {}
  BY DEF Account
<1> HIDE DEF list, flagged
<1>5. K8sGitCreds(list) = {GitCred(s) : s \in {t \in Account : t.type \in {"basic-auth", "ssh-auth"}}}
  <2>1. {list[i] : i \in {j \in DOMAIN list : list[j].type \in {"basic-auth", "ssh-auth"}}}
           = {t \in Account : t.type \in {"basic-auth", "ssh-auth"}}
    BY <1>1 DEF Range
  <2> QED
    BY <2>1 DEF K8sGitCreds, GitCred
<1>6. MountedGitCreds(GivenArgs) =
        {[name |-> a[2].name, domain |-> a[2].git, kind |-> IF a[1] = "basic-git" THEN "basic" ELSE "ssh"] : a \in Range(flagged)}
  BY DEF MountedGitCreds, flagged
<1>7. ASSUME NEW a \in Range(flagged)
      PROVE  /\ a[2] \in Account /\ a[2].type \in {"basic-auth", "ssh-auth"}
             /\ a[1] = "basic-git" <=> a[2].type = "basic-auth"
  <2>1. a[2] \in Account /\ a[1] = SecretFlag(a[2]) /\ a[1] \in {"basic-git", "ssh-git"}
    BY <1>2, ArgsAre
  <2>2. /\ a[1] = "basic-git" => a[2].type = "basic-auth"
        /\ a[1] = "ssh-git" => a[2].type = "ssh-auth"
    BY <2>1 DEF SecretFlag
  <2> QED
    BY <2>1, <2>2
<1>8. ASSUME NEW s \in Account, s.type \in {"basic-auth", "ssh-auth"}, s.git = url.host
      PROVE  \E a \in Range(flagged) : a[2] = s
  <2>1. s.git # "" /\ s.docker = {}
    BY <1>3, <1>4, <1>8
  <2>2. SecretFlag(s) \in {"basic-git", "ssh-git"}
    <3>1. SecretIsUsed(s)
      BY <2>1 DEF SecretIsUsed
    <3> QED
      BY <1>8, <2>1, <3>1 DEF SecretFlag
  <2>3. <<SecretFlag(s), s>> \in Range(GivenArgs)
    <3>1. SecretFlag(s) # ""
      BY <2>2
    <3> QED
      BY <3>1, ArgsAre
  <2> DEFINE a == <<SecretFlag(s), s>>
  <2>4. a \in Range(GivenArgs) /\ a[1] \in {"basic-git", "ssh-git"} /\ a[2] = s
    BY <2>2, <2>3
  <2> HIDE DEF a
  <2> QED
    BY <1>2, <2>4
<1>9. ASSUME NEW c \in k8s PROVE c \in mounted
  <2>1. PICK s \in Account : s.type \in {"basic-auth", "ssh-auth"} /\ c = GitCred(s)
    BY <1>5
  <2>2. s.git = url.host
    BY <1>9, <2>1 DEF GitMatch, GitCred
  <2>3. PICK a \in Range(flagged) : a[2] = s
    BY <1>8, <2>1, <2>2
  <2>4. c = [name |-> a[2].name, domain |-> a[2].git, kind |-> IF a[1] = "basic-git" THEN "basic" ELSE "ssh"]
    BY <1>7, <2>1, <2>3 DEF GitCred
  <2> QED
    BY <1>6, <2>4
<1>10. ASSUME NEW c \in mounted PROVE c \in k8s
  <2>1. PICK a \in Range(flagged) :
          c = [name |-> a[2].name, domain |-> a[2].git, kind |-> IF a[1] = "basic-git" THEN "basic" ELSE "ssh"]
    BY <1>6
  <2>2. c = GitCred(a[2])
    BY <1>7, <2>1 DEF GitCred
  <2> QED
    BY <1>5, <1>7, <2>2
<1>11. k8s = mounted
  BY <1>9, <1>10
<1> HIDE DEF k8s, mounted
<1>12. /\ GitResolve(K8sGitCreds(list), url) = FirstNamed(k8s)
       /\ GitResolve(MountedGitCreds(GivenArgs), url) = FirstNamed(mounted)
  BY DEF GitResolve, FirstNamed, k8s, mounted
<1> QED
  BY <1>11, <1>12 DEF list

---------------------------------------------------------------------------
(* The steps of a build. *)

\* What the properties are about is left alone.
Kept == UNCHANGED <<case, pod, out, image, signed, report>>

\* A program that fails makes no promise.
LEMMA FatalStep == ASSUME IInv, Fatal PROVE IInv'
  BY DEF IInv, Fatal, Shape, Recorded, Signing, Exported, Signature, Targets

\* A step that goes on without a change to what is recorded and signed.
LEMMA KeptStep ==
    ASSUME IInv, Kept, pc' = pc \/ pc' \in {"write", "pull", "read", "fetch"} PROVE IInv'
<1>1. Shape'
  BY DEF IInv, Kept, Shape
<1>2. Recorded'
  BY DEF IInv, Kept, Recorded, Exported
<1>3. Signing'
  BY DEF IInv, Kept, Signing, Signature, Targets
<1> QED
  BY <1>1, <1>2, <1>3 DEF IInv

LEMMA GenerateStep == ASSUME IInv, Generate PROVE IInv'
<1>1. pc = "generate" /\ UNCHANGED <<case, out, image, signed, report>>
  BY DEF Generate
<1>2. CASE GenerateFails
  <2>1. pc' = "rejected" /\ pod' = pod
    BY <1>2 DEF Generate
  <2> QED
    BY <1>1, <2>1 DEF IInv, Shape, Recorded, Signing, Exported, Signature, Targets
<1>3. CASE ~GenerateFails
  <2>1. /\ pc' = IF case.rebase THEN "rebase" ELSE "credentials"
        /\ pod'.cosign = CosignSecrets(Range(case.secrets))
    BY <1>3 DEF Generate
  <2>2. \A n \in Range(case.secrets) : n \in DOMAIN case.cluster
    BY <1>3 DEF GenerateFails, SecretsMissing
  <2>3. \A s \in pod'.cosign : \E n \in DOMAIN case.cluster : s = case.cluster[n]
    BY <2>1, <2>2 DEF CosignSecrets, SecretNamed
  <2>4. Shape' /\ Recorded'
    BY <1>1, <2>1 DEF IInv, Shape, Recorded, Exported
  <2>5. signed'.signatures = {}
    BY <1>1 DEF IInv, Signing
  <2>6. Signing'
    BY <1>1, <2>1, <2>3, <2>5 DEF IInv, Signing, Targets
  <2> QED
    BY <2>4, <2>6 DEF IInv
<1> QED
  BY <1>2, <1>3

\* build-init: what is unpacked, described and prepared.
LEMMA InitStep ==
    ASSUME IInv, FetchSource \/ DescribeSource \/ PrepareWorkspace \/ SaveCredentials
    PROVE  IInv'
<1>1. CASE Fatal
  BY <1>1, FatalStep
<1>2. CASE ~Fatal
  <2>1. UNCHANGED <<case, pod, image, signed, report>>
    BY <1>2 DEF FetchSource, DescribeSource, PrepareWorkspace, SaveCredentials
  <2>2. DOMAIN out' = DOMAIN out
    BY <1>2 DEF FetchSource, DescribeSource, PrepareWorkspace, SaveCredentials
  <2>3. \/ pc = "fetch" /\ pc' = "describe"
        \/ pc = "describe" /\ pc' = "descriptor" /\ out'.meta = out.fetched /\ out'.fetched = out.fetched
        \/ /\ pc \in {"descriptor", "save"} /\ pc' \in {"save", "export"}
           /\ out'.meta = out.meta /\ out'.fetched = out.fetched
    BY <1>2 DEF FetchSource, DescribeSource, PrepareWorkspace, SaveCredentials, SourceVersion,
                IInv, Shape
  <2>4. Shape' /\ Recorded'
    BY <2>1, <2>2, <2>3 DEF IInv, Shape, Recorded, Exported
  <2>5. Signing'
    BY <2>1, <2>3 DEF IInv, Signing, Signature, Targets
  <2> QED
    BY <2>4, <2>5 DEF IInv
<1> QED
  BY <1>1, <1>2

\* The lifecycle exports, or the rebase program does.
LEMMA ExportStep == ASSUME IInv, Export \/ Rebase PROVE IInv'
<1>1. CASE Fatal
  BY <1>1, FatalStep
<1>2. CASE ~Fatal
  <2>1. /\ UNCHANGED <<case, pod, out, signed, report>> /\ pc' = "completion"
        /\ pc \in {"export", "rebase"}
        /\ \E label : /\ image' = [digest |-> Built, label |-> label, tags |-> case.tags]
                      /\ pc = "export" => label = out.meta
    <3>1. CASE Export
      BY <1>2, <3>1 DEF Export
    <3>2. CASE Rebase
      BY <1>2, <3>2 DEF Rebase
    <3> QED
      BY <3>1, <3>2
  <2>2. /\ image'.digest = Built /\ image'.tags = case.tags
        /\ pc = "export" => image'.label = out.meta
    BY <2>1
  <2>3. ~case.rebase => image'.label = out.fetched
    BY <2>1, <2>2 DEF IInv, Recorded
  <2>4. Shape' /\ Recorded'
    BY <2>1, <2>2, <2>3 DEF IInv, Shape, Recorded, Exported
  <2>5. Signing'
    BY <2>1 DEF IInv, Signing, Signature, Targets
  <2> QED
    BY <2>4, <2>5 DEF IInv
<1> QED
  BY <1>1, <1>2

LEMMA CompletionStep == ASSUME IInv, CompletionCredentials PROVE IInv'
<1>1. /\ UNCHANGED <<case, pod, out, image, signed, report>> /\ pc = "completion"
      /\ pc' = IF hasCosign THEN "cosign" ELSE "notary"
  BY DEF CompletionCredentials
<1>2. Shape' /\ Recorded'
  BY <1>1 DEF IInv, Shape, Recorded, Exported
<1>3. Signing'
  BY <1>1 DEF IInv, Signing, hasCosign, Signature, Targets
<1> QED
  BY <1>2, <1>3 DEF IInv

\* The keys that have not signed yet, and the one that signs next.
Left == {s \in pod.cosign : ~\E sig \in signed.signatures : sig[1] = s.name}
NextKey == CHOOSE s \in Left : \A t \in Left : s.name <= t.name

\* Keys are told apart by their names, which are numbers.
LEMMA KeyNames ==
    ASSUME IInv
    PROVE  /\ \A s \in pod.cosign : s.name \in Nat
           /\ \A s, t \in pod.cosign : s.name = t.name => s = t
<1>1. \A n \in DOMAIN case.cluster : n \in Nat /\ case.cluster[n].name = n
  BY CasesAssumption DEF IInv, Shape
<1>2. \A s \in pod.cosign : \E n \in DOMAIN case.cluster : s = case.cluster[n]
  BY DEF IInv, Signing
<1>3. \A s \in pod.cosign : s.name \in Nat /\ s = case.cluster[s.name]
  BY <1>1, <1>2
<1> QED
  BY <1>3

LEMMA NextKeyIsLeft == ASSUME IInv, Left # {} PROVE NextKey \in Left
<1> DEFINE names == {s.name : s \in Left}
<1>1. names \in SUBSET Nat /\ names # {}
  BY KeyNames DEF Left
<1>2. PICK m \in names : \A n \in names : m <= n
  BY <1>1, Least
<1>3. PICK s \in Left : s.name = m
  BY <1>2
<1>4. \A t \in Left : s.name <= t.name
  BY <1>2, <1>3
<1> QED
  BY <1>3, <1>4 DEF NextKey

LEMMA CosignStep == ASSUME IInv, CosignSign PROVE IInv'
<1>1. pc = "cosign" /\ UNCHANGED <<case, pod, out, image, report>>
  BY DEF CosignSign
<1>2. image.digest = Built /\ signed.repositoryEnv = ""
  BY <1>1 DEF IInv, Recorded, Signing, Exported
<1>3. CASE Left = {}
  <2>1. pc' = "notary" /\ signed' = signed
    BY <1>3 DEF CosignSign, Left
  <2>2. ASSUME NEW s \in pod.cosign PROVE Signature(s) \in signed.signatures
    <3>1. PICK sig \in signed.signatures : sig[1] = s.name
      BY <1>3 DEF Left
    <3>2. PICK t \in pod.cosign : sig = Signature(t)
      BY DEF IInv, Signing
    <3>3. t.name = s.name
      BY <3>1, <3>2 DEF Signature
    <3> QED
      BY <3>2, <3>3, KeyNames
  <2>3. Shape' /\ Recorded'
    BY <1>1, <2>1 DEF IInv, Shape, Recorded, Exported
  <2>4. Signing'
    BY <1>1, <2>1, <2>2 DEF IInv, Signing, Signature, Targets
  <2> QED
    BY <2>3, <2>4 DEF IInv
<1>4. CASE Left # {}
  <2>1. pc' = pc /\ signed' = sign(NextKey)
    BY <1>4 DEF CosignSign, Left, NextKey
  <2>2. NextKey \in pod.cosign
    BY <1>4, NextKeyIsLeft DEF Left
  <2>3. /\ DOMAIN signed' = DOMAIN signed
        /\ signed'.signatures = signed.signatures \cup {Signature(NextKey)}
        /\ signed'.repositoryEnv = "" /\ signed'.targets = signed.targets
    BY <1>2, <2>1 DEF sign, Signature, IInv, Shape
  <2>4. Shape' /\ Recorded'
    BY <1>1, <2>1, <2>3 DEF IInv, Shape, Recorded, Exported
  <2>5. \A sig \in signed'.signatures : \E s \in pod.cosign : sig = Signature(s)
    BY <2>2, <2>3 DEF IInv, Signing
  <2>6. Signing'
    BY <1>1, <2>1, <2>3, <2>5 DEF IInv, Signing, Signature, Targets
  <2> QED
    BY <2>4, <2>6 DEF IInv
<1> QED
  BY <1>3, <1>4

LEMMA NotaryStep == ASSUME IInv, NotarySign PROVE IInv'
<1> DEFINE done == Cardinality(signed.targets)
<1>1. pc = "notary" /\ image.digest = Built /\ image.tags = case.tags
  BY DEF NotarySign, IInv, Recorded, Exported
<1>2. case.tags \in Seq(Range(case.tags)) /\ signed.targets \in SUBSET Targets(case.tags)
  BY CasesAssumption DEF IInv, Shape, Signing, IsList
<1>3. /\ done = Len(case.tags) => signed.targets = Targets(case.tags)
      /\ done # Len(case.tags) => case.tags[done + 1] \in Range(case.tags)
  BY <1>2, TargetsOfTags
<1>4. CASE case.notary = "" \/ done = Len(image.tags)
  <2>1. pc' = "metadata" /\ UNCHANGED <<case, pod, out, image, signed, report>>
    BY <1>4 DEF NotarySign
  <2>2. Shape' /\ Recorded'
    BY <1>1, <2>1 DEF IInv, Shape, Recorded, Exported
  <2>3. case.notary # "" => signed.targets = Targets(case.tags)
    BY <1>1, <1>3, <1>4
  <2>4. Signing'
    BY <1>1, <2>1, <2>3 DEF IInv, Signing, Signature, Targets
  <2> QED
    BY <2>2, <2>4 DEF IInv
<1>5. CASE ~(case.notary = "" \/ done = Len(image.tags)) /\ ~Fatal
  <2>1. /\ pc' = pc /\ UNCHANGED <<case, pod, out, image, report>>
        /\ signed' = PublishTarget(image.tags[done + 1])
    BY <1>5 DEF NotarySign
  <2>2. <<image.tags[done + 1], Built>> \in Targets(case.tags)
    BY <1>1, <1>3, <1>5 DEF Targets
  <2>3. /\ DOMAIN signed' = DOMAIN signed
        /\ signed'.targets = signed.targets \cup {<<image.tags[done + 1], Built>>}
        /\ signed'.signatures = signed.signatures /\ signed'.repositoryEnv = signed.repositoryEnv
    BY <1>1, <2>1 DEF PublishTarget, IInv, Shape
  <2>4. Shape' /\ Recorded'
    BY <1>1, <2>1, <2>3 DEF IInv, Shape, Recorded, Exported
  <2>5. signed'.targets \subseteq Targets(case.tags)
    BY <2>2, <2>3 DEF IInv, Signing
  <2>6. Signing'
    BY <1>1, <2>1, <2>3, <2>5 DEF IInv, Signing, Signature, Targets
  <2> QED
    BY <2>4, <2>6 DEF IInv
<1>6. CASE Fatal
  BY <1>6, FatalStep
<1> QED
  BY <1>4, <1>5, <1>6

\* completion reports, the reconciler attests.
LEMMA ReportStep == ASSUME IInv, WriteMessage \/ AttestBuild, ~Fatal PROVE IInv'
<1>1. UNCHANGED <<case, pod, out, image, signed>> /\ pc \in {"metadata", "attest"}
  BY DEF WriteMessage, AttestBuild
<1>2. /\ DOMAIN report = {"image", "attested"} /\ image.digest = Built
      /\ ~case.rebase => image.label = out.fetched
      /\ pc = "attest" => report.image = Built
  BY <1>1 DEF IInv, Shape, Recorded, Exported
<1>3. CASE WriteMessage
  <2>1. /\ pc = "metadata" /\ pc' = "attest"
        /\ DOMAIN report' = DOMAIN report /\ report'.image = Built
    BY <1>2, <1>3 DEF WriteMessage, BuiltImageRef
  <2>2. Shape' /\ Recorded'
    BY <1>1, <2>1 DEF IInv, Shape, Recorded, Exported
  <2>3. Signing'
    BY <1>1, <2>1 DEF IInv, Signing, Signature, Targets
  <2> QED
    BY <2>2, <2>3 DEF IInv
<1>4. CASE AttestBuild
  <2>1. /\ pc = "attest" /\ pc' = "done"
        /\ DOMAIN report' = DOMAIN report
        /\ report'.image = report.image /\ report'.attested = Envelope
    BY <1>2, <1>4 DEF AttestBuild
  <2>2. Envelope.statement.subject = Built /\ Envelope.statement.source = image.label
    BY <1>2, <2>1 DEF Envelope, Statement, extractSourceFromLabel
  <2>3. Shape' /\ Recorded'
    BY <1>1, <1>2, <2>1, <2>2 DEF IInv, Shape, Recorded, Exported
  <2>4. Signing'
    BY <1>1, <2>1 DEF IInv, Signing, Signature, Targets
  <2> QED
    BY <2>3, <2>4 DEF IInv
<1> QED
  BY <1>3, <1>4

---------------------------------------------------------------------------
(* The theorems. *)

LEMMA StepInv == ASSUME IInv, [Next]_vars PROVE IInv'
<1>1. CASE Fatal
  BY <1>1, FatalStep
<1>2. ASSUME LoadCredentials \/ VerifyWriteAccess \/ LoadPullSecrets \/ VerifyReadAccess, ~Fatal
      PROVE  IInv'
  <2>1. CASE LoadCredentials
    <3>1. Kept /\ pc' = "write"
      BY <2>1 DEF LoadCredentials, Kept
    <3> QED
      BY <3>1, KeptStep
  <2>2. CASE VerifyWriteAccess
    <3>1. Kept /\ pc' = "pull"
      BY <1>2, <2>2 DEF VerifyWriteAccess, Kept
    <3> QED
      BY <3>1, KeptStep
  <2>3. CASE LoadPullSecrets
    <3>1. Kept /\ pc' = "read"
      BY <2>3 DEF LoadPullSecrets, Kept
    <3> QED
      BY <3>1, KeptStep
  <2>4. CASE VerifyReadAccess
    <3>1. Kept /\ pc' = "fetch"
      BY <1>2, <2>4 DEF VerifyReadAccess, Kept
    <3> QED
      BY <3>1, KeptStep
  <2> QED
    BY <1>2, <2>1, <2>2, <2>3, <2>4
<1>3. ASSUME MoveSource \/ PushTag \/ UNCHANGED vars PROVE IInv'
  <2>1. Kept /\ pc' = pc
    BY <1>3 DEF MoveSource, PushTag, vars, Kept
  <2> QED
    BY <2>1, KeptStep
<1>4. CASE CallFails
  BY <1>4, FatalStep DEF CallFails
<1> QED
  BY <1>1, <1>2, <1>3, <1>4, GenerateStep, InitStep, ExportStep, CompletionStep, CosignStep,
     NotaryStep, ReportStep DEF Next

\* The invariant holds in every build.
THEOREM PipelineInvariant == Spec => []IInv
<1>1. Init => IInv
  <2> SUFFICES ASSUME Init PROVE IInv
    OBVIOUS
  <2>1. Shape
    BY DEF Init, Shape
  <2>2. Recorded
    BY DEF Init, Recorded, Exported
  <2>3. pc = "generate" /\ pod.cosign = {}
    BY DEF Init
  <2>4. signed.signatures = {} /\ signed.targets = {} /\ signed.repositoryEnv = ""
    BY DEF Init
  <2>5. Signing
    BY <2>3, <2>4 DEF Signing
  <2> QED
    BY <2>1, <2>2, <2>5 DEF IInv
<1>2. IInv /\ [Next]_vars => IInv'
  BY StepInv
<1> QED
  BY <1>1, <1>2, PTL DEF Spec

\* What a Build reports and attests is true, for every source, cluster and number of
\* moves of the world: the source is the one that build-init unpacked, whatever its URL
\* stands for later, and the image the one that was exported, whoever pushes to its tag.
THEOREM ReportCorrect == Spec => []ReportIsTrue
<1>1. IInv => ReportIsTrue
  BY DEF IInv, Recorded, Exported, ReportIsTrue, SourceIsRecorded, ReportedImageIsTheBuilt, Reported
<1> QED
  BY <1>1, PipelineInvariant, PTL

\* A build is reported only when each of its cosign keys has signed the image, in the
\* repository of its own secret, and the notary has all of its tags, for any number of
\* keys and tags.
THEOREM SigningCorrect == Spec => []SignedByEveryKey
<1>1. IInv => SignedByEveryKey
  <2> SUFFICES ASSUME IInv, Reported PROVE SignedByEveryKey
    BY DEF SignedByEveryKey
  <2>1. pc \in {"attest", "done"} /\ image.digest = Built /\ image.tags = case.tags
    BY DEF Reported, IInv, Recorded, Exported
  <2>2. \A s \in pod.cosign : Signature(s) \in signed.signatures
    BY <2>1 DEF IInv, Signing
  <2>3. case.notary # "" => signed.targets = Targets(case.tags)
    BY <2>1 DEF IInv, Signing
  <2> QED
    BY <2>1, <2>2, <2>3 DEF SignedByEveryKey, Signature, Targets
<1> QED
  BY <1>1, PipelineInvariant, PTL

---------------------------------------------------------------------------
(* What the containers are given: the invariant. *)

\* The version that the source has is one of its versions.
WorldIs ==
    /\ DOMAIN world = {"source", "tag", "moves"}
    /\ world.source \in DOMAIN case.source.content

\* The pod has what the generator makes of the case, once there is a pod.
PodIs ==
    /\ pc \notin {"generate", "rejected"} =>
         /\ Existing
         /\ pod.args = GivenArgs /\ pod.pullArgs = GivenPullArgs
    /\ pc = "credentials" => ~case.rebase

\* Credentials which the pull secrets joined after others were checked.
CheckedBefore(d) ==
    \E c \in LoadCreds(pod.args) :
        /\ d \in LoadPullCreds({c}, pod.pullArgs)
        /\ checked = MultiKeychain(<<{c}, {case.node}>>, case.tags[1].host)

CredsAre ==
    /\ pc \in {"write", "pull"} => creds \in LoadCreds(pod.args)
    /\ pc = "pull" => checked = MultiKeychain(<<{creds}, {case.node}>>, case.tags[1].host)
    /\ pc \in {"read", "fetch", "describe", "descriptor", "save"} => CheckedBefore(creds)
    /\ pc = "export" => CheckedBefore(out.saved)

\* The workspace before the descriptor is read, and the environment after.
VolumesAre ==
    /\ pc = "describe" => /\ out.fetched \in DOMAIN case.source.content
                          /\ out.tree = Download(out.fetched) /\ out.tree # Failed
    /\ pc = "save" => \E e : out.env = serializeEnvVars(e, case.env)

JInv == WorldIs /\ PodIs /\ CredsAre /\ VolumesAre

\* What the case determines does not change.
LEMMA SameCase ==
    ASSUME case' = case
    PROVE  /\ GivenArgs' = GivenArgs /\ GivenPullArgs' = GivenPullArgs
           /\ Existing' <=> Existing
           /\ \A v : Download(v)' = Download(v)
<1>1. GivenArgs' = GivenArgs
  <2> DEFINE names == Distinct(case.secrets)
             secrets == [i \in DOMAIN names |-> case.cluster[names[i]]]
             flags == [i \in DOMAIN secrets |-> <<SecretFlag(secrets[i]), secrets[i]>>]
  <2>1. ASSUME NEW s PROVE SecretFlag(s)' = SecretFlag(s)
    BY DEF SecretFlag, SecretIsUsed
  <2>2. names' = names /\ secrets' = secrets
    OBVIOUS
  <2>3. flags' = flags
    <3> HIDE DEF secrets
    <3> QED
      BY <2>1, <2>2
  <2>4. GivenArgs = Pick(flags, {i \in DOMAIN flags : flags[i][1] # ""})
    BY DEF GivenArgs, SecretArgs, fetchBuildSecrets, SecretNamed
  <2>5. GivenArgs' = Pick(flags', {i \in DOMAIN flags' : flags'[i][1] # ""})
    BY DEF GivenArgs, SecretArgs, fetchBuildSecrets, SecretNamed
  <2> HIDE DEF flags
  <2> QED
    BY <2>3, <2>4, <2>5
<1>2. GivenPullArgs' = GivenPullArgs
  BY DEF GivenPullArgs, PullArgs, fetchBuildSecrets, SecretNamed
<1>3. Existing' <=> Existing
  BY DEF Existing
<1>4. \A v : Download(v)' = Download(v)
  BY DEF Download
<1> QED
  BY <1>1, <1>2, <1>3, <1>4

\* Where the case stays, so does what the pod was made of, and the world moves within
\* the versions of the source.
LEMMA PodStays ==
    ASSUME JInv, UNCHANGED <<case, pod>>, pc \notin {"generate", "rejected"}, pc' \notin {"generate", "rejected", "credentials"}
    PROVE  PodIs'
<1>1. Existing /\ pod.args = GivenArgs /\ pod.pullArgs = GivenPullArgs
  BY DEF JInv, PodIs
<1>2. Existing' /\ pod'.args = GivenArgs' /\ pod'.pullArgs = GivenPullArgs'
  BY <1>1, SameCase
<1> QED
  BY <1>2 DEF PodIs

\* A step with nothing left to say of credentials and volumes: those after the export
\* and a failure.
Over == {"failed", "completion", "cosign", "notary", "metadata", "attest", "done"}

LEMMA OverStep ==
    ASSUME JInv, UNCHANGED <<case, pod>>, pc \notin {"generate", "rejected"}, pc' \in Over,
           DOMAIN world' = DOMAIN world, world'.source = world.source
    PROVE  JInv'
<1>1. WorldIs'
  BY DEF JInv, WorldIs
<1>2. PodIs'
  BY PodStays DEF Over
<1>3. CredsAre' /\ VolumesAre'
  BY DEF CredsAre, VolumesAre, Over
<1> QED
  BY <1>1, <1>2, <1>3 DEF JInv

LEMMA FatalGiven == ASSUME JInv, Fatal, pc \notin {"generate", "rejected"} PROVE JInv'
  BY OverStep DEF Fatal, Over

LEMMA GenerateGiven == ASSUME IInv, JInv, Generate PROVE JInv'
<1>1. pc = "generate" /\ UNCHANGED <<case, world, creds, checked, out>> /\ case \in Cases
  BY DEF Generate, IInv, Shape
<1>2. WorldIs'
  BY <1>1 DEF JInv, WorldIs
<1>3. CASE GenerateFails
  <2>1. pc' = "rejected" /\ pod' = pod
    BY <1>3 DEF Generate
  <2> QED
    BY <1>1, <1>2, <2>1 DEF JInv, PodIs, CredsAre, VolumesAre
<1>4. CASE ~GenerateFails
  <2>1. pc' = IF case.rebase THEN "rebase" ELSE "credentials"
    BY <1>4 DEF Generate
  <2>2. pod'.args = GivenArgs /\ pod'.pullArgs = GivenPullArgs
    BY <1>4 DEF Generate, GivenArgs, GivenPullArgs
  <2>3. Existing
    <3>1. Range(case.pullSecrets) \subseteq DOMAIN case.cluster \cup {NoName}
      BY <1>1, CasesAssumption
    <3> QED
      BY <1>1, <1>4, <3>1 DEF Existing, GenerateFails, SecretsMissing
  <2>4. Existing' /\ pod'.args = GivenArgs' /\ pod'.pullArgs = GivenPullArgs'
    BY <1>1, <2>2, <2>3, SameCase
  <2>5. PodIs'
    BY <1>1, <2>1, <2>4 DEF PodIs
  <2>6. CredsAre' /\ VolumesAre'
    BY <2>1 DEF CredsAre, VolumesAre
  <2> QED
    BY <1>2, <2>5, <2>6 DEF JInv
<1> QED
  BY <1>3, <1>4

\* The credentials of build-init, up to the check for read access.
LEMMA CredentialsGiven ==
    ASSUME JInv, LoadCredentials \/ VerifyWriteAccess \/ LoadPullSecrets \/ VerifyReadAccess
    PROVE  JInv'
<1>1. pc \in {"credentials", "write", "pull", "read"}
  BY DEF LoadCredentials, VerifyWriteAccess, LoadPullSecrets, VerifyReadAccess
<1>2. CASE Fatal
  BY <1>1, <1>2, FatalGiven
<1>3. CASE ~Fatal
  <2>1. UNCHANGED <<case, world, pod, out>> /\ pc' \in {"write", "pull", "read", "fetch"}
    BY <1>3 DEF LoadCredentials, VerifyWriteAccess, LoadPullSecrets, VerifyReadAccess
  <2>2. WorldIs' /\ PodIs' /\ VolumesAre'
    <3>1. PodIs'
      BY <1>1, <2>1, PodStays
    <3> QED
      BY <2>1, <3>1 DEF JInv, WorldIs, VolumesAre
  <2>3. CredsAre'
    <3>1. CASE LoadCredentials
      <4>1. pc' = "write" /\ creds' \in LoadCreds(pod.args)
        BY <3>1 DEF LoadCredentials
      <4> QED
        BY <2>1, <4>1 DEF CredsAre
    <3>2. CASE VerifyWriteAccess
      <4>1. /\ pc = "write" /\ pc' = "pull" /\ creds' = creds
            /\ checked' = MultiKeychain(<<{creds}, {case.node}>>, case.tags[1].host)
        BY <1>3, <3>2 DEF VerifyWriteAccess, Keychain
      <4>2. creds \in LoadCreds(pod.args)
        BY <4>1 DEF JInv, CredsAre
      <4> QED
        BY <2>1, <4>1, <4>2 DEF CredsAre
    <3>3. CASE LoadPullSecrets
      <4>1. /\ pc = "pull" /\ pc' = "read" /\ creds' \in LoadPullCreds({creds}, pod.pullArgs)
            /\ checked' = checked
        BY <3>3 DEF LoadPullSecrets
      <4>2. creds \in LoadCreds(pod.args) /\ checked = MultiKeychain(<<{creds}, {case.node}>>, case.tags[1].host)
        BY <4>1 DEF JInv, CredsAre
      <4>3. CheckedBefore(creds)'
        BY <2>1, <4>1, <4>2 DEF CheckedBefore
      <4> QED
        BY <4>1, <4>3 DEF CredsAre
    <3>4. CASE VerifyReadAccess
      <4>1. pc = "read" /\ pc' = "fetch" /\ creds' = creds /\ checked' = checked
        BY <1>3, <3>4 DEF VerifyReadAccess
      <4>2. CheckedBefore(creds)
        BY <4>1 DEF JInv, CredsAre
      <4>3. CheckedBefore(creds)'
        BY <2>1, <4>1, <4>2 DEF CheckedBefore
      <4> QED
        BY <4>1, <4>3 DEF CredsAre
    <3> QED
      BY <3>1, <3>2, <3>3, <3>4
  <2> QED
    BY <2>2, <2>3 DEF JInv
<1> QED
  BY <1>2, <1>3

\* The source, the descriptor and the docker config.
LEMMA SourceGiven ==
    ASSUME IInv, JInv, FetchSource \/ DescribeSource \/ PrepareWorkspace \/ SaveCredentials
    PROVE  JInv'
<1>1. pc \in {"fetch", "describe", "descriptor", "save"}
  BY DEF FetchSource, DescribeSource, PrepareWorkspace, SaveCredentials
<1>2. CASE Fatal
  BY <1>1, <1>2, FatalGiven
<1>3. CASE ~Fatal
  <2>1. /\ UNCHANGED <<case, world, pod, creds, checked>> /\ pc' \in {"describe", "descriptor", "save", "export"}
        /\ DOMAIN out = {"tree", "fetched", "meta", "env", "saved"}
    BY <1>3 DEF FetchSource, DescribeSource, PrepareWorkspace, SaveCredentials, IInv, Shape
  <2>2. WorldIs' /\ PodIs'
    <3>1. PodIs'
      BY <1>1, <2>1, PodStays
    <3> QED
      BY <2>1, <3>1 DEF JInv, WorldIs
  <2>3. CheckedBefore(creds)
    BY <1>1 DEF JInv, CredsAre
  <2>4. CheckedBefore(creds)'
    BY <2>1, <2>3 DEF CheckedBefore
  <2>5. pc' = "export" => CheckedBefore(out.saved)'
    <3>1. ASSUME pc' = "export" PROVE out'.saved = creds'
      BY <1>3, <2>1, <3>1 DEF FetchSource, DescribeSource, PrepareWorkspace, SaveCredentials
    <3> QED
      BY <2>4, <3>1 DEF CheckedBefore
  <2>6. CredsAre'
    BY <2>1, <2>4, <2>5 DEF CredsAre
  <2>7. pc' = "describe" => /\ out'.fetched \in DOMAIN case.source.content
                            /\ out'.tree = Download(out'.fetched) /\ out'.tree # Failed
    <3>1. ASSUME pc' = "describe"
          PROVE  /\ out'.fetched = world.source
                 /\ out'.tree = Download(world.source) /\ Download(world.source) # Failed
      <4>1. FetchSource
        BY <1>1, <1>3, <3>1 DEF DescribeSource, PrepareWorkspace, SaveCredentials
      <4> QED
        BY <1>3, <2>1, <4>1 DEF FetchSource
    <3> QED
      BY <3>1 DEF JInv, WorldIs
  <2>8. pc' = "save" => \E e : out'.env = serializeEnvVars(e, case.env)
    <3>1. ASSUME pc' = "save" PROVE \E d : out'.env = BuildpackEnv(d)
      <4>1. PrepareWorkspace
        BY <1>1, <1>3, <3>1 DEF FetchSource, DescribeSource, SaveCredentials
      <4> QED
        BY <1>3, <2>1, <4>1 DEF PrepareWorkspace
    <3> QED
      BY <3>1 DEF BuildpackEnv, SetupPlatformEnvVars
  <2>9. VolumesAre'
    BY <2>1, <2>7, <2>8, SameCase DEF VolumesAre
  <2> QED
    BY <2>2, <2>6, <2>9 DEF JInv
<1> QED
  BY <1>2, <1>3

\* The world moves, or nothing happens.
LEMMA WorldGiven == ASSUME JInv, IInv, MoveSource \/ PushTag \/ UNCHANGED vars PROVE JInv'
<1>1. UNCHANGED <<case, pc, pod, creds, checked, out>>
  BY DEF MoveSource, PushTag, vars
<1>2. WorldIs'
  <2>1. DOMAIN case.source.content = 1 .. Len(case.source.content) /\ Len(case.source.content) \in Nat
    BY CasesAssumption, ListIs DEF IInv, Shape
  <2>2. CASE MoveSource
    BY <1>1, <2>1, <2>2 DEF MoveSource, JInv, WorldIs
  <2>3. CASE ~MoveSource
    BY <1>1, <2>3 DEF PushTag, vars, JInv, WorldIs
  <2> QED
    BY <2>2, <2>3
<1>3. PodIs'
  BY <1>1, SameCase DEF JInv, PodIs
<1>4. CredsAre'
  BY <1>1 DEF JInv, CredsAre, CheckedBefore
<1>5. VolumesAre'
  BY <1>1, SameCase DEF JInv, VolumesAre
<1> QED
  BY <1>2, <1>3, <1>4, <1>5 DEF JInv

LEMMA StepGiven == ASSUME IInv, JInv, [Next]_vars PROVE JInv'
<1>1. ASSUME Export \/ Rebase \/ CompletionCredentials \/ CosignSign \/ NotarySign \/ WriteMessage
               \/ AttestBuild
      PROVE  JInv'
  <2>1. pc \notin {"generate", "rejected"}
    BY <1>1 DEF Export, Rebase, CompletionCredentials, CosignSign, NotarySign, WriteMessage, AttestBuild
  <2>2. CASE Fatal
    BY <2>1, <2>2, FatalGiven
  <2>3. CASE ~Fatal
    <3>1. UNCHANGED <<case, pod>> /\ pc' \in Over
      <4>1. CASE Export
        BY <2>3, <4>1 DEF Export, Over
      <4>2. CASE Rebase
        BY <2>3, <4>2 DEF Rebase, Over
      <4>3. CASE CompletionCredentials \/ CosignSign \/ NotarySign
        BY <2>3, <4>3 DEF CompletionCredentials, CosignSign, NotarySign, Over
      <4>4. CASE WriteMessage \/ AttestBuild
        BY <2>3, <4>4 DEF WriteMessage, AttestBuild, Over
      <4> QED
        BY <1>1, <4>1, <4>2, <4>3, <4>4
    <3>2. DOMAIN world' = DOMAIN world /\ world'.source = world.source
      <4>1. world' = world \/ world' = [world EXCEPT !.tag = Built]
        <5>1. CASE Export
          BY <2>3, <5>1 DEF Export
        <5>2. CASE Rebase
          BY <2>3, <5>2 DEF Rebase
        <5> QED
          BY <1>1, <2>3, <5>1, <5>2 DEF CompletionCredentials, CosignSign, NotarySign, WriteMessage, AttestBuild
      <4> QED
        BY <4>1 DEF JInv, WorldIs
    <3> QED
      BY <2>1, <3>1, <3>2, OverStep
  <2> QED
    BY <2>2, <2>3
<1>2. CASE CallFails
  <2>1. pc \notin {"generate", "rejected"} /\ Fatal
    BY <1>2 DEF CallFails, Running
  <2> QED
    BY <2>1, FatalGiven
<1> QED
  BY <1>1, <1>2, GenerateGiven, CredentialsGiven, SourceGiven, WorldGiven DEF Next

\* The containers are given what the case says, in every build.
THEOREM GivenInvariant == Spec => []JInv
<1>1. Init => JInv
  <2> SUFFICES ASSUME Init PROVE JInv
    OBVIOUS
  <2>1. WorldIs
    <3>1. case \in Cases /\ world = [source |-> 1, tag |-> 0, moves |-> 0]
      BY DEF Init
    <3>2. IsList(case.source.content) /\ case.source.content # <<>>
      BY <3>1, CasesAssumption
    <3>3. 1 \in DOMAIN case.source.content
      BY <3>2 DEF IsList
    <3> QED
      BY <3>1, <3>3 DEF WorldIs
  <2>2. pc = "generate"
    BY DEF Init
  <2> QED
    BY <2>1, <2>2 DEF JInv, PodIs, CredsAre, VolumesAre
<1>2. IInv /\ JInv /\ [Next]_vars => JInv'
  BY StepGiven
<1> QED
  BY <1>1, <1>2, PipelineInvariant, PTL DEF Spec

\* Buildpacks get their inputs, for archives and images of any number of entries and
\* layers, whatever "." and ".." their names hold, and however often the source moves while
\* it is fetched: the workspace is what the archive lists for it, and a variable of the Build
\* has the value the Build gives it.
THEOREM InputsCorrect == Spec => []BuildpacksGetTheirInputs
<1>1. IInv /\ JInv => BuildpacksGetTheirInputs
  <2> SUFFICES ASSUME IInv, JInv PROVE BuildpacksGetTheirInputs
    OBVIOUS
  <2>1. case \in Cases
    BY DEF IInv, Shape
  <2>2. WorkspaceIsTheArchive
    <3>1. CASE pc = "describe"
      <4>1. /\ out.fetched \in DOMAIN case.source.content
            /\ out.tree = Download(out.fetched) /\ out.tree # Failed
        BY <3>1 DEF JInv, VolumesAre
      <4> QED
        BY <2>1, <4>1, WorkspaceHolds
    <3>2. CASE pc # "describe"
      BY <3>2 DEF WorkspaceIsTheArchive
    <3> QED
      BY <3>1, <3>2
  <2>3. BuildEnvWins
    <3> SUFFICES ASSUME pc = "save" PROVE BuildEnvWins
      BY DEF BuildEnvWins
    <3>1. PICK e : out.env = serializeEnvVars(e, case.env)
      BY DEF JInv, VolumesAre
    <3>2. IsList(case.env)
      BY <2>1, CasesAssumption
    <3> QED
      BY <3>1, <3>2, LastValueStays DEF BuildEnvWins
  <2> QED
    BY <2>2, <2>3 DEF BuildpacksGetTheirInputs
<1> QED
  BY <1>1, PipelineInvariant, GivenInvariant, PTL

\* The places that read the secrets of a Build agree, for any number of secrets, keys and
\* pull secrets and in whatever order the maps are ranged over: the export uses the
\* credential that the check for write access used, or, where the account has none for the
\* registry and the check was of the node's, that of a pull secret for it, unchecked; and the
\* controller and the pod find the same one for Git and, where one secret names it in a form
\* that is known, for the registry.
THEOREM CredentialsCorrect == Spec => []CredentialsAgree
<1>1. IInv /\ JInv => CredentialsAgree
  <2> SUFFICES ASSUME IInv, JInv PROVE CredentialsAgree
    OBVIOUS
  <2>1. ASSUME pc \notin {"generate", "rejected"}
        PROVE  Existing /\ pod.args = GivenArgs /\ pod.pullArgs = GivenPullArgs
    BY <2>1 DEF JInv, PodIs
  <2>2. CheckedCredentialIsUsed
    <3> DEFINE host == case.tags[1].host
    <3> SUFFICES ASSUME pc = "export" PROVE CheckedCredentialIsUsed
      BY DEF CheckedCredentialIsUsed
    <3>1. Existing /\ pod.args = GivenArgs /\ pod.pullArgs = GivenPullArgs
      BY <2>1
    <3>2. PICK c \in LoadCreds(GivenArgs) : /\ out.saved \in LoadPullCreds({c}, GivenPullArgs)
                                            /\ checked = MultiKeychain(<<{c}, {case.node}>>, host)
      BY <3>1 DEF JInv, CredsAre, CheckedBefore
    <3> HIDE DEF host
    <3>3. \/ MultiKeychain(<<{out.saved}, {case.node}>>, host) = checked
          \/ /\ \A b \in LoadCreds(GivenArgs) : Resolve(b, host) = {Anonymous}
             /\ checked = Resolve(case.node, host)
             /\ MultiKeychain(<<{out.saved}, {case.node}>>, host) \subseteq
                  {a[2].name : a \in {x \in Range(GivenPullArgs) : \E k \in x[2].keys : Match(k, host)}}
      BY <3>1, <3>2, CheckedIsUsed
    <3> QED
      BY <3>1, <3>3 DEF CheckedCredentialIsUsed, host
  <2>3. GitCredentialsAgree
    <3> SUFFICES ASSUME pc = "credentials",
                        \A n \in Range(case.secrets) : SecretNamed(n).git = "" \/ SecretNamed(n).docker = {}
                 PROVE  GitCredentialsAgree
      BY DEF GitCredentialsAgree
    <3>1. Existing /\ pod.args = GivenArgs /\ ~case.rebase
      BY <2>1 DEF JInv, PodIs
    <3> QED
      BY <3>1, GitCredsAgree DEF GitCredentialsAgree
  <2>4. RegistryCredentialsAgree
    <3> DEFINE host == case.tags[1].host
           pull == SecretsForServiceAccount(case.pullSecrets, case.cluster)
    <3> SUFFICES ASSUME pc = "write", Cardinality(Naming(host)) = 1,
                        \E n \in Naming(host) : \E k \in DOMAIN SecretCreds(SecretNamed(n)) : Match(k, host)
                 PROVE  MultiKeychain(KeychainForSecretRef(
                            SecretsForServiceAccount(case.secrets, case.cluster), case.volume, pull, case.node), host)
                          = MultiKeychain(<<{creds}, {case.node}>>, host)
      BY DEF RegistryCredentialsAgree, Keychain, Naming
    <3>1. Existing /\ pod.args = GivenArgs /\ creds \in LoadCreds(pod.args)
      BY <2>1 DEF JInv, CredsAre
    <3> HIDE DEF host, pull
    <3> QED
      BY <3>1, AgreeOnRegistry
  <2> QED
    BY <2>2, <2>3, <2>4 DEF CredentialsAgree
<1> QED
  BY <1>1, PipelineInvariant, GivenInvariant, PTL

=============================================================================
