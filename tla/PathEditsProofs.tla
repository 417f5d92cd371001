-------------------------- MODULE PathEditsProofs ---------------------------
(***************************************************************************)
(* Theorems about PathEdits, for any number of processes, entries, failures *)
(* and edits by other programs, and PATHs of any length.                   *)
(***************************************************************************)
EXTENDS PathEdits, FiniteSetTheorems, SequenceTheorems, WellFoundedInduction, TLAPS

-----------------------------------------------------------------------------
(* Induction over natural numbers and sequences, by the least counterexample *)

LEMMA Least ==
    ASSUME NEW T \in SUBSET Nat, T # {}
    PROVE  \E x \in T : \A y \in T : ~(y < x)
<1> DEFINE R == OpToRel(<, Nat)
<1>1. IsWellFoundedOn(R, Nat)
  BY NatLessThanWellFounded
<1>2. \A x, y \in Nat : y < x => <<y, x>> \in R
  BY DEF OpToRel
<1> HIDE DEF R
<1>3. \E x \in T : \A y \in T : ~(<<y, x>> \in R)
  BY <1>1, WFMin
<1> QED BY <1>2, <1>3

\* A set that contains 0 and is closed under successors up to n is all of 0..n.
LEMMA UpTo ==
    ASSUME NEW n \in Nat, NEW T, 0 \in T, \A i \in 0..n : i \in T /\ i < n => i + 1 \in T
    PROVE  \A i \in 0..n : i \in T
<1> DEFINE bad == {i \in 0..n : i \notin T}
<1> SUFFICES ASSUME bad # {}  PROVE FALSE
  OBVIOUS
<1>1. bad \in SUBSET Nat
  OBVIOUS
<1> HIDE DEF bad
<1>2. PICK x \in bad : \A y \in bad : ~(y < x)
  BY <1>1, Least
<1>3. x \in 0..n /\ x \notin T /\ \A y \in 0..n : y < x => y \in T
  BY <1>2 DEF bad
<1>4. x # 0 /\ x - 1 \in 0..n /\ x - 1 < x /\ x - 1 < n
  BY <1>3
<1>5. x - 1 \in T
  BY <1>3, <1>4
<1> QED BY <1>3, <1>4, <1>5

\* A set of sequences that contains the empty one and is closed under Append is
\* all of them.
LEMMA AllSequences ==
    ASSUME NEW S, NEW T, <<>> \in T, \A s \in Seq(S), e \in S : s \in T => Append(s, e) \in T
    PROVE  \A s \in Seq(S) : s \in T
<1> TAKE s \in Seq(S)
<1> DEFINE good == {i \in 0..Len(s) : SubSeq(s, 1, i) \in T}
<1>1. Len(s) \in Nat /\ \A i \in 1..Len(s) : s[i] \in S
  BY LenProperties, ElementOfSeq
<1>2. 0 \in good
  <2>1. SubSeq(s, 1, 0) = <<>>
    BY SubSeqEmpty
  <2>2. 0 \in 0..Len(s)
    BY <1>1
  <2> QED BY <2>1, <2>2
<1>3. ASSUME NEW i \in 0..Len(s), i \in good, i < Len(s)  PROVE i + 1 \in good
  <2>1. i + 1 \in 1..Len(s) /\ i \in Int /\ i + 1 \in Int /\ 1 \in 1..i+1 /\ i + 1 \in 1..i+1
    BY <1>1, <1>3
  <2>2. SubSeq(s, 1, i) \in Seq(S) /\ s[i + 1] \in S
    <3>1. \A j \in 1..i : s[j] \in S
      BY <1>1, <1>3
    <3> QED BY <1>1, <2>1, <3>1, SubSeqProperties
  <2>3. SubSeq(s, 1, i + 1) = SubSeq(s, 1, i) \o <<s[i + 1]>>
    <3>1. 1 \in 1..Len(s) /\ i + 1 - 1 = i
      BY <1>1, <1>3
    <3>2. SubSeq(s, 1, i + 1) = SubSeq(s, 1, i + 1 - 1) \o <<s[i + 1]>>
      BY <2>1, <3>1, SubSeqRecursiveSecond
    <3> QED BY <3>1, <3>2
  <2>4. Append(SubSeq(s, 1, i), s[i + 1]) = SubSeq(s, 1, i) \o <<s[i + 1]>>
    BY <2>2, AppendIsConcat
  <2>5. SubSeq(s, 1, i) \in T
    BY <1>3
  <2>6. Append(SubSeq(s, 1, i), s[i + 1]) \in T
    BY <2>2, <2>5
  <2>7. SubSeq(s, 1, i + 1) \in T
    BY <2>3, <2>4, <2>6
  <2>8. i + 1 \in 0..Len(s)
    BY <1>1, <1>3
  <2> QED BY <2>7, <2>8
<1> HIDE DEF good
<1>4. Len(s) \in 0..Len(s)
  BY <1>1
<1>5. Len(s) \in good
  BY <1>1, <1>2, <1>3, <1>4, UpTo
<1>6. SubSeq(s, 1, Len(s)) = s
  BY SubSeqFull
<1> QED BY <1>5, <1>6 DEF good

-----------------------------------------------------------------------------
(* Without, prefix by prefix *)

Prefixes(s, set, n, rest) ==
    rest = [i \in 0..n |->
              IF i = 0 THEN <<>>
              ELSE IF s[i] \in set THEN rest[i - 1] ELSE Append(rest[i - 1], s[i])]

LEMMA PrefixesExist ==
    ASSUME NEW s, NEW set, NEW n \in Nat
    PROVE  \E rest : Prefixes(s, set, n, rest)
<1> DEFINE good == {i \in Nat : \E rest : Prefixes(s, set, i, rest)}
<1>1. 0 \in good
  <2>1. Prefixes(s, set, 0, [i \in 0..0 |-> <<>>])
    BY DEF Prefixes
  <2> QED BY <2>1
<1>2. ASSUME NEW i \in 0..n, i \in good, i < n  PROVE i + 1 \in good
  <2>1. PICK rest : Prefixes(s, set, i, rest)
    BY <1>2
  <2> DEFINE more == [j \in 0..i + 1 |->
                        IF j # i + 1 THEN rest[j]
                        ELSE IF s[i + 1] \in set THEN rest[i] ELSE Append(rest[i], s[i + 1])]
  <2>2. \A j \in 0..i : rest[j] = IF j = 0 THEN <<>>
                                  ELSE IF s[j] \in set THEN rest[j - 1]
                                  ELSE Append(rest[j - 1], s[j])
    BY <2>1 DEF Prefixes
  <2>6. \A j \in 0..i : more[j] = rest[j] /\ (j # 0 => more[j - 1] = rest[j - 1])
    OBVIOUS
  <2>7. more[i + 1] = IF s[i + 1] \in set THEN rest[i] ELSE Append(rest[i], s[i + 1])
    OBVIOUS
  <2>3. \A j \in 0..i + 1 : more[j] = IF j = 0 THEN <<>>
                                      ELSE IF s[j] \in set THEN more[j - 1]
                                      ELSE Append(more[j - 1], s[j])
    <3> TAKE j \in 0..i + 1
    <3> HIDE DEF more
    <3>1. CASE j = i + 1
      BY <2>6, <2>7, <3>1
    <3>2. CASE j # i + 1
      BY <2>2, <2>6, <3>2
    <3> QED BY <3>1, <3>2
  <2>4. more = [j \in 0..i + 1 |-> more[j]]
    OBVIOUS
  <2> HIDE DEF more
  <2>5. more = [j \in 0..i + 1 |-> IF j = 0 THEN <<>>
                                   ELSE IF s[j] \in set THEN more[j - 1]
                                   ELSE Append(more[j - 1], s[j])]
    BY <2>3, <2>4
  <2> QED BY <2>5 DEF Prefixes
<1> HIDE DEF good
<1>3. n \in good
  BY <1>1, <1>2, UpTo
<1> QED BY <1>3 DEF good

LEMMA WithoutIsLast ==
    ASSUME NEW s, NEW set, Len(s) \in Nat
    PROVE  \E rest : Prefixes(s, set, Len(s), rest) /\ Without(s, set) = rest[Len(s)]
<1> DEFINE last == CHOOSE rest : Prefixes(s, set, Len(s), rest)
<1>1. Prefixes(s, set, Len(s), last)
  BY PrefixesExist
<1>2. Without(s, set) = last[Len(s)]
  BY DEF Without, Prefixes
<1> QED BY <1>1, <1>2

LEMMA WithoutEmpty == ASSUME NEW set PROVE Without(<<>>, set) = <<>>
<1>1. PICK rest : Prefixes(<<>>, set, Len(<<>>), rest) /\ Without(<<>>, set) = rest[Len(<<>>)]
  BY WithoutIsLast
<1> QED BY <1>1 DEF Prefixes

LEMMA WithoutAppend ==
    ASSUME NEW S, NEW s \in Seq(S), NEW e \in S, NEW set
    PROVE  Without(Append(s, e), set) =
             IF e \in set THEN Without(s, set) ELSE Append(Without(s, set), e)
<1> DEFINE t == Append(s, e)
<1>1. t \in Seq(S) /\ Len(t) = Len(s) + 1 /\ t[Len(s) + 1] = e
      /\ \A i \in 1..Len(s) : t[i] = s[i]
  OBVIOUS
<1>2. PICK f : Prefixes(s, set, Len(s), f) /\ Without(s, set) = f[Len(s)]
  BY WithoutIsLast
<1>3. PICK g : Prefixes(t, set, Len(t), g) /\ Without(t, set) = g[Len(t)]
  <2>1. Len(t) \in Nat
    BY <1>1, LenProperties
  <2> HIDE DEF t
  <2> QED BY <2>1, WithoutIsLast
<1> HIDE DEF t
<1>6. \A i \in 0..Len(t) : g[i] = IF i = 0 THEN <<>>
                                  ELSE IF t[i] \in set THEN g[i - 1]
                                  ELSE Append(g[i - 1], t[i])
  BY <1>3 DEF Prefixes
<1>7. \A i \in 0..Len(s) : f[i] = IF i = 0 THEN <<>>
                                  ELSE IF s[i] \in set THEN f[i - 1]
                                  ELSE Append(f[i - 1], s[i])
  BY <1>2 DEF Prefixes
<1>4. \A i \in 0..Len(s) : f[i] = g[i]
  <2> DEFINE good == {i \in 0..Len(s) : f[i] = g[i]}
  <2>0. Len(s) \in Nat
    BY LenProperties
  <2>2. 0 \in good
    BY <1>1, <1>6, <1>7, <2>0
  <2>3. ASSUME NEW i \in 0..Len(s), i \in good, i < Len(s)  PROVE i + 1 \in good
    <3>1. i + 1 \in 1..Len(s) /\ i + 1 \in 0..Len(t) /\ i + 1 # 0 /\ i + 1 - 1 = i
      BY <1>1, <2>0, <2>3
    <3>2. f[i] = g[i] /\ t[i + 1] = s[i + 1]
      BY <1>1, <2>3, <3>1
    <3>3. g[i + 1] = IF t[i + 1] \in set THEN g[i] ELSE Append(g[i], t[i + 1])
      BY <1>6, <3>1
    <3>4. f[i + 1] = IF s[i + 1] \in set THEN f[i] ELSE Append(f[i], s[i + 1])
      BY <1>7, <2>0, <3>1
    <3> QED BY <2>0, <3>1, <3>2, <3>3, <3>4
  <2> HIDE DEF good
  <2>4. \A i \in 0..Len(s) : i \in good
    BY <2>0, <2>2, <2>3, UpTo
  <2> QED BY <2>4 DEF good
<1>5. g[Len(s) + 1] = IF e \in set THEN g[Len(s)] ELSE Append(g[Len(s)], e)
  <2>1. Len(s) \in Nat
    BY LenProperties
  <2> QED BY <1>1, <1>6, <2>1
<1> QED BY <1>1, <1>2, <1>3, <1>4, <1>5 DEF t

-----------------------------------------------------------------------------
(* Entries of a PATH *)

LEMMA ElementsEmpty == Elements(<<>>) = {}
BY DEF Elements

LEMMA ElementsAppend ==
    ASSUME NEW S, NEW s \in Seq(S), NEW e \in S
    PROVE  Elements(Append(s, e)) = Elements(s) \cup {e}
<1>1. /\ DOMAIN s = 1..Len(s) /\ DOMAIN Append(s, e) = 1..Len(s) + 1 /\ Len(s) \in Nat
      /\ \A i \in 1..Len(s) : Append(s, e)[i] = s[i]
      /\ Append(s, e)[Len(s) + 1] = e
  BY AppendProperties, LenProperties
<1>2. Elements(s) = {s[i] : i \in 1..Len(s)}
      /\ Elements(Append(s, e)) = {Append(s, e)[i] : i \in 1..Len(s) + 1}
  BY <1>1 DEF Elements
<1>3. \A x : x \in Elements(Append(s, e)) <=> x \in Elements(s) \/ x = e
  BY <1>1, <1>2
<1> QED BY <1>3

LEMMA ElementsConcat ==
    ASSUME NEW S, NEW s \in Seq(S), NEW t \in Seq(S)
    PROVE  Elements(s \o t) = Elements(s) \cup Elements(t)
<1>1. /\ s \o t \in Seq(S) /\ Len(s \o t) = Len(s) + Len(t)
      /\ Len(s) \in Nat /\ Len(t) \in Nat
      /\ DOMAIN s = 1..Len(s) /\ DOMAIN t = 1..Len(t)
      /\ DOMAIN (s \o t) = 1..Len(s) + Len(t)
      /\ \A i \in 1..Len(s) + Len(t) :
           (s \o t)[i] = IF i <= Len(s) THEN s[i] ELSE t[i - Len(s)]
  BY ConcatProperties, LenProperties
<1>2. ASSUME NEW x \in Elements(s \o t)  PROVE x \in Elements(s) \cup Elements(t)
  BY <1>1, <1>2 DEF Elements
<1>3. ASSUME NEW x \in Elements(s)  PROVE x \in Elements(s \o t)
  BY <1>1, <1>3 DEF Elements
<1>4. ASSUME NEW x \in Elements(t)  PROVE x \in Elements(s \o t)
  <2>1. PICK i \in 1..Len(t) : x = t[i]
    BY <1>1, <1>4 DEF Elements
  <2>2. Len(s) + i \in 1..Len(s) + Len(t) /\ (s \o t)[Len(s) + i] = x
    BY <1>1, <2>1
  <2> QED BY <1>1, <2>2 DEF Elements
<1> QED BY <1>2, <1>3, <1>4

LEMMA ElementsType ==
    ASSUME NEW S, NEW s \in Seq(S)
    PROVE  Elements(s) \subseteq S
BY LenProperties, ElementOfSeq DEF Elements

\* What is left of a PATH holds exactly the other entries.
LEMMA WithoutType ==
    ASSUME NEW S, NEW s \in Seq(S), NEW set
    PROVE  Without(s, set) \in Seq(S) /\ Elements(Without(s, set)) = Elements(s) \ set
<1> DEFINE T == {t \in Seq(S) : Without(t, set) \in Seq(S)
                                /\ Elements(Without(t, set)) = Elements(t) \ set}
<1>1. <<>> \in T
  BY WithoutEmpty, ElementsEmpty, EmptySeq
<1>2. ASSUME NEW t \in Seq(S), NEW e \in S, t \in T  PROVE Append(t, e) \in T
  <2>1. Without(t, set) \in Seq(S) /\ Elements(Without(t, set)) = Elements(t) \ set
    BY <1>2
  <2>2. /\ Append(t, e) \in Seq(S) /\ Elements(Append(t, e)) = Elements(t) \cup {e}
        /\ Append(Without(t, set), e) \in Seq(S)
        /\ Elements(Append(Without(t, set), e)) = Elements(Without(t, set)) \cup {e}
    BY <2>1, ElementsAppend, AppendProperties
  <2>3. Without(Append(t, e), set) =
          IF e \in set THEN Without(t, set) ELSE Append(Without(t, set), e)
    BY WithoutAppend
  <2>4. Without(Append(t, e), set) \in Seq(S)
    BY <2>1, <2>2, <2>3
  <2>5. Elements(Without(Append(t, e), set)) = Elements(Append(t, e)) \ set
    BY <2>1, <2>2, <2>3
  <2> QED BY <2>2, <2>4, <2>5
<1> HIDE DEF T
<1>3. \A t \in Seq(S) : t \in T
  BY <1>1, <1>2, AllSequences
<1> QED BY <1>3 DEF T

\* Taking entries out first makes no difference to what is left of the others.
LEMMA WithoutTwice ==
    ASSUME NEW S, NEW s \in Seq(S), NEW small, NEW large, small \subseteq large
    PROVE  Without(Without(s, small), large) = Without(s, large)
<1> DEFINE T == {t \in Seq(S) : Without(Without(t, small), large) = Without(t, large)}
<1>1. <<>> \in T
  BY WithoutEmpty, EmptySeq
<1>2. ASSUME NEW t \in Seq(S), NEW e \in S, t \in T  PROVE Append(t, e) \in T
  <2>1. Without(t, small) \in Seq(S) /\ Append(t, e) \in Seq(S)
    BY WithoutType, AppendProperties
  <2>2. /\ Without(Append(t, e), small) =
             IF e \in small THEN Without(t, small) ELSE Append(Without(t, small), e)
        /\ Without(Append(t, e), large) =
             IF e \in large THEN Without(t, large) ELSE Append(Without(t, large), e)
        /\ Without(Append(Without(t, small), e), large) =
             IF e \in large THEN Without(Without(t, small), large)
             ELSE Append(Without(Without(t, small), large), e)
    BY <2>1, WithoutAppend
  <2>3. Without(Without(t, small), large) = Without(t, large)
    BY <1>2
  <2>4. Without(Without(Append(t, e), small), large) = Without(Append(t, e), large)
    BY <2>2, <2>3
  <2> QED BY <2>1, <2>4
<1> HIDE DEF T
<1>3. \A t \in Seq(S) : t \in T
  BY <1>1, <1>2, AllSequences
<1> QED BY <1>3 DEF T

LEMMA WithoutConcat ==
    ASSUME NEW S, NEW s \in Seq(S), NEW t \in Seq(S), NEW set
    PROVE  Without(s \o t, set) = Without(s, set) \o Without(t, set)
<1> DEFINE T == {u \in Seq(S) : Without(s \o u, set) = Without(s, set) \o Without(u, set)}
<1>0. Without(s, set) \in Seq(S)
  BY WithoutType
<1>1. <<>> \in T
  <2>1. <<>> \in Seq(S) /\ s \o <<>> = s /\ Without(s, set) \o <<>> = Without(s, set)
    BY <1>0, ConcatEmptySeq, EmptySeq
  <2> QED BY <2>1, WithoutEmpty
<1>2. ASSUME NEW u \in Seq(S), NEW e \in S, u \in T  PROVE Append(u, e) \in T
  <2>1. /\ Without(u, set) \in Seq(S) /\ Append(u, e) \in Seq(S) /\ s \o u \in Seq(S)
        /\ <<e>> \in Seq(S) /\ Without(s, set) \o Without(u, set) \in Seq(S)
    BY <1>0, WithoutType, AppendProperties, ConcatProperties
  <2>2. s \o Append(u, e) = Append(s \o u, e)
    <3>1. Append(u, e) = u \o <<e>> /\ Append(s \o u, e) = (s \o u) \o <<e>>
      BY <2>1, AppendIsConcat
    <3> QED BY <2>1, <3>1, ConcatAssociative
  <2>3. Without(s, set) \o Append(Without(u, set), e)
          = Append(Without(s, set) \o Without(u, set), e)
    <3>1. /\ Append(Without(u, set), e) = Without(u, set) \o <<e>>
          /\ Append(Without(s, set) \o Without(u, set), e)
               = (Without(s, set) \o Without(u, set)) \o <<e>>
      BY <2>1, AppendIsConcat
    <3> QED BY <1>0, <2>1, <3>1, ConcatAssociative
  <2>4. /\ Without(Append(u, e), set) =
             IF e \in set THEN Without(u, set) ELSE Append(Without(u, set), e)
        /\ Without(Append(s \o u, e), set) =
             IF e \in set THEN Without(s \o u, set) ELSE Append(Without(s \o u, set), e)
    <3>1. Without(Append(u, e), set) =
            IF e \in set THEN Without(u, set) ELSE Append(Without(u, set), e)
      BY WithoutAppend
    <3> DEFINE v == s \o u
    <3>2. v \in Seq(S)
      BY <2>1
    <3> HIDE DEF v
    <3>3. Without(Append(v, e), set) =
            IF e \in set THEN Without(v, set) ELSE Append(Without(v, set), e)
      BY <3>2, WithoutAppend
    <3> QED BY <3>1, <3>3 DEF v
  <2>5. Without(s \o u, set) = Without(s, set) \o Without(u, set)
    BY <1>2
  <2>6. Without(s \o Append(u, e), set) = Without(s, set) \o Without(Append(u, e), set)
    BY <2>2, <2>3, <2>4, <2>5
  <2> QED BY <2>1, <2>6
<1> HIDE DEF T
<1>3. \A u \in Seq(S) : u \in T
  BY <1>1, <1>2, AllSequences
<1> QED BY <1>3 DEF T

\* A PATH without these entries loses nothing.
LEMMA WithoutNone ==
    ASSUME NEW S, NEW s \in Seq(S), NEW set, Elements(s) \cap set = {}
    PROVE  Without(s, set) = s
<1> DEFINE T == {t \in Seq(S) : Elements(t) \cap set = {} => Without(t, set) = t}
<1>1. <<>> \in T
  BY WithoutEmpty, EmptySeq
<1>2. ASSUME NEW t \in Seq(S), NEW e \in S, t \in T  PROVE Append(t, e) \in T
  <2>1. /\ Append(t, e) \in Seq(S) /\ Elements(Append(t, e)) = Elements(t) \cup {e}
    BY ElementsAppend, AppendProperties
  <2>2. Without(Append(t, e), set) =
          IF e \in set THEN Without(t, set) ELSE Append(Without(t, set), e)
    BY WithoutAppend
  <2>3. Elements(t) \cap set = {} => Without(t, set) = t
    BY <1>2
  <2>4. Elements(Append(t, e)) \cap set = {} => Without(Append(t, e), set) = Append(t, e)
    BY <2>1, <2>2, <2>3
  <2> QED BY <2>1, <2>4
<1> HIDE DEF T
<1>3. \A t \in Seq(S) : t \in T
  BY <1>1, <1>2, AllSequences
<1> QED BY <1>3 DEF T

-----------------------------------------------------------------------------
(* A restored PATH *)

LEMMA StoreCounts ==
    ASSUME NEW S, NEW s \in Seq(S), NEW n \in 0..Len(s)
    PROVE  /\ StoreCount(s, n) \in Nat
           /\ n < Len(s) => StoreCount(s, n + 1) =
                              StoreCount(s, n) + IF s[n + 1] = Store THEN 1 ELSE 0
<1> DEFINE at(k) == {i \in 1..k : s[i] = Store}
<1>1. Len(s) \in Nat
  BY LenProperties
<1>2. IsFiniteSet(at(n)) /\ Cardinality(at(n)) \in Nat
  <2>1. IsFiniteSet(1..n)
    BY <1>1, FS_Interval
  <2> QED BY <2>1, FS_Subset, FS_CardinalityType
<1>3. n + 1 \notin at(n)
  BY <1>1
<1>4. at(n + 1) = IF s[n + 1] = Store THEN at(n) \cup {n + 1} ELSE at(n)
  BY <1>1
<1>5. StoreCount(s, n) = Cardinality(at(n)) /\ StoreCount(s, n + 1) = Cardinality(at(n + 1))
  BY DEF StoreCount
<1> HIDE DEF at
<1>6. Cardinality(at(n) \cup {n + 1}) = Cardinality(at(n)) + 1
  BY <1>2, <1>3, FS_AddElement
<1> QED BY <1>2, <1>4, <1>5, <1>6

LEMMA StoreCountSame ==
    ASSUME NEW s, NEW t, NEW n \in Nat, \A i \in 1..n : s[i] = t[i]
    PROVE  StoreCount(s, n) = StoreCount(t, n)
<1>1. {i \in 1..n : s[i] = Store} = {i \in 1..n : t[i] = Store}
  OBVIOUS
<1> QED BY <1>1 DEF StoreCount

\* What is left without the Store entries stands, shifted, where it stood.
LEMMA StoreShifts ==
    ASSUME NEW S, NEW s \in Seq(S)
    PROVE  LET left == Without(s, {Store})
           IN  /\ Len(left) = Len(s) - StoreCount(s, Len(s))
               /\ \A i \in 1..Len(s) : s[i] # Store =>
                    /\ i - StoreCount(s, i) \in 1..Len(left)
                    /\ left[i - StoreCount(s, i)] = s[i]
<1> DEFINE Fits(t, left) ==
             /\ Len(left) = Len(t) - StoreCount(t, Len(t))
             /\ \A i \in 1..Len(t) : t[i] # Store =>
                  /\ i - StoreCount(t, i) \in 1..Len(left)
                  /\ left[i - StoreCount(t, i)] = t[i]
           T == {t \in Seq(S) : Fits(t, Without(t, {Store}))}
<1>1. <<>> \in T
  <2>1. StoreCount(<<>>, 0) = 0
    <3>1. {i \in 1..0 : <<>>[i] = Store} = {}
      OBVIOUS
    <3> QED BY <3>1, FS_EmptySet DEF StoreCount
  <2>2. Without(<<>>, {Store}) = <<>> /\ <<>> \in Seq(S)
    BY WithoutEmpty, EmptySeq
  <2>3. Fits(<<>>, <<>>)
    BY <2>1
  <2> QED BY <2>2, <2>3
<1>2. ASSUME NEW t \in Seq(S), NEW e \in S, t \in T  PROVE Append(t, e) \in T
  <2> DEFINE left == Without(t, {Store})
             u == Append(t, e)
  <2>1. left \in Seq(S) /\ Fits(t, left)
    BY <1>2, WithoutType
  <2>2. Without(u, {Store}) = IF e = Store THEN left ELSE Append(left, e)
    BY WithoutAppend
  <2>3. /\ u \in Seq(S) /\ Len(u) = Len(t) + 1 /\ u[Len(t) + 1] = e /\ Len(t) \in Nat
        /\ \A i \in 1..Len(t) : u[i] = t[i]
    BY AppendProperties, LenProperties
  <2>4. /\ Append(left, e) \in Seq(S) /\ Len(Append(left, e)) = Len(left) + 1
        /\ Append(left, e)[Len(left) + 1] = e /\ Len(left) \in Nat
        /\ \A i \in 1..Len(left) : Append(left, e)[i] = left[i]
    BY <2>1, AppendProperties, LenProperties
  <2> HIDE DEF left, u
  <2>5. \A i \in 0..Len(t) : StoreCount(u, i) = StoreCount(t, i) /\ StoreCount(t, i) \in Nat
    <3> TAKE i \in 0..Len(t)
    <3>1. i \in Nat /\ \A j \in 1..i : u[j] = t[j]
      BY <2>3
    <3>2. StoreCount(u, i) = StoreCount(t, i)
      BY <3>1, StoreCountSame
    <3> QED BY <3>2, StoreCounts
  <2>6. StoreCount(u, Len(t) + 1) = StoreCount(t, Len(t)) + IF e = Store THEN 1 ELSE 0
    <3>1. Len(t) \in 0..Len(u) /\ Len(t) < Len(u)
      BY <2>3
    <3>2. StoreCount(u, Len(t) + 1) = StoreCount(u, Len(t))
                                        + IF u[Len(t) + 1] = Store THEN 1 ELSE 0
      BY <2>3, <3>1, StoreCounts
    <3>3. Len(t) \in 0..Len(t)
      BY <2>3
    <3> QED BY <2>3, <2>5, <3>2, <3>3
  <2>7. CASE e = Store
    <3>1. Len(left) = Len(u) - StoreCount(u, Len(u))
      <4>1. Len(left) = Len(t) - StoreCount(t, Len(t)) /\ Len(t) \in 0..Len(t)
        BY <2>1, <2>3
      <4> QED BY <2>3, <2>5, <2>6, <2>7, <4>1
    <3>2. ASSUME NEW i \in 1..Len(u), u[i] # Store
          PROVE  /\ i - StoreCount(u, i) \in 1..Len(left)
                 /\ left[i - StoreCount(u, i)] = u[i]
      <4>1. i \in 1..Len(t) /\ i \in 0..Len(t)
        BY <2>3, <2>7, <3>2
      <4> QED BY <2>1, <2>3, <2>5, <3>2, <4>1
    <3> QED BY <2>2, <2>3, <2>7, <3>1, <3>2 DEF u
  <2>8. CASE e # Store
    <3> DEFINE more == Append(left, e)
    <3>1. Len(more) = Len(u) - StoreCount(u, Len(u))
      BY <2>1, <2>3, <2>4, <2>5, <2>6, <2>8
    <3>2. ASSUME NEW i \in 1..Len(u), u[i] # Store
          PROVE  /\ i - StoreCount(u, i) \in 1..Len(more)
                 /\ more[i - StoreCount(u, i)] = u[i]
      <4>1. CASE i \in 1..Len(t)
        <5>1. i \in 0..Len(t) /\ u[i] = t[i]
          BY <2>3, <4>1
        <5>2. i - StoreCount(t, i) \in 1..Len(left) /\ left[i - StoreCount(t, i)] = t[i]
          BY <2>1, <3>2, <4>1, <5>1
        <5>3. StoreCount(u, i) = StoreCount(t, i)
          BY <2>5, <5>1
        <5> QED BY <2>4, <5>1, <5>2, <5>3
      <4>2. CASE i = Len(t) + 1
        <5>1. i - StoreCount(u, i) = Len(left) + 1
          <6>1. Len(t) \in 0..Len(t)
            BY <2>3
          <6>2. Len(left) = Len(t) - StoreCount(t, Len(t))
            BY <2>1
          <6>3. StoreCount(u, i) = StoreCount(t, Len(t)) + 0
            BY <2>6, <2>8, <4>2
          <6>4. StoreCount(t, Len(t)) \in Nat
            BY <2>5, <6>1
          <6> QED BY <2>3, <4>2, <6>2, <6>3, <6>4
        <5> QED BY <2>3, <2>4, <4>2, <5>1
      <4> QED BY <2>3, <4>1, <4>2
    <3> QED BY <2>2, <2>3, <2>8, <3>1, <3>2 DEF u
  <2> QED BY <2>7, <2>8 DEF u
<1> HIDE DEF T
<1>3. \A t \in Seq(S) : t \in T
  BY <1>1, <1>2, AllSequences
<1> QED BY <1>3 DEF T

\* A PATH as the repair left it is rebuilt to what it was.
LEMMA RebuiltIsBefore ==
    ASSUME NEW S, NEW s \in Seq(S)
    PROVE  Rebuilt(s, Without(s, {Store})) = s
<1>1. s \in [1..Len(s) -> S]
  BY LenProperties
<1>2. \A i \in 1..Len(s) : s[i] # Store => Without(s, {Store})[i - StoreCount(s, i)] = s[i]
  BY StoreShifts
<1>3. \A i \in 1..Len(s) : (IF s[i] = Store THEN Store
                            ELSE Without(s, {Store})[i - StoreCount(s, i)]) = s[i]
  BY <1>2
<1> QED BY <1>1, <1>3 DEF Rebuilt

\* The only position of an entry.
LEMMA UniqueIs ==
    ASSUME NEW S, NEW s \in Seq(S), NEW e
    PROVE  /\ UniquePosition(s, e) \in 0..Len(s)
           /\ UniquePosition(s, e) # 0 =>
                /\ s[UniquePosition(s, e)] = e
                /\ \A j \in 1..Len(s) : s[j] = e => j = UniquePosition(s, e)
           /\ \A i \in 1..Len(s) : (\A j \in 1..Len(s) : s[j] = e <=> j = i)
                => UniquePosition(s, e) = i
<1> DEFINE positions == {i \in 1..Len(s) : s[i] = e}
<1>1. Len(s) \in Nat /\ DOMAIN s = 1..Len(s)
  BY LenProperties
<1>2. UniquePosition(s, e) =
        IF Cardinality(positions) = 1 THEN CHOOSE i \in positions : TRUE ELSE 0
  BY <1>1 DEF UniquePosition
<1>3. IsFiniteSet(positions)
  <2>1. IsFiniteSet(1..Len(s))
    BY <1>1, FS_Interval
  <2> QED BY <2>1, FS_Subset
<1>4. ASSUME Cardinality(positions) = 1
      PROVE  \E i \in positions : positions = {i} /\ UniquePosition(s, e) = i
  <2>1. PICK i : positions = {i}
    BY <1>3, <1>4, FS_Singleton
  <2> HIDE DEF positions
  <2> QED BY <1>2, <1>4, <2>1
<1>5. ASSUME NEW i \in 1..Len(s), \A j \in 1..Len(s) : s[j] = e <=> j = i
      PROVE  UniquePosition(s, e) = i
  <2>1. positions = {i}
    BY <1>5
  <2> HIDE DEF positions
  <2>2. Cardinality(positions) = 1
    BY <1>3, <2>1, FS_Singleton
  <2> QED BY <1>4, <2>1, <2>2
<1>6. CASE Cardinality(positions) = 1
  <2>1. PICK i \in positions : positions = {i} /\ UniquePosition(s, e) = i
    BY <1>4, <1>6
  <2>2. i \in 1..Len(s) /\ s[i] = e /\ \A j \in 1..Len(s) : s[j] = e => j = i
    BY <2>1
  <2>3. i \in 0..Len(s) /\ i # 0
    BY <1>1, <2>2
  <2> QED BY <1>5, <2>1, <2>2, <2>3
<1>7. CASE Cardinality(positions) # 1
  <2>1. UniquePosition(s, e) = 0
    BY <1>2, <1>7
  <2>2. 0 \in 0..Len(s)
    BY <1>1
  <2> QED BY <1>5, <2>1, <2>2
<1> QED BY <1>6, <1>7

LEMMA FirstStoreIs ==
    ASSUME NEW S, NEW s \in Seq(S), Store \in Elements(s)
    PROVE  /\ FirstStore(s) \in 1..Len(s) /\ s[FirstStore(s)] = Store
           /\ \A j \in 1..FirstStore(s) - 1 : s[j] # Store
<1> DEFINE at == {i \in 1..Len(s) : s[i] = Store}
<1>1. Len(s) \in Nat /\ DOMAIN s = 1..Len(s)
  BY LenProperties
<1>2. at \in SUBSET Nat /\ at # {}
  BY <1>1 DEF Elements
<1> HIDE DEF at
<1>3. PICK i \in at : \A j \in at : ~(j < i)
  BY <1>2, Least
<1>4. i \in DOMAIN s /\ s[i] = Store /\ \A j \in 1..i - 1 : s[j] # Store
  BY <1>1, <1>3 DEF at
<1>5. /\ FirstStore(s) \in DOMAIN s /\ s[FirstStore(s)] = Store
      /\ \A j \in 1..FirstStore(s) - 1 : s[j] # Store
  BY <1>4 DEF FirstStore
<1> QED BY <1>1, <1>5

\* An inserted entry moves the entries behind it by one, and no other.
LEMMA InsertBeforeIs ==
    ASSUME NEW S, NEW s \in Seq(S), NEW i \in 1..Len(s) + 1, NEW e \in S
    PROVE  LET new == InsertBefore(s, i, e)
           IN  /\ new \in Seq(S) /\ Len(new) = Len(s) + 1
               /\ new[i] = e
               /\ \A j \in 1..i - 1 : new[j] = s[j]
               /\ \A j \in i..Len(s) : new[j + 1] = s[j]
               /\ Elements(new) = Elements(s) \cup {e}
               /\ \A set : e \in set => Without(new, set) = Without(s, set)
<1> DEFINE front == SubSeq(s, 1, i - 1)
           back == SubSeq(s, i, Len(s))
           both == front \o <<e>>
           new == both \o back
<1>1. Len(s) \in Nat /\ \A j \in 1..Len(s) : s[j] \in S
  BY LenProperties, ElementOfSeq
<1>2. i \in Int /\ i - 1 \in Int /\ Len(s) \in Int /\ i - 1 \in 0..Len(s)
  BY <1>1
<1>3. /\ front \in Seq(S) /\ Len(front) = i - 1
      /\ \A j \in 1..i - 1 : front[j] = s[j]
  <2>1. \A j \in 1..i - 1 : s[j] \in S
    BY <1>1
  <2>2. /\ front \in Seq(S) /\ Len(front) = IF 1 <= i - 1 THEN i - 1 - 1 + 1 ELSE 0
        /\ \A j \in 1..i - 1 - 1 + 1 : front[j] = s[1 + j - 1]
    BY <1>2, <2>1, SubSeqProperties
  <2> HIDE DEF front
  <2>3. Len(front) = i - 1 /\ \A j \in 1..i - 1 : front[j] = s[j]
    BY <1>1, <2>2
  <2> QED BY <2>2, <2>3
<1>4. /\ back \in Seq(S) /\ Len(back) = Len(s) - i + 1
      /\ \A j \in 1..Len(s) - i + 1 : back[j] = s[i + j - 1]
  <2>1. \A j \in i..Len(s) : s[j] \in S
    BY <1>1
  <2>2. /\ back \in Seq(S) /\ Len(back) = IF i <= Len(s) THEN Len(s) - i + 1 ELSE 0
        /\ \A j \in 1..Len(s) - i + 1 : back[j] = s[i + j - 1]
    BY <1>2, <2>1, SubSeqProperties
  <2> HIDE DEF back
  <2>3. Len(back) = Len(s) - i + 1
    BY <1>1, <2>2
  <2> QED BY <2>2, <2>3
<1>5. front \o back = s
  <2> HIDE DEF front, back
  <2>1. front \o back \in Seq(S) /\ Len(front \o back) = Len(s)
    BY <1>1, <1>3, <1>4, ConcatProperties
  <2>2. \A j \in 1..Len(s) : (front \o back)[j] = s[j]
    <3> TAKE j \in 1..Len(s)
    <3>1. (front \o back)[j] = IF j <= Len(front) THEN front[j] ELSE back[j - Len(front)]
      BY <1>1, <1>3, <1>4, ConcatProperties
    <3>2. CASE j <= i - 1
      BY <1>1, <1>3, <3>1, <3>2
    <3>3. CASE ~(j <= i - 1)
      <4>1. j - (i - 1) \in 1..Len(s) - i + 1 /\ i + (j - (i - 1)) - 1 = j
        BY <1>1, <3>3
      <4> QED BY <1>3, <1>4, <3>1, <3>3, <4>1
    <3> QED BY <3>2, <3>3
  <2> QED BY <2>1, <2>2, SeqEqual
<1>6. InsertBefore(s, i, e) = new
  BY DEF InsertBefore
<1> HIDE DEF front, back
<1>7. <<e>> \in Seq(S) /\ Len(<<e>>) = 1 /\ <<e>>[1] = e
  OBVIOUS
<1>8. /\ both \in Seq(S) /\ Len(both) = i
      /\ both[i] = e /\ \A j \in 1..i - 1 : both[j] = s[j]
  <2>1. /\ both \in Seq(S) /\ Len(both) = Len(front) + Len(<<e>>)
        /\ \A j \in 1..Len(front) + Len(<<e>>) :
             both[j] = IF j <= Len(front) THEN front[j] ELSE <<e>>[j - Len(front)]
    BY <1>3, <1>7, ConcatProperties
  <2> HIDE DEF both
  <2> QED BY <1>2, <1>3, <1>7, <2>1
<1>9. /\ new \in Seq(S) /\ Len(new) = Len(s) + 1
      /\ new[i] = e /\ \A j \in 1..i - 1 : new[j] = s[j]
      /\ \A j \in i..Len(s) : new[j + 1] = s[j]
  <2> HIDE DEF both
  <2>1. /\ new \in Seq(S) /\ Len(new) = Len(both) + Len(back)
        /\ \A j \in 1..Len(both) + Len(back) :
             new[j] = IF j <= Len(both) THEN both[j] ELSE back[j - Len(both)]
    BY <1>4, <1>8, ConcatProperties
  <2> HIDE DEF new
  <2>2. Len(new) = Len(s) + 1
    BY <1>1, <1>4, <1>8, <2>1
  <2>3. new[i] = e /\ \A j \in 1..i - 1 : new[j] = s[j]
    BY <1>1, <1>4, <1>8, <2>1
  <2>4. \A j \in i..Len(s) : new[j + 1] = s[j]
    <3> TAKE j \in i..Len(s)
    <3>1. j + 1 - i \in 1..Len(s) - i + 1 /\ i + (j + 1 - i) - 1 = j
      BY <1>1
    <3>2. new[j + 1] = back[j + 1 - i]
      BY <1>1, <1>4, <1>8, <2>1
    <3> QED BY <1>4, <3>1, <3>2
  <2> QED BY <2>1, <2>2, <2>3, <2>4
<1>10. Elements(new) = Elements(s) \cup {e}
  <2>1. Elements(<<e>>) = {e}
    BY DEF Elements
  <2>2. /\ Elements(new) = Elements(both) \cup Elements(back)
        /\ Elements(both) = Elements(front) \cup Elements(<<e>>)
        /\ Elements(front \o back) = Elements(front) \cup Elements(back)
    <3>1. Elements(both) = Elements(front) \cup Elements(<<e>>)
      BY <1>3, <1>7, ElementsConcat
    <3>2. Elements(front \o back) = Elements(front) \cup Elements(back)
      BY <1>3, <1>4, ElementsConcat
    <3> HIDE DEF both
    <3>3. Elements(new) = Elements(both) \cup Elements(back)
      BY <1>4, <1>8, ElementsConcat
    <3> QED BY <3>1, <3>2, <3>3
  <2> QED BY <1>5, <2>1, <2>2
<1>11. ASSUME NEW set, e \in set  PROVE Without(new, set) = Without(s, set)
  <2>1. Without(<<e>>, set) = <<>>
    <3>1. <<e>> = Append(<<>>, e) /\ <<>> \in Seq(S)
      BY EmptySeq
    <3>2. Without(Append(<<>>, e), set) = Without(<<>>, set)
      BY <1>11, <3>1, WithoutAppend
    <3> QED BY <3>1, <3>2, WithoutEmpty
  <2>2. /\ Without(both, set) = Without(front, set) \o Without(<<e>>, set)
        /\ Without(front \o back, set) = Without(front, set) \o Without(back, set)
    <3>1. Without(both, set) = Without(front, set) \o Without(<<e>>, set)
      <4> DEFINE single == <<e>>
      <4>1. single \in Seq(S)
        BY <1>7
      <4> HIDE DEF single
      <4>2. Without(front \o single, set) = Without(front, set) \o Without(single, set)
        BY <1>3, <4>1, WithoutConcat
      <4> QED BY <4>2 DEF single
    <3>2. Without(front \o back, set) = Without(front, set) \o Without(back, set)
      BY <1>3, <1>4, WithoutConcat
    <3> QED BY <3>1, <3>2
  <2>3. Without(front, set) \o <<>> = Without(front, set)
    BY <1>3, WithoutType, ConcatEmptySeq
  <2> HIDE DEF both
  <2>4. Without(new, set) = Without(both, set) \o Without(back, set)
    BY <1>4, <1>8, WithoutConcat
  <2> QED BY <1>5, <2>1, <2>2, <2>3, <2>4
<1> HIDE DEF new
<1> QED BY <1>6, <1>9, <1>10, <1>11

\* Where the Store entry goes.
Slot(before, current) ==
    LET l == Left(before, current)
        r == Right(before, current)
    IN  IF r # 0 /\ l < r THEN r ELSE IF l # 0 THEN l + 1 ELSE Len(current) + 1

LEMMA SlotIs ==
    ASSUME NEW S, NEW before \in Seq(S), NEW current \in Seq(S), Store \in Elements(before)
    PROVE  /\ Left(before, current) \in 0..Len(current)
           /\ Right(before, current) \in 0..Len(current)
           /\ Slot(before, current) \in 1..Len(current) + 1
           /\ Inserted(before, current) = InsertBefore(current, Slot(before, current), Store)
<1>1. Len(current) \in Nat
  BY LenProperties
<1>2. Left(before, current) \in 0..Len(current)
  BY <1>1, UniqueIs DEF Left
<1>3. Right(before, current) \in 0..Len(current)
  BY <1>1, UniqueIs DEF Right
<1>4. Slot(before, current) \in 1..Len(current) + 1
  BY <1>1, <1>2, <1>3 DEF Slot
<1> QED BY <1>2, <1>3, <1>4 DEF Inserted, Slot

\* What is restored is what was there, and the Store entry.
LEMMA RestorationIs ==
    ASSUME store.before \in Seq(Item), NEW current \in Seq(Item),
           Store \in Elements(store.before)
    PROVE  /\ Restoration(current) \in Seq(Item)
           /\ Elements(Restoration(current)) = Elements(current) \cup {Store}
           /\ \A set : Store \in set =>
                Without(Restoration(current), set) = Without(current, set)
<1>0. Store \in Item
  BY DEF Item
<1>1. CASE current = Without(store.before, {Store})
  <2>1. Restoration(current) = store.before
    BY <1>1, RebuiltIsBefore DEF Restoration
  <2>2. Elements(current) = Elements(store.before) \ {Store}
    BY <1>1, WithoutType
  <2>3. \A set : Store \in set => Without(current, set) = Without(store.before, set)
    BY <1>1, WithoutTwice
  <2> QED BY <2>1, <2>2, <2>3
<1>2. CASE current # Without(store.before, {Store})
  <2>1. /\ Restoration(current) = InsertBefore(current, Slot(store.before, current), Store)
        /\ Slot(store.before, current) \in 1..Len(current) + 1
    BY <1>2, SlotIs DEF Restoration
  <2> QED BY <1>0, <2>1, InsertBeforeIs
<1> QED BY <1>1, <1>2

\* What follows an entry that goes is what is left first.
LEMMA WithoutSecond ==
    ASSUME NEW S, NEW s \in Seq(S), NEW set, Len(s) >= 2, s[1] \in set, s[2] \notin set
    PROVE  Without(s, set) # <<>> /\ Without(s, set)[1] = s[2]
<1> DEFINE T == {t \in Seq(S) :
                   /\ Len(t) = 1 /\ t[1] \in set => Without(t, set) = <<>>
                   /\ Len(t) >= 2 /\ t[1] \in set /\ t[2] \notin set =>
                        Without(t, set) # <<>> /\ Without(t, set)[1] = t[2]}
<1>1. <<>> \in T
  BY EmptySeq
<1>2. ASSUME NEW t \in Seq(S), NEW e \in S, t \in T  PROVE Append(t, e) \in T
  <2> DEFINE u == Append(t, e)
             left == Without(t, set)
  <2>1. /\ u \in Seq(S) /\ Len(u) = Len(t) + 1 /\ u[Len(t) + 1] = e /\ Len(t) \in Nat
        /\ \A i \in 1..Len(t) : u[i] = t[i]
    BY AppendProperties, LenProperties
  <2>2. Without(u, set) = IF e \in set THEN left ELSE Append(left, e)
    BY WithoutAppend
  <2>3. left \in Seq(S)
    BY WithoutType
  <2>4. /\ Len(t) = 1 /\ t[1] \in set => left = <<>>
        /\ Len(t) >= 2 /\ t[1] \in set /\ t[2] \notin set => left # <<>> /\ left[1] = t[2]
    BY <1>2
  <2>5. Len(t) = 0 => left = <<>>
    BY WithoutEmpty
  <2> HIDE DEF u, left
  <2>6. Len(u) = 1 /\ u[1] \in set => Without(u, set) = <<>>
    BY <2>1, <2>2, <2>5
  <2>7. ASSUME Len(u) >= 2, u[1] \in set, u[2] \notin set
        PROVE  Without(u, set) # <<>> /\ Without(u, set)[1] = u[2]
    <3>1. CASE Len(t) = 1
      BY <2>1, <2>2, <2>4, <2>7, <3>1
    <3>2. CASE Len(t) >= 2
      <4>1. left # <<>> /\ left[1] = t[2] /\ u[2] = t[2]
        BY <2>1, <2>4, <2>7, <3>2
      <4>2. Append(left, e)[1] = left[1] /\ Append(left, e) # <<>>
        BY <2>3, <4>1
      <4>3. CASE e \in set
        BY <2>2, <4>1, <4>3
      <4>4. CASE e \notin set
        BY <2>2, <4>1, <4>2, <4>4
      <4> QED BY <4>3, <4>4
    <3>3. Len(t) = 1 \/ Len(t) >= 2
      <4>1. Len(t) \in Nat
        BY LenProperties
      <4>2. Len(t) + 1 >= 2
        BY <2>1, <2>7
      <4> QED BY <4>1, <4>2
    <3> QED BY <3>1, <3>2, <3>3
  <2>8. u \in T
    BY <2>1, <2>6, <2>7
  <2> QED BY <2>8 DEF u
<1> HIDE DEF T
<1>3. \A t \in Seq(S) : t \in T
  BY <1>1, <1>2, AllSequences
<1> QED BY <1>3 DEF T

\* The positions of the other entries, after the Store entry came in at a slot.
LEMMA SlotPositions ==
    ASSUME NEW S, NEW s \in Seq(S), NEW i \in 1..Len(s) + 1, Store \in S,
           Store \notin Elements(s)
    PROVE  LET new == InsertBefore(s, i, Store)
           IN  /\ UniquePosition(new, Store) = i
               /\ \A e : e # Store =>
                    /\ UniquePosition(new, e) = 0 <=> UniquePosition(s, e) = 0
                    /\ UniquePosition(s, e) # 0 =>
                         UniquePosition(new, e) =
                           IF UniquePosition(s, e) < i THEN UniquePosition(s, e)
                           ELSE UniquePosition(s, e) + 1
<1> DEFINE new == InsertBefore(s, i, Store)
<1>1. /\ new \in Seq(S) /\ Len(new) = Len(s) + 1
      /\ new[i] = Store
      /\ \A j \in 1..i - 1 : new[j] = s[j]
      /\ \A j \in i..Len(s) : new[j + 1] = s[j]
  BY InsertBeforeIs
<1>2. Len(s) \in Nat /\ \A j \in 1..Len(s) : s[j] # Store
  BY LenProperties DEF Elements
<1> HIDE DEF new
<1>3. \A j \in 1..Len(new) : j > i => j - 1 \in i..Len(s) /\ new[j] = s[j - 1]
  <2> TAKE j \in 1..Len(new)
  <2> HAVE j > i
  <2>1. j - 1 \in i..Len(s) /\ (j - 1) + 1 = j
    BY <1>1, <1>2
  <2> QED BY <1>1, <2>1
<1>4. \A j \in 1..Len(new) : j < i => j \in 1..Len(s) /\ new[j] = s[j]
  BY <1>1, <1>2
<1>5. UniquePosition(new, Store) = i
  <2>1. \A j \in 1..Len(new) : new[j] = Store <=> j = i
    <3> TAKE j \in 1..Len(new)
    <3>1. CASE j = i
      BY <1>1, <3>1
    <3>2. CASE j < i
      BY <1>2, <1>4, <3>2
    <3>3. CASE j > i
      <4>1. j - 1 \in 1..Len(s) /\ new[j] = s[j - 1]
        BY <1>2, <1>3, <3>3
      <4> QED BY <1>2, <3>3, <4>1
    <3> QED BY <1>1, <1>2, <3>1, <3>2, <3>3
  <2>2. i \in 1..Len(new)
    BY <1>1
  <2> QED BY <1>1, <2>1, <2>2, UniqueIs
<1>6. ASSUME NEW e, e # Store
      PROVE  /\ UniquePosition(new, e) = 0 <=> UniquePosition(s, e) = 0
             /\ UniquePosition(s, e) # 0 =>
                  UniquePosition(new, e) =
                    IF UniquePosition(s, e) < i THEN UniquePosition(s, e)
                    ELSE UniquePosition(s, e) + 1
  <2> DEFINE was == UniquePosition(s, e)
             now == UniquePosition(new, e)
             moved(k) == IF k < i THEN k ELSE k + 1
  <2>1. /\ was \in 0..Len(s)
        /\ was # 0 => s[was] = e /\ \A j \in 1..Len(s) : s[j] = e => j = was
        /\ \A k \in 1..Len(s) : (\A j \in 1..Len(s) : s[j] = e <=> j = k) => was = k
    BY UniqueIs
  <2>2. /\ now \in 0..Len(new)
        /\ now # 0 => new[now] = e /\ \A j \in 1..Len(new) : new[j] = e => j = now
        /\ \A k \in 1..Len(new) : (\A j \in 1..Len(new) : new[j] = e <=> j = k) => now = k
    BY <1>1, UniqueIs
  <2> HIDE DEF was, now
  <2>3. ASSUME was # 0  PROVE now = moved(was)
    <3>1. was \in 1..Len(s) /\ moved(was) \in 1..Len(new)
      BY <1>1, <1>2, <2>1, <2>3
    <3>2. new[moved(was)] = e
      <4>1. CASE was < i
        BY <1>1, <2>1, <2>3, <3>1, <4>1
      <4>2. CASE ~(was < i)
        <5>1. was \in i..Len(s)
          BY <1>2, <3>1, <4>2
        <5> QED BY <1>1, <2>1, <2>3, <4>2, <5>1
      <4> QED BY <4>1, <4>2
    <3>3. ASSUME NEW j \in 1..Len(new), new[j] = e  PROVE j = moved(was)
      <4>1. j # i
        BY <1>1, <1>6, <3>3
      <4>2. CASE j < i
        BY <1>4, <2>1, <2>3, <3>3, <4>2
      <4>3. CASE j > i
        <5>1. j - 1 \in 1..Len(s) /\ s[j - 1] = e /\ j - 1 >= i
          BY <1>2, <1>3, <3>3, <4>3
        <5>2. j - 1 = was
          BY <2>1, <2>3, <5>1
        <5> QED BY <1>1, <1>2, <5>1, <5>2
      <4> QED BY <1>1, <1>2, <4>1, <4>2, <4>3
    <3> QED BY <2>2, <3>1, <3>2, <3>3
  <2>4. ASSUME now # 0  PROVE was # 0
    <3>1. now \in 1..Len(new) /\ new[now] = e /\ now # i
      BY <1>1, <1>2, <1>6, <2>2, <2>4
    <3> DEFINE old == IF now < i THEN now ELSE now - 1
    <3>2. old \in 1..Len(s) /\ s[old] = e
      <4>1. CASE now < i
        BY <1>4, <3>1, <4>1
      <4>2. CASE now > i
        <5>1. now - 1 \in 1..Len(s) /\ s[now - 1] = e
          BY <1>2, <1>3, <3>1, <4>2
        <5>2. old = now - 1
          BY <1>1, <3>1, <4>2
        <5> HIDE DEF old
        <5> QED BY <5>1, <5>2
      <4> QED BY <1>1, <1>2, <3>1, <4>1, <4>2
    <3>3. ASSUME NEW j \in 1..Len(s), s[j] = e  PROVE j = old
      <4>1. moved(j) \in 1..Len(new) /\ new[moved(j)] = e
        <5>1. CASE j < i
          BY <1>1, <1>2, <3>3, <5>1
        <5>2. CASE ~(j < i)
          <6>1. j \in i..Len(s) /\ j + 1 \in 1..Len(new)
            BY <1>1, <1>2, <5>2
          <6> QED BY <1>1, <3>3, <5>2, <6>1
        <5> QED BY <5>1, <5>2
      <4>2. moved(j) = now
        BY <2>2, <2>4, <4>1
      <4> QED BY <1>2, <4>2
    <3> HIDE DEF old
    <3>4. was = old
      BY <2>1, <3>2, <3>3
    <3> QED BY <1>2, <3>2, <3>4
  <2>5. was # 0 => moved(was) # 0
    BY <1>2, <2>1
  <2>6. (now = 0 <=> was = 0) /\ (was # 0 => now = moved(was))
    BY <2>3, <2>4, <2>5
  <2> QED BY <2>6 DEF was, now
<1> QED BY <1>5, <1>6 DEF new

\* An inserted entry stands between the neighbours it had, as far as they still
\* stand alone and in that order.
LEMMA InsertedInPlace ==
    ASSUME NEW old \in Seq(Item), NEW current \in Seq(Item),
           Store \in Elements(old), Store \notin Elements(current)
    PROVE  LET new == Inserted(old, current)
               first == FirstStore(old)
               at(e) == UniquePosition(new, e)
           IN  /\ at(Store) # 0
               /\ first > 1 /\ at(old[first - 1]) # 0 => at(old[first - 1]) < at(Store)
               /\ (first < Len(old) /\ old[first + 1] # Store /\ at(old[first + 1]) # 0
                   /\ (first = 1 \/ at(old[first - 1]) = 0
                       \/ at(old[first - 1]) < at(old[first + 1])))
                  => at(Store) + 1 = at(old[first + 1])
<1> DEFINE new == Inserted(old, current)
           first == FirstStore(old)
           at(e) == UniquePosition(new, e)
           slot == Slot(old, current)
           l == Left(old, current)
           r == Right(old, current)
<1>1. Len(old) \in Nat /\ Len(current) \in Nat /\ Store \in Item
  BY LenProperties DEF Item
<1>2. /\ first \in 1..Len(old) /\ old[first] = Store
      /\ \A j \in 1..first - 1 : old[j] # Store
  BY FirstStoreIs
<1>3. /\ l \in 0..Len(current) /\ r \in 0..Len(current) /\ slot \in 1..Len(current) + 1
      /\ new = InsertBefore(current, slot, Store)
  BY SlotIs
<1>4. slot = IF r # 0 /\ l < r THEN r ELSE IF l # 0 THEN l + 1 ELSE Len(current) + 1
  BY DEF Slot
<1>5. l = IF first = 1 THEN 0 ELSE UniquePosition(current, old[first - 1])
  BY DEF Left
<1>6. first < Len(old) /\ old[first + 1] # Store => r = UniquePosition(current, old[first + 1])
  <2> DEFINE tail == SubSeq(old, first, Len(old))
             rest == Without(tail, {Store})
  <2> HAVE first < Len(old) /\ old[first + 1] # Store
  <2>1. /\ tail \in Seq(Item) /\ Len(tail) >= 2
        /\ tail[1] = Store /\ tail[2] = old[first + 1]
    <3>1. /\ first \in Int /\ Len(old) \in Int /\ first <= Len(old)
          /\ \A j \in first..Len(old) : old[j] \in Item
      BY <1>1, <1>2, ElementOfSeq
    <3>2. /\ tail \in Seq(Item) /\ Len(tail) = IF first <= Len(old) THEN Len(old) - first + 1 ELSE 0
          /\ \A j \in 1..Len(old) - first + 1 : tail[j] = old[first + j - 1]
      BY <3>1, SubSeqProperties
    <3> HIDE DEF tail
    <3>3. 1 \in 1..Len(old) - first + 1 /\ 2 \in 1..Len(old) - first + 1
          /\ first + 1 - 1 = first /\ first + 2 - 1 = first + 1
      BY <1>1, <1>2
    <3>4. tail[1] = old[first] /\ tail[2] = old[first + 1]
      BY <3>2, <3>3
    <3>5. Len(tail) >= 2
      BY <1>1, <1>2, <3>2
    <3> QED BY <1>2, <3>2, <3>4, <3>5
  <2> HIDE DEF tail
  <2>2. rest # <<>> /\ rest[1] = old[first + 1]
    BY <2>1, WithoutSecond
  <2> HIDE DEF rest
  <2>3. r = IF rest = <<>> THEN 0 ELSE UniquePosition(current, rest[1])
    BY DEF Right, rest, tail
  <2> QED BY <2>2, <2>3
<1>7. /\ at(Store) = slot
      /\ \A e : e # Store =>
           /\ at(e) = 0 <=> UniquePosition(current, e) = 0
           /\ UniquePosition(current, e) # 0 =>
                at(e) = IF UniquePosition(current, e) < slot THEN UniquePosition(current, e)
                        ELSE UniquePosition(current, e) + 1
  BY <1>1, <1>3, SlotPositions
<1> HIDE DEF new, first, at, slot, l, r
<1>8. first > 1 /\ at(old[first - 1]) # 0 => at(old[first - 1]) < at(Store)
  <2> HAVE first > 1 /\ at(old[first - 1]) # 0
  <2>1. old[first - 1] # Store /\ l = UniquePosition(current, old[first - 1])
    BY <1>1, <1>2, <1>5
  <2>2. l # 0 /\ at(old[first - 1]) = IF l < slot THEN l ELSE l + 1
    BY <1>7, <2>1
  <2> QED BY <1>1, <1>3, <1>4, <1>7, <2>2
<1>9. ASSUME first < Len(old), old[first + 1] # Store, at(old[first + 1]) # 0,
             first = 1 \/ at(old[first - 1]) = 0 \/ at(old[first - 1]) < at(old[first + 1])
      PROVE  at(Store) + 1 = at(old[first + 1])
  <2>1. r = UniquePosition(current, old[first + 1])
    BY <1>6, <1>9
  <2>2. r # 0 /\ at(old[first + 1]) = IF r < slot THEN r ELSE r + 1
    BY <1>7, <1>9, <2>1
  <2>3. first # 1 => /\ at(old[first - 1]) = 0 <=> l = 0
                     /\ l # 0 => at(old[first - 1]) = IF l < slot THEN l ELSE l + 1
    <3> HAVE first # 1
    <3>1. old[first - 1] # Store /\ l = UniquePosition(current, old[first - 1])
      BY <1>1, <1>2, <1>5
    <3> QED BY <1>7, <3>1
  <2>4. l < r
    <3>1. CASE l = 0
      BY <1>1, <1>3, <2>2, <3>1
    <3>2. CASE l # 0
      <4>1. first # 1
        BY <1>5, <3>2
      <4>2. (IF l < slot THEN l ELSE l + 1) < (IF r < slot THEN r ELSE r + 1)
        BY <1>9, <2>2, <2>3, <3>2, <4>1
      <4> QED BY <1>1, <1>3, <4>2
    <3> QED BY <3>1, <3>2
  <2>5. slot = r
    BY <1>4, <2>2, <2>4
  <2> QED BY <1>1, <1>3, <1>7, <2>2, <2>5
<1>10. at(Store) # 0
  BY <1>1, <1>3, <1>7
<1> QED BY <1>8, <1>9, <1>10 DEF new, first, at

-----------------------------------------------------------------------------
(* The inductive invariant *)

Adding(p) == pc[p] \in {"comparing", "setting"} /\ job[p].command = "add"
Removing(p) == pc[p] \in {"comparing", "setting"} /\ job[p].command = "remove"

\* Which command is where, and in which PATH.
JobFits(p) ==
    /\ pc[p] \in {"claiming", "duplicate", "intending", "removing", "swapping", "applying"} =>
         job[p].command = "add"
    /\ pc[p] \in {"clearing", "restore", "withdraw", "legacy", "removed",
                  "restoring", "returning", "recording"} => job[p].command = "remove"
    /\ pc[p] \in Repairing \cup {"begin", "claiming", "duplicate", "restore", "withdraw"} =>
         job[p].hive = "machine"
    /\ job[p].command = "add" => job[p].hive = "machine"

\* What a command is about to write, and that it is made of what it read.
Planned(p) ==
    LET original == job[p].original
        next == job[p].next
    IN  /\ pc[p] = "claiming" \/ Adding(p) => next = Without(original, Own) \o <<Bin, Shims>>
        /\ Removing(p) => next = Without(original, claims[job[p].hive])
        /\ pc[p] \in {"intending", "removing", "swapping"} =>
             Store \in Elements(original) /\ next = Without(original, {Store})
        /\ pc[p] \in {"restoring", "returning"} =>
             Store \notin Elements(original) /\ next = Restoration(original)

\* What the holder of the Store lock knows about the journal.
Journaled(p) ==
    /\ pc[p] \in {"removing", "swapping"} =>
         store = [phase |-> "Pending", before |-> job[p].original]
    /\ pc[p] = "applying" => store.phase = "Pending"
    /\ pc[p] \in {"restoring", "returning", "recording"} => Owned

\* What the holder of a PATH lock did to the claims, and can take back.
ClaimsKnown(p) ==
    /\ pc[p] = "claiming" => claims["machine"] = job[p].previous
    /\ Adding(p) => claims["machine"] = job[p].previous \cup (Own \ Elements(job[p].original))

\* A command that ran alone is the only one, and has undone what it passed.
Undone(p) ==
    job[p].alone /\ pc[p] # "idle" =>
      /\ \A q \in Proc \ {p} : pc[q] = "idle"
      /\ pc[p] \in {"withdraw", "legacy", "removed", "clearing"} \/ Removing(p) => ~Owned
      /\ pc[p] \in {"legacy", "removed"} \/ (pc[p] \in Editing /\ job[p].hive = "user") =>
           claims["machine"] = {}
      /\ pc[p] = "removed" => claims["user"] = {}

\* What is claimed when the command gives up is PyRudder's own, or stale.
ClaimsFit(p) ==
    /\ pc[p] = "claiming" \/ Adding(p) =>
         /\ ours["machine"] \subseteq job[p].previous
         /\ job[p].previous \subseteq ours["machine"] \cup stale["machine"]
    /\ Removing(p) => claims[job[p].hive] \subseteq ours[job[p].hive] \cup stale[job[p].hive]
    /\ pc[p] = "clearing" => ours[job[p].hive] = {}

\* The value is still the one that was compared.
GapClean(p) == InGap(p) => path[job[p].hive] = job[p].original

\* The Store entry is back before the journal says so.
BackFirst(p) == pc[p] = "recording" => ~taken

Fits(p) ==
    /\ JobFits(p) /\ Planned(p) /\ Journaled(p) /\ ClaimsKnown(p) /\ Undone(p)
    /\ ~raced => ClaimsFit(p) /\ GapClean(p) /\ BackFirst(p)

\* A pending or applied journal has something to restore.
OwnedHasStore == Owned => Store \in Elements(store.before)

\* What is there, or missing, on PyRudder's account is there, or missing.
Present ==
    /\ \A h \in Hive : ours[h] \subseteq Elements(path[h])
    /\ taken => Store \notin Elements(path["machine"])

\* Claims are PyRudder's own entries, or stale, wherever nobody works on them.
ClaimsSettled ==
    ~raced => \A h \in Hive : lock[h] = None => claims[h] \subseteq ours[h] \cup stale[h]

IInv ==
    /\ TypeOK /\ \A p \in Proc : Fits(p)
    /\ OwnedHasStore /\ Present /\ ClaimsSettled /\ AddedIsClaimed /\ StoreIsRecoverable


-----------------------------------------------------------------------------
(* Types *)

\* The half of the type invariant about the processes, and the half about the files.
ProcsOK ==
    /\ lock \in [Hive -> Proc \cup {None}] /\ store_lock \in Proc \cup {None}
    /\ \A h \in Hive, p \in Proc : lock[h] = p <=> (pc[p] \in Editing /\ job[p].hive = h)
    /\ \A p \in Proc : store_lock = p <=> pc[p] \in Repairing
    /\ pc \in [Proc -> Editing \cup Repairing \cup Between \cup {"idle"}]
    /\ job \in [Proc -> Job]

FilesOK ==
    /\ path \in [Hive -> Seq(Item)]
    /\ claims \in [Hive -> SUBSET Own]
    /\ store \in [phase : Phase, before : Seq(Item)]
    /\ ours \in [Hive -> SUBSET Own] /\ stale \in [Hive -> SUBSET Own]
    /\ taken \in BOOLEAN /\ raced \in BOOLEAN
    /\ failures \in 0..MaxFailures /\ edits \in 0..MaxEdits

LEMMA TypeSplits ==
    /\ TypeOK <=> ProcsOK /\ FilesOK
    /\ TypeOK' <=> ProcsOK' /\ FilesOK'
BY DEF TypeOK, ProcsOK, FilesOK

LEMMA Places ==
    /\ Editing \cap Repairing = {} /\ Between \cap (Editing \cup Repairing) = {}
    /\ "idle" \notin Editing \cup Repairing \cup Between
    /\ "machine" \in Hive /\ "user" \in Hive /\ "machine" # "user"
    /\ \A h \in Hive : h # "machine" => h = "user"
BY DEF Editing, Repairing, Between, Hive

LEMMA JobFields ==
    ASSUME NEW j \in Job
    PROVE  /\ j.command \in {"add", "remove"} /\ j.hive \in Hive
           /\ j.original \in Seq(Item) /\ j.next \in Seq(Item)
           /\ j.previous \in SUBSET Own /\ j.alone \in BOOLEAN
           /\ \A s \in Seq(Item) : [j EXCEPT !.original = s] \in Job
           /\ \A s \in Seq(Item) : [j EXCEPT !.next = s] \in Job
           /\ \A set \in SUBSET Own : [j EXCEPT !.previous = set] \in Job
           /\ \A h \in Hive : [j EXCEPT !.hive = h] \in Job
           /\ \A command \in {"add", "remove"} : [j EXCEPT !.command = command] \in Job
           /\ \A b \in BOOLEAN : [j EXCEPT !.alone = b] \in Job
BY DEF Job

LEMMA NoJobType == NoJob \in Job
<1>1. <<>> \in Seq(Item)
  BY EmptySeq
<1> QED BY <1>1, Places DEF NoJob, Job

-----------------------------------------------------------------------------
(* The jobs the actions make *)

JobAdds(j, s, t, set) == [j EXCEPT !.original = s, !.next = t, !.previous = set]
JobFreed(j) == JobAdds(j, <<>>, <<>>, {})
JobRemoves(j, h, s, t) == [j EXCEPT !.hive = h, !.original = s, !.next = t]
JobRepairs(j, s, t) == [j EXCEPT !.original = s, !.next = t]
JobBegins(command, b) == [NoJob EXCEPT !.command = command, !.alone = b]

LEMMA JobAddsIs ==
    ASSUME NEW j \in Job, NEW s \in Seq(Item), NEW t \in Seq(Item), NEW set \in SUBSET Own
    PROVE  LET new == JobAdds(j, s, t, set)
           IN  /\ new \in Job /\ new.command = j.command /\ new.hive = j.hive
               /\ new.alone = j.alone
               /\ new.original = s /\ new.next = t /\ new.previous = set
<1> DEFINE k == [j EXCEPT !.original = s]
           l == [k EXCEPT !.next = t]
<1>1. k \in Job
  BY JobFields
<1> HIDE DEF k
<1>2. l \in Job
  BY <1>1, JobFields
<1> HIDE DEF l
<1>3. [l EXCEPT !.previous = set] \in Job
  BY <1>2, JobFields
<1>4. JobAdds(j, s, t, set) \in Job
  BY <1>3 DEF k, l, JobAdds
<1> QED BY <1>4 DEF Job, JobAdds

LEMMA JobFreedIs ==
    ASSUME NEW j \in Job
    PROVE  LET new == JobFreed(j)
           IN  /\ new \in Job /\ new.command = j.command /\ new.hive = j.hive
               /\ new.alone = j.alone
<1>1. <<>> \in Seq(Item) /\ {} \in SUBSET Own
  BY EmptySeq
<1>2. ASSUME NEW s \in Seq(Item), NEW set \in SUBSET Own, s = <<>>, set = {}
      PROVE  JobFreed(j) = JobAdds(j, s, s, set)
  BY <1>2 DEF JobFreed
<1>3. ASSUME NEW s \in Seq(Item), NEW set \in SUBSET Own,
             JobFreed(j) = JobAdds(j, s, s, set)
      PROVE  LET new == JobFreed(j)
             IN  /\ new \in Job /\ new.command = j.command /\ new.hive = j.hive
                 /\ new.alone = j.alone
  BY <1>3, JobAddsIs
<1> QED BY <1>1, <1>2, <1>3

LEMMA JobRemovesIs ==
    ASSUME NEW j \in Job, NEW h \in Hive, NEW s \in Seq(Item), NEW t \in Seq(Item)
    PROVE  LET new == JobRemoves(j, h, s, t)
           IN  /\ new \in Job /\ new.command = j.command /\ new.hive = h
               /\ new.alone = j.alone
               /\ new.original = s /\ new.next = t
<1> DEFINE k == [j EXCEPT !.hive = h]
           l == [k EXCEPT !.original = s]
<1>1. k \in Job
  BY JobFields
<1> HIDE DEF k
<1>2. l \in Job
  BY <1>1, JobFields
<1> HIDE DEF l
<1>3. [l EXCEPT !.next = t] \in Job
  BY <1>2, JobFields
<1>4. JobRemoves(j, h, s, t) \in Job
  BY <1>3 DEF k, l, JobRemoves
<1> QED BY <1>4 DEF Job, JobRemoves

LEMMA JobRepairsIs ==
    ASSUME NEW j \in Job, NEW s \in Seq(Item), NEW t \in Seq(Item)
    PROVE  LET new == JobRepairs(j, s, t)
           IN  /\ new \in Job /\ new.command = j.command /\ new.hive = j.hive
               /\ new.alone = j.alone
               /\ new.original = s /\ new.next = t
<1> DEFINE k == [j EXCEPT !.original = s]
<1>1. k \in Job
  BY JobFields
<1> HIDE DEF k
<1>2. [k EXCEPT !.next = t] \in Job
  BY <1>1, JobFields
<1>3. JobRepairs(j, s, t) \in Job
  BY <1>2 DEF k, JobRepairs
<1> QED BY <1>3 DEF Job, JobRepairs

LEMMA JobBeginsIs ==
    ASSUME NEW command \in {"add", "remove"}, NEW b \in BOOLEAN
    PROVE  LET new == JobBegins(command, b)
           IN  new \in Job /\ new.command = command /\ new.hive = "machine" /\ new.alone = b
<1> DEFINE k == [NoJob EXCEPT !.command = command]
<1>1. k \in Job
  BY NoJobType, JobFields
<1> HIDE DEF k
<1>2. [k EXCEPT !.alone = b] \in Job
  BY <1>1, JobFields
<1>3. JobBegins(command, b) \in Job
  BY <1>2 DEF k, JobBegins
<1> QED BY <1>3 DEF NoJob, JobBegins

-----------------------------------------------------------------------------
(* Locks.  A step of p leaves the others where they are. *)

OthersStay(p) == \A q \in Proc \ {p} : pc'[q] = pc[q] /\ job'[q] = job[q]

LEMMA EndsMoves ==
    ASSUME ProcsOK, NEW p \in Proc, Ends(p)
    PROVE  ProcsOK' /\ OthersStay(p) /\ pc'[p] = "idle" /\ job'[p] = NoJob
<1> USE DEF ProcsOK, Ends
<1>1. job' \in [Proc -> Job] /\ None \notin Proc
  BY NoJobType, PathAssumption
<1>2. OthersStay(p) /\ pc'[p] = "idle" /\ job'[p] = NoJob
  BY DEF OthersStay
<1>3. lock' \in [Hive -> Proc \cup {None}] /\ store_lock' \in Proc \cup {None}
  OBVIOUS
<1>4. \A h \in Hive, q \in Proc : lock'[h] = q <=> (pc'[q] \in Editing /\ job'[q].hive = h)
  BY <1>1, <1>2, Places DEF OthersStay
<1>5. \A q \in Proc : store_lock' = q <=> pc'[q] \in Repairing
  BY <1>1, <1>2, Places DEF OthersStay
<1> QED BY <1>1, <1>2, <1>3, <1>4, <1>5

LEMMA FreeMoves ==
    ASSUME ProcsOK, NEW p \in Proc, NEW step \in Between, GoesFree(p, step)
    PROVE  /\ ProcsOK' /\ OthersStay(p) /\ pc'[p] = step
           /\ job'[p].command = job[p].command /\ job'[p].hive = job[p].hive
           /\ job'[p].alone = job[p].alone
<1> DEFINE what == JobFreed(job[p])
<1>1. job' = [job EXCEPT ![p] = what]
  BY DEF GoesFree, JobFreed, JobAdds
<1>2. /\ what \in Job /\ what.command = job[p].command /\ what.hive = job[p].hive
      /\ what.alone = job[p].alone
  BY JobFreedIs DEF ProcsOK
<1> HIDE DEF what
<1>0. /\ pc' = [pc EXCEPT ![p] = step]
      /\ lock' = [h \in Hive |-> IF lock[h] = p THEN None ELSE lock[h]]
      /\ store_lock' = IF store_lock = p THEN None ELSE store_lock
  BY DEF GoesFree
<1> USE <1>0, <1>1 DEF ProcsOK
<1>3. job' \in [Proc -> Job] /\ None \notin Proc
  BY <1>2, PathAssumption
<1>4. OthersStay(p) /\ pc'[p] = step /\ job'[p] = what
  BY DEF OthersStay
<1>5. lock' \in [Hive -> Proc \cup {None}] /\ store_lock' \in Proc \cup {None}
  OBVIOUS
<1>6. \A h \in Hive, q \in Proc : lock'[h] = q <=> (pc'[q] \in Editing /\ job'[q].hive = h)
  BY <1>3, <1>4, Places DEF OthersStay
<1>7. \A q \in Proc : store_lock' = q <=> pc'[q] \in Repairing
  BY <1>3, <1>4, Places DEF OthersStay
<1> QED BY <1>2, <1>3, <1>4, <1>5, <1>6, <1>7

LEMMA GoesMoves ==
    ASSUME ProcsOK, NEW p \in Proc, NEW step, Goes(p, step),
           (pc[p] \in Editing /\ step \in Editing) \/ (pc[p] \in Repairing /\ step \in Repairing)
    PROVE  ProcsOK' /\ OthersStay(p) /\ pc'[p] = step /\ job'[p] = job[p]
BY Places DEF ProcsOK, Goes, OthersStay, locks

LEMMA LocksMoves ==
    ASSUME ProcsOK, NEW p \in Proc, pc[p] \in Between, NEW h \in Hive, lock[h] = None,
           NEW step \in Editing, NEW what \in Job, what.hive = h,
           lock' = [lock EXCEPT ![h] = p], UNCHANGED store_lock,
           pc' = [pc EXCEPT ![p] = step], job' = [job EXCEPT ![p] = what]
    PROVE  ProcsOK' /\ OthersStay(p) /\ pc'[p] = step /\ job'[p] = what
<1> USE DEF ProcsOK
<1>1. OthersStay(p) /\ pc'[p] = step /\ job'[p] = what
  BY DEF OthersStay
<1>2. lock' \in [Hive -> Proc \cup {None}] /\ job' \in [Proc -> Job]
  OBVIOUS
<1>3. \A g \in Hive, q \in Proc : lock'[g] = q <=> (pc'[q] \in Editing /\ job'[q].hive = g)
  BY <1>1, Places, PathAssumption DEF OthersStay
<1>4. \A q \in Proc : store_lock' = q <=> pc'[q] \in Repairing
  BY <1>1, Places DEF OthersStay
<1> QED BY <1>1, <1>2, <1>3, <1>4

LEMMA StoreLocksMoves ==
    ASSUME ProcsOK, NEW p \in Proc, pc[p] \in Between, store_lock = None,
           NEW step \in Repairing, NEW what \in Job,
           store_lock' = p, UNCHANGED lock,
           pc' = [pc EXCEPT ![p] = step], job' = [job EXCEPT ![p] = what]
    PROVE  ProcsOK' /\ OthersStay(p) /\ pc'[p] = step /\ job'[p] = what
<1> USE DEF ProcsOK
<1>1. OthersStay(p) /\ pc'[p] = step /\ job'[p] = what
  BY DEF OthersStay
<1>2. store_lock' \in Proc \cup {None} /\ job' \in [Proc -> Job]
  OBVIOUS
<1>3. \A g \in Hive, q \in Proc : lock'[g] = q <=> (pc'[q] \in Editing /\ job'[q].hive = g)
  BY <1>1, Places DEF OthersStay
<1>4. \A q \in Proc : store_lock' = q <=> pc'[q] \in Repairing
  BY <1>1, Places, PathAssumption DEF OthersStay
<1> QED BY <1>1, <1>2, <1>3, <1>4


-----------------------------------------------------------------------------
(* What a step of p means for the others *)

\* Only who holds a PATH's lock changes its claims, and only who holds the Store's its
\* journal.
Confined(p) ==
    /\ \A h \in Hive : claims'[h] = claims[h] \/ (pc[p] \in Editing /\ job[p].hive = h)
    /\ store' = store \/ pc[p] \in Repairing

LEMMA Exclusive ==
    ASSUME ProcsOK, NEW p \in Proc, NEW q \in Proc \ {p}
    PROVE  /\ pc[p] \in Editing /\ pc[q] \in Editing => job[p].hive # job[q].hive
           /\ ~(pc[p] \in Repairing /\ pc[q] \in Repairing)
<1>1. job[p].hive \in Hive /\ job[q].hive \in Hive
  BY JobFields DEF ProcsOK
<1> QED BY <1>1 DEF ProcsOK

LEMMA PlacesOf ==
    ASSUME NEW p
    PROVE  /\ Adding(p) \/ Removing(p) \/ pc[p] \in {"claiming", "clearing"} => pc[p] \in Editing
           /\ pc[p] \in {"intending", "removing", "swapping", "applying", "restoring",
                         "returning", "recording"} => pc[p] \in Repairing
           /\ InGap(p) => pc[p] \in Editing \cup Repairing
BY DEF Adding, Removing, Editing, Repairing, InGap

LEMMA OthersFit ==
    ASSUME IInv, NEW p \in Proc, OthersStay(p), Confined(p), pc[p] # "idle",
           NEW q \in Proc \ {p}
    PROVE  JobFits(q)' /\ Planned(q)' /\ Journaled(q)' /\ ClaimsKnown(q)' /\ Undone(q)'
<1>1. /\ ProcsOK /\ pc'[q] = pc[q] /\ job'[q] = job[q] /\ job[q].hive \in Hive
      /\ JobFits(q) /\ Planned(q) /\ Journaled(q) /\ ClaimsKnown(q) /\ Undone(q)
  BY TypeSplits, JobFields DEF IInv, Fits, OthersStay, ProcsOK
<1>2. pc[q] \in Editing => claims'[job[q].hive] = claims[job[q].hive]
  BY <1>1, Exclusive DEF Confined
<1>3. pc[q] \in Repairing => store' = store
  BY <1>1, Exclusive DEF Confined
<1>4. JobFits(q)'
  BY <1>1 DEF JobFits
<1>5. Planned(q)'
  <2>1. store' = store => \A s : Restoration(s)' = Restoration(s)
    BY DEF Restoration
  <2>2. Adding(q)' = Adding(q) /\ Removing(q)' = Removing(q)
    BY <1>1 DEF Adding, Removing
  <2>3. /\ Removing(q) => claims'[job[q].hive] = claims[job[q].hive]
        /\ pc[q] \in {"restoring", "returning"} => store' = store
    BY <1>2, <1>3, PlacesOf
  <2>4. pc[q] \in {"restoring", "returning"} =>
          Restoration(job[q].original)' = Restoration(job[q].original)
    BY <1>1, <2>1, <2>3
  <2> QED BY <1>1, <2>1, <2>2, <2>3, <2>4 DEF Planned
<1>6. Journaled(q)'
  BY <1>1, <1>3, PlacesOf DEF Journaled, Owned
<1>7. ClaimsKnown(q)'
  <2>1. pc[q] = "claiming" \/ Adding(q) => job[q].hive = "machine"
    BY <1>1 DEF JobFits, Adding
  <2> QED BY <1>1, <1>2, <2>1, PlacesOf DEF ClaimsKnown, Adding
<1>8. Undone(q)'
  BY <1>1 DEF Undone
<1> QED BY <1>4, <1>5, <1>6, <1>7, <1>8

LEMMA IdleFits ==
    ASSUME NEW p \in Proc, pc'[p] = "idle", job'[p].command = "add" => job'[p].hive = "machine"
    PROVE  Fits(p)'
BY DEF Fits, JobFits, Planned, Journaled, ClaimsKnown, Undone, ClaimsFit, GapClean, BackFirst,
       InGap, Adding, Removing, Repairing

LEMMA BetweenFits ==
    ASSUME NEW p \in Proc, pc'[p] \in Between, JobFits(p)', Undone(p)'
    PROVE  Fits(p)'
BY DEF Fits, Planned, Journaled, ClaimsKnown, ClaimsFit, GapClean, BackFirst,
       InGap, Adding, Removing, Between

\* A step that writes no PATH.
LEMMA QuietStep ==
    ASSUME IInv, NEW p \in Proc, pc[p] # "idle", OthersStay(p), Confined(p),
           TypeOK', UNCHANGED <<path, ours, taken, raced>>, Fits(p)',
           \A h \in Hive : stale'[h] = stale[h] \/ (pc[p] \in Editing /\ job[p].hive = h),
           \A h \in Hive : ~raced /\ pc[p] \in Editing /\ job[p].hive = h =>
              /\ ours[h] \subseteq claims'[h]
              /\ lock'[h] = None => claims'[h] \subseteq ours[h] \cup stale'[h],
           OwnedHasStore', StoreIsRecoverable'
    PROVE  IInv'
<1>1. ProcsOK /\ ProcsOK' /\ \A q \in Proc : job[q] \in Job
  BY TypeSplits DEF IInv, ProcsOK
<1>2. ASSUME NEW q \in Proc \ {p}  PROVE Fits(q)'
  <2>1. /\ pc'[q] = pc[q] /\ job'[q] = job[q] /\ job[q].hive \in Hive /\ Fits(q)
        /\ JobFits(q)
    BY <1>1, JobFields DEF IInv, Fits, OthersStay
  <2>2. pc[q] \in Editing => /\ claims'[job[q].hive] = claims[job[q].hive]
                             /\ stale'[job[q].hive] = stale[job[q].hive]
    BY <1>1, <2>1, Exclusive DEF Confined
  <2>3. ~raced => ClaimsFit(q)'
    <3>1. Adding(q)' = Adding(q) /\ Removing(q)' = Removing(q)
      BY <2>1 DEF Adding, Removing
    <3>2. pc[q] = "claiming" \/ Adding(q) => job[q].hive = "machine"
      BY <2>1 DEF JobFits, Adding
    <3> QED BY <2>1, <2>2, <3>1, <3>2, PlacesOf DEF Fits, ClaimsFit
  <2>4. ~raced => GapClean(q)' /\ BackFirst(q)'
    BY <2>1 DEF Fits, GapClean, BackFirst, InGap
  <2> QED BY <2>3, <2>4, OthersFit DEF Fits
<1>3. Present'
  BY DEF IInv, Present
<1>4. \A h \in Hive : lock'[h] = None =>
        lock[h] = None \/ (pc[p] \in Editing /\ job[p].hive = h)
  BY <1>1, PathAssumption DEF ProcsOK, OthersStay
<1>5. ClaimsSettled'
  <2> SUFFICES ASSUME ~raced, NEW h \in Hive, lock'[h] = None
               PROVE  claims'[h] \subseteq ours[h] \cup stale'[h]
    BY DEF ClaimsSettled
  <2> QED BY <1>4 DEF IInv, ClaimsSettled, Confined
<1>6. AddedIsClaimed'
  BY DEF IInv, AddedIsClaimed, Confined
<1> QED BY <1>2, <1>3, <1>5, <1>6 DEF IInv

\* A step that changes no file.
LEMMA ReadingStep ==
    ASSUME IInv, NEW p \in Proc, pc[p] \notin Editing \cup {"idle"}, OthersStay(p),
           ProcsOK', Keeps, Fits(p)'
    PROVE  IInv'
<1>1. FilesOK' /\ TypeOK'
  BY TypeSplits DEF IInv, FilesOK, Keeps, files, ghosts, events
<1>2. OwnedHasStore' /\ StoreIsRecoverable'
  BY DEF IInv, OwnedHasStore, StoreIsRecoverable, Owned, Keeps, files, ghosts
<1>3. UNCHANGED <<path, ours, taken, raced, claims, store, stale>>
  BY DEF Keeps, files, ghosts
<1> QED BY <1>1, <1>2, <1>3, QuietStep DEF Confined


-----------------------------------------------------------------------------
(* Every step keeps the invariant: the steps that change no file *)

LEMMA NoJobFits == NoJob.command = "add" /\ NoJob.hive = "machine" /\ ~NoJob.alone
BY DEF NoJob

LEMMA EndsReading ==
    ASSUME IInv, NEW p \in Proc, pc[p] \notin Editing \cup {"idle"}, Ends(p), Keeps
    PROVE  IInv'
<1>1. ProcsOK
  BY TypeSplits DEF IInv
<1>2. ProcsOK' /\ OthersStay(p) /\ pc'[p] = "idle" /\ job'[p] = NoJob
  BY <1>1, EndsMoves
<1>3. Fits(p)'
  BY <1>2, IdleFits, NoJobFits
<1> QED BY <1>2, <1>3, ReadingStep

LEMMA FreeReading ==
    ASSUME IInv, NEW p \in Proc, pc[p] \notin Editing \cup {"idle"},
           NEW step \in Between, GoesFree(p, step), Keeps,
           step \in {"restore", "withdraw"} => job[p].hive = "machine", step # "begin",
           IF step = "duplicate" THEN job[p].command = "add" ELSE job[p].command = "remove",
           job[p].command = "add" => job[p].hive = "machine",
           job[p].alone =>
              /\ step \in {"withdraw", "legacy", "removed"} => ~Owned
              /\ step \in {"legacy", "removed"} => claims["machine"] = {}
              /\ step = "removed" => claims["user"] = {}
    PROVE  IInv'
<1>1. ProcsOK /\ Undone(p)
  BY TypeSplits DEF IInv, Fits
<1>2. /\ ProcsOK' /\ OthersStay(p) /\ pc'[p] = step
      /\ job'[p].command = job[p].command /\ job'[p].hive = job[p].hive
      /\ job'[p].alone = job[p].alone
  BY <1>1, FreeMoves
<1>3. JobFits(p)'
  BY <1>2, Places DEF JobFits, Between, Repairing
<1>4. UNCHANGED <<claims, store>> /\ (Owned' <=> Owned)
  BY DEF Keeps, files, Owned
<1>5. Undone(p)'
  <2>1. ~Removing(p)' /\ pc'[p] \notin Editing /\ pc'[p] # "clearing"
    BY <1>2, Places, PlacesOf DEF Removing, Between
  <2>2. job[p].alone => \A q \in Proc \ {p} : pc'[q] = "idle"
    BY <1>1, <1>2 DEF Undone, OthersStay
  <2> QED BY <1>2, <1>4, <2>1, <2>2 DEF Undone
<1>6. Fits(p)'
  BY <1>2, <1>3, <1>5, BetweenFits
<1> QED BY <1>2, <1>6, ReadingStep

LEMMA BeginStep ==
    ASSUME IInv, NEW p \in Proc, NEW command \in {"add", "remove"}, Begin(p, command)
    PROVE  IInv'
<1> DEFINE alone == \A r \in Proc \ {p} : pc[r] = "idle"
           what == JobBegins(command, alone)
           other(q) == [job[q] EXCEPT !.alone = FALSE]
<1>1. /\ ProcsOK /\ FilesOK
      /\ job' = [q \in Proc |-> IF q = p THEN what ELSE other(q)]
      /\ pc[p] = "idle" /\ pc' = [pc EXCEPT ![p] = "begin"] /\ UNCHANGED <<lock, store_lock>>
  BY TypeSplits DEF IInv, Begin, JobBegins, locks
<1>2. what \in Job /\ what.command = command /\ what.hive = "machine" /\ (what.alone => alone)
  <2>1. alone \in BOOLEAN
    OBVIOUS
  <2> QED BY <2>1, JobBeginsIs
<1>3. \A q \in Proc : /\ other(q) \in Job /\ ~other(q).alone
                      /\ other(q).command = job[q].command /\ other(q).hive = job[q].hive
                      /\ other(q).original = job[q].original /\ other(q).next = job[q].next
                      /\ other(q).previous = job[q].previous
  <2> TAKE q \in Proc
  <2>1. job[q] \in Job
    BY <1>1 DEF ProcsOK
  <2>2. other(q) \in Job
    BY <2>1, JobFields
  <2> QED BY <2>1, <2>2 DEF Job
<1> HIDE DEF what, other
<1>4. pc'[p] = "begin" /\ job'[p] = what
      /\ \A q \in Proc \ {p} : pc'[q] = pc[q] /\ job'[q] = other(q)
  BY <1>1 DEF ProcsOK
<1>5. ProcsOK'
  <2>1. job' \in [Proc -> Job]
    BY <1>1, <1>2, <1>3
  <2>2. pc' \in [Proc -> Editing \cup Repairing \cup Between \cup {"idle"}]
    BY <1>1 DEF ProcsOK, Between
  <2>3. "begin" \notin Editing \cup Repairing
    BY DEF Editing, Repairing
  <2>4. \A h \in Hive, q \in Proc : lock'[h] = q <=> (pc'[q] \in Editing /\ job'[q].hive = h)
    BY <1>1, <1>3, <1>4, <2>3, Places DEF ProcsOK
  <2>5. \A q \in Proc : store_lock' = q <=> pc'[q] \in Repairing
    BY <1>1, <1>4, <2>3, Places DEF ProcsOK
  <2> QED BY <1>1, <2>1, <2>2, <2>4, <2>5 DEF ProcsOK
<1>6. UNCHANGED <<path, claims, store, ours, taken, stale, raced>> /\ TypeOK'
  BY <1>1, <1>5, TypeSplits DEF Begin, Keeps, files, ghosts, events, FilesOK
<1>7. Fits(p)'
  <2>1. JobFits(p)'
    BY <1>2, <1>4, Places DEF JobFits, Repairing
  <2>2. Undone(p)'
    BY <1>2, <1>4 DEF Undone, Removing, Editing
  <2>3. pc'[p] \in Between
    BY <1>4 DEF Between
  <2> QED BY <2>1, <2>2, <2>3, BetweenFits
<1>8. ASSUME NEW q \in Proc \ {p}  PROVE Fits(q)'
  <2>1. /\ Fits(q) /\ pc'[q] = pc[q] /\ ~job'[q].alone
        /\ job'[q].command = job[q].command /\ job'[q].hive = job[q].hive
        /\ job'[q].original = job[q].original /\ job'[q].next = job[q].next
        /\ job'[q].previous = job[q].previous
    BY <1>3, <1>4 DEF IInv
  <2>2. Adding(q)' = Adding(q) /\ Removing(q)' = Removing(q) /\ InGap(q)' = InGap(q)
    BY <2>1 DEF Adding, Removing, InGap
  <2>3. Restoration(job[q].original)' = Restoration(job[q].original)
    BY <1>6, <2>1 DEF Restoration
  <2>4. JobFits(q)' /\ Journaled(q)' /\ Undone(q)'
    <3>1. JobFits(q)'
      BY <2>1 DEF Fits, JobFits
    <3>2. Journaled(q)'
      BY <1>6, <2>1 DEF Fits, Journaled, Owned
    <3>3. Undone(q)'
      BY <2>1 DEF Undone
    <3> QED BY <3>1, <3>2, <3>3
  <2>5. Planned(q)'
    BY <1>6, <2>1, <2>2, <2>3 DEF Fits, Planned
  <2>6. ClaimsKnown(q)' /\ (~raced => ClaimsFit(q)' /\ GapClean(q)')
    BY <1>6, <2>1, <2>2 DEF Fits, ClaimsKnown, ClaimsFit, GapClean
  <2> QED BY <1>6, <2>1, <2>4, <2>5, <2>6 DEF Fits, BackFirst
<1>9. OwnedHasStore' /\ Present' /\ ClaimsSettled' /\ AddedIsClaimed' /\ StoreIsRecoverable'
  BY <1>1, <1>6 DEF IInv, OwnedHasStore, Owned, Present, ClaimsSettled, AddedIsClaimed,
                    StoreIsRecoverable
<1> QED BY <1>6, <1>7, <1>8, <1>9 DEF IInv

LEMMA ReadForAddStep ==
    ASSUME IInv, NEW p \in Proc, ReadForAdd(p)
    PROVE  IInv'
<1> DEFINE original == path["machine"]
           next == Without(original, Own) \o <<Bin, Shims>>
           what == JobAdds(job[p], original, next, claims["machine"])
<1>1. /\ ProcsOK /\ FilesOK /\ Keeps /\ Fits(p) /\ JobFits(p) /\ Undone(p)
      /\ pc[p] = "begin" /\ job[p].command = "add" /\ job[p].hive = "machine"
  BY TypeSplits DEF IInv, ReadForAdd, Fits, JobFits
<1>2. pc[p] \in Between /\ pc[p] \notin Editing \cup {"idle"}
  BY <1>1 DEF Between, Editing
<1>3. original \in Seq(Item) /\ claims["machine"] \in SUBSET Own /\ next \in Seq(Item)
  <2>1. original \in Seq(Item) /\ claims["machine"] \in SUBSET Own
    BY <1>1, Places DEF FilesOK
  <2>2. Without(original, Own) \in Seq(Item)
    BY <2>1, WithoutType
  <2>3. <<Bin, Shims>> \in Seq(Item)
    BY DEF Item, Own
  <2> QED BY <2>1, <2>2, <2>3, ConcatProperties
<1>4. /\ what \in Job /\ what.command = "add" /\ what.hive = "machine"
      /\ what.alone = job[p].alone /\ what.original = original /\ what.next = next
      /\ what.previous = claims["machine"]
  <2>1. job[p] \in Job
    BY <1>1 DEF ProcsOK
  <2> HIDE DEF next, original
  <2> QED BY <1>1, <1>3, <2>1, JobAddsIs
<1>5. \/ Ends(p)
      \/ /\ lock["machine"] = None /\ lock' = [lock EXCEPT !["machine"] = p]
         /\ pc' = [pc EXCEPT ![p] = "claiming"] /\ job' = [job EXCEPT ![p] = what]
         /\ UNCHANGED store_lock
  BY DEF ReadForAdd, JobAdds
<1> HIDE DEF what
<1>6. CASE Ends(p)
  BY <1>1, <1>2, <1>6, EndsReading
<1>7. CASE ~Ends(p)
  <2>1. ProcsOK' /\ OthersStay(p) /\ pc'[p] = "claiming" /\ job'[p] = what
    <3>1. "claiming" \in Editing
      BY DEF Editing
    <3> QED BY <1>1, <1>2, <1>4, <1>5, <1>7, <3>1, Places, LocksMoves
  <2>2. UNCHANGED <<path, claims, ours, stale, taken, raced>>
    BY <1>1 DEF Keeps, files, ghosts
  <2>3. JobFits(p)' /\ Planned(p)' /\ Journaled(p)' /\ ClaimsKnown(p)'
    BY <1>4, <2>1, <2>2 DEF JobFits, Planned, Journaled, ClaimsKnown, Adding, Removing
  <2>4. Undone(p)'
    BY <1>1, <1>4, <2>1, Places DEF Undone, Removing, OthersStay
  <2>5. ASSUME ~raced  PROVE ClaimsFit(p)' /\ GapClean(p)' /\ BackFirst(p)'
    <3>1. ours["machine"] \subseteq claims["machine"]
      BY <2>5, Places DEF IInv, AddedIsClaimed
    <3>2. claims["machine"] \subseteq ours["machine"] \cup stale["machine"]
      BY <1>5, <1>7, <2>5, Places DEF IInv, ClaimsSettled
    <3> QED BY <1>4, <2>1, <2>2, <3>1, <3>2
            DEF ClaimsFit, GapClean, BackFirst, Adding, Removing, InGap
  <2> QED BY <1>1, <1>2, <2>1, <2>2, <2>3, <2>4, <2>5, ReadingStep DEF Fits
<1> QED BY <1>6, <1>7

LEMMA ReadForRemoveStep ==
    ASSUME IInv, NEW p \in Proc, ReadForRemove(p)
    PROVE  IInv'
<1> DEFINE hive == IF pc[p] = "legacy" THEN "user" ELSE "machine"
           original == path[hive]
           after == IF hive = "user" THEN "removed" ELSE "legacy"
           next == Without(original, claims[hive])
           what == JobRemoves(job[p], hive, original, next)
           step == IF Elements(original) \cap claims[hive] = {} THEN "clearing"
                   ELSE "comparing"
<1>1. /\ ProcsOK /\ FilesOK /\ Keeps /\ Fits(p) /\ JobFits(p) /\ Undone(p)
      /\ pc[p] \in {"withdraw", "legacy"} /\ job[p].command = "remove" /\ job[p] \in Job
  BY TypeSplits DEF IInv, ReadForRemove, Fits, JobFits, ProcsOK
<1>2. pc[p] \in Between /\ pc[p] \notin Editing \cup {"idle"}
  BY <1>1 DEF Between, Editing
<1>3. /\ hive \in Hive /\ original \in Seq(Item) /\ next \in Seq(Item)
      /\ claims[hive] \in SUBSET Own
  BY <1>1, Places, WithoutType DEF FilesOK
<1>4. /\ what \in Job /\ what.command = "remove" /\ what.hive = hive
      /\ what.alone = job[p].alone /\ what.original = original /\ what.next = next
  <2> HIDE DEF next, original, hive
  <2> QED BY <1>1, <1>3, JobRemovesIs
<1>5. \/ Ends(p)
      \/ claims[hive] = {} /\ GoesFree(p, after)
      \/ /\ lock[hive] = None /\ lock' = [lock EXCEPT ![hive] = p]
         /\ pc' = [pc EXCEPT ![p] = step] /\ job' = [job EXCEPT ![p] = what]
         /\ UNCHANGED store_lock
  BY DEF ReadForRemove, JobRemoves
<1> HIDE DEF what
<1>6. CASE Ends(p)
  BY <1>1, <1>2, <1>6, EndsReading
<1>7. CASE claims[hive] = {} /\ GoesFree(p, after)
  <2>1. after \in {"removed", "legacy"} /\ after \in Between
    BY DEF Between
  <2>2. job[p].alone => ~Owned
    BY <1>1, Places DEF Undone
  <2>3. job[p].alone => claims["machine"] = {} /\ (after = "removed" => claims["user"] = {})
    BY <1>1, <1>7, Places DEF Undone
  <2> HIDE DEF after, hive
  <2> QED BY <1>1, <1>2, <1>7, <2>1, <2>2, <2>3, FreeReading
<1>8. CASE /\ lock[hive] = None /\ lock' = [lock EXCEPT ![hive] = p]
           /\ pc' = [pc EXCEPT ![p] = step] /\ job' = [job EXCEPT ![p] = what]
           /\ UNCHANGED store_lock
  <2>0. step \in {"clearing", "comparing"} /\ step \in Editing
    BY DEF Editing
  <2>1. ProcsOK' /\ OthersStay(p) /\ pc'[p] = step /\ job'[p] = what
    <3>1. hive \in Hive /\ what \in Job /\ what.hive = hive
      BY <1>3, <1>4
    <3> HIDE DEF step, hive, next, original, after
    <3> QED BY <1>1, <1>2, <1>8, <2>0, <3>1, Places, LocksMoves
  <2>2. UNCHANGED <<path, claims, ours, stale, taken, raced, store>>
    BY <1>1 DEF Keeps, files, ghosts
  <2>3. JobFits(p)' /\ Planned(p)' /\ Journaled(p)' /\ ClaimsKnown(p)'
    <3> HIDE DEF step, hive
    <3> QED BY <1>4, <2>0, <2>1, <2>2
            DEF JobFits, Planned, Journaled, ClaimsKnown, Adding, Removing, Repairing
  <2>4. Undone(p)'
    <3>1. job[p].alone => /\ ~Owned /\ \A q \in Proc \ {p} : pc[q] = "idle"
                          /\ hive = "user" => claims["machine"] = {}
      BY <1>1, <1>2, Places DEF Undone
    <3> HIDE DEF step, hive
    <3> QED BY <1>4, <2>0, <2>1, <2>2, <3>1 DEF Undone, Removing, OthersStay, Owned
  <2>5. ASSUME ~raced  PROVE ClaimsFit(p)' /\ GapClean(p)' /\ BackFirst(p)'
    <3>1. ours[hive] \subseteq claims[hive] /\ ours[hive] \subseteq Elements(original)
      BY <1>3, <2>5 DEF IInv, AddedIsClaimed, Present
    <3>2. claims[hive] \subseteq ours[hive] \cup stale[hive]
      BY <1>3, <1>8, <2>5 DEF IInv, ClaimsSettled
    <3>3. step = "clearing" => ours[hive] = {}
      BY <3>1
    <3> HIDE DEF step, hive
    <3> QED BY <1>4, <2>0, <2>1, <2>2, <3>2, <3>3
            DEF ClaimsFit, GapClean, BackFirst, Adding, Removing, InGap
  <2> QED BY <1>1, <1>2, <2>1, <2>2, <2>3, <2>4, <2>5, ReadingStep DEF Fits
<1> QED BY <1>5, <1>6, <1>7, <1>8


LEMMA GoesReading ==
    ASSUME IInv, NEW p \in Proc, pc[p] \in Repairing, NEW step \in Repairing, Goes(p, step),
           Keeps, JobFits(p)', Planned(p)', Journaled(p)', GapClean(p)', BackFirst(p)'
    PROVE  IInv'
<1>1. ProcsOK /\ Undone(p) /\ pc[p] \notin Editing \cup {"idle"}
  BY TypeSplits, Places DEF IInv, Fits
<1>2. ProcsOK' /\ OthersStay(p) /\ pc'[p] = step /\ job'[p] = job[p]
  BY <1>1, GoesMoves
<1>3. /\ pc'[p] \notin {"withdraw", "legacy", "removed", "clearing", "claiming", "idle"}
      /\ pc'[p] \notin Editing /\ ~Adding(p)' /\ ~Removing(p)'
  BY <1>2 DEF Repairing, Editing, Adding, Removing
<1>4. Undone(p)'
  BY <1>1, <1>2, <1>3 DEF Undone, OthersStay
<1>5. ClaimsKnown(p)' /\ ClaimsFit(p)'
  BY <1>3 DEF ClaimsKnown, ClaimsFit
<1> QED BY <1>1, <1>2, <1>4, <1>5, ReadingStep DEF Fits

LEMMA ReadForRepairStep ==
    ASSUME IInv, NEW p \in Proc, ReadForRepair(p)
    PROVE  IInv'
<1> DEFINE original == path["machine"]
           next == Without(original, {Store})
           what == JobRepairs(job[p], original, next)
<1>1. /\ ProcsOK /\ FilesOK /\ Keeps /\ Fits(p) /\ JobFits(p) /\ Undone(p)
      /\ pc[p] = "duplicate" /\ job[p].command = "add" /\ job[p].hive = "machine"
      /\ job[p] \in Job
  BY TypeSplits DEF IInv, ReadForRepair, Fits, JobFits, ProcsOK
<1>2. pc[p] \in Between /\ pc[p] \notin Editing \cup {"idle"}
  BY <1>1 DEF Between, Editing
<1>3. original \in Seq(Item) /\ next \in Seq(Item)
  BY <1>1, Places, WithoutType DEF FilesOK
<1>4. /\ what \in Job /\ what.command = "add" /\ what.hive = "machine"
      /\ what.alone = job[p].alone /\ what.original = original /\ what.next = next
  <2> HIDE DEF next, original
  <2> QED BY <1>1, <1>3, JobRepairsIs
<1>5. \/ Ends(p)
      \/ /\ Store \in Elements(original) /\ store_lock = None /\ store_lock' = p
         /\ UNCHANGED lock
         /\ pc' = [pc EXCEPT ![p] = "intending"] /\ job' = [job EXCEPT ![p] = what]
  BY DEF ReadForRepair, JobRepairs
<1> HIDE DEF what
<1>6. CASE Ends(p)
  BY <1>1, <1>2, <1>6, EndsReading
<1>7. CASE ~Ends(p)
  <2>1. ProcsOK' /\ OthersStay(p) /\ pc'[p] = "intending" /\ job'[p] = what
    <3>1. "intending" \in Repairing
      BY DEF Repairing
    <3> QED BY <1>1, <1>2, <1>4, <1>5, <1>7, <3>1, StoreLocksMoves
  <2>2. JobFits(p)' /\ Planned(p)' /\ Journaled(p)' /\ ClaimsKnown(p)'
    BY <1>4, <1>5, <1>7, <2>1 DEF JobFits, Planned, Journaled, ClaimsKnown, Adding, Removing
  <2>3. Undone(p)'
    BY <1>1, <1>4, <2>1, Places DEF Undone, Removing, OthersStay, Editing
  <2>4. ClaimsFit(p)' /\ GapClean(p)' /\ BackFirst(p)'
    BY <2>1 DEF ClaimsFit, GapClean, BackFirst, Adding, Removing, InGap
  <2> QED BY <1>1, <1>2, <2>1, <2>2, <2>3, <2>4, ReadingStep DEF Fits
<1> QED BY <1>6, <1>7

LEMMA CompareRepairStep ==
    ASSUME IInv, NEW p \in Proc, CompareRepair(p)
    PROVE  IInv'
<1>1. /\ ProcsOK /\ Keeps /\ JobFits(p) /\ Planned(p) /\ Journaled(p) /\ pc[p] = "removing"
      /\ pc[p] \in Repairing /\ "swapping" \in Repairing
  BY TypeSplits DEF IInv, CompareRepair, Fits, Repairing
<1>2. CASE Ends(p)
  BY <1>1, <1>2, Places, EndsReading
<1>3. CASE Goes(p, "swapping") /\ path["machine"] = job[p].original
  <2>1. pc'[p] = "swapping" /\ job'[p] = job[p] /\ UNCHANGED <<path, store>>
    BY <1>1, <1>3, GoesMoves DEF Keeps, files
  <2>2. job[p].hive = "machine" /\ job[p].command = "add"
    BY <1>1 DEF JobFits
  <2>3. JobFits(p)' /\ Planned(p)' /\ Journaled(p)' /\ GapClean(p)' /\ BackFirst(p)'
    BY <1>1, <1>3, <2>1, <2>2
       DEF JobFits, Planned, Journaled, GapClean, BackFirst, Adding, Removing
  <2> QED BY <1>1, <1>3, <2>3, GoesReading
<1> QED BY <1>2, <1>3 DEF CompareRepair

LEMMA StartRemoveStep ==
    ASSUME IInv, NEW p \in Proc, StartRemove(p)
    PROVE  IInv'
<1> DEFINE step == IF claims["machine"] = {} /\ ~Owned THEN "legacy" ELSE "restore"
<1>1. /\ Keeps /\ JobFits(p) /\ pc[p] = "begin" /\ job[p].command = "remove"
      /\ job[p].hive = "machine" /\ GoesFree(p, step)
  BY DEF IInv, StartRemove, Fits, JobFits
<1>2. /\ pc[p] \notin Editing \cup {"idle"} /\ step \in Between
      /\ step \in {"legacy", "restore"}
  BY <1>1 DEF Between, Editing
<1>3. step = "legacy" => ~Owned /\ claims["machine"] = {}
  OBVIOUS
<1> HIDE DEF step
<1> QED BY <1>1, <1>2, <1>3, FreeReading

LEMMA ReadForRestoreStep ==
    ASSUME IInv, NEW p \in Proc, ReadForRestore(p)
    PROVE  IInv'
<1> DEFINE original == path["machine"]
           next == Restoration(original)
           what == JobRepairs(job[p], original, next)
<1>1. /\ ProcsOK /\ FilesOK /\ Keeps /\ Fits(p) /\ JobFits(p) /\ Undone(p)
      /\ pc[p] = "restore" /\ job[p].command = "remove" /\ job[p].hive = "machine"
      /\ job[p] \in Job
  BY TypeSplits DEF IInv, ReadForRestore, Fits, JobFits, ProcsOK
<1>2. pc[p] \in Between /\ pc[p] \notin Editing \cup {"idle"}
  BY <1>1 DEF Between, Editing
<1>3. original \in Seq(Item) /\ store.before \in Seq(Item)
  BY <1>1, Places DEF FilesOK
<1>4. \/ ~Owned /\ GoesFree(p, "withdraw")
      \/ Ends(p)
      \/ /\ Owned /\ store_lock = None /\ store_lock' = p /\ UNCHANGED lock
         /\ \/ /\ NothingToRestore(original)
               /\ pc' = [pc EXCEPT ![p] = "recording"] /\ job' = [job EXCEPT ![p] = job[p]]
            \/ /\ ~NothingToRestore(original)
               /\ pc' = [pc EXCEPT ![p] = "restoring"] /\ job' = [job EXCEPT ![p] = what]
  <2>1. job = [job EXCEPT ![p] = job[p]]
    BY <1>1 DEF ProcsOK
  <2> QED BY <2>1 DEF ReadForRestore, JobRepairs
<1>5. CASE ~Owned /\ GoesFree(p, "withdraw")
  <2>1. "withdraw" \in Between
    BY DEF Between
  <2> QED BY <1>1, <1>2, <1>5, <2>1, FreeReading
<1>6. CASE Ends(p)
  BY <1>1, <1>2, <1>6, EndsReading
<1>7. ASSUME Owned, store_lock = None, store_lock' = p, UNCHANGED lock,
             NEW step \in {"recording", "restoring"}, NEW new \in Job,
             new.command = "remove", new.hive = "machine", new.alone = job[p].alone,
             step = "restoring" => Store \notin Elements(new.original)
                                   /\ new.next = Restoration(new.original),
             step = "recording" => ~taken,
             pc' = [pc EXCEPT ![p] = step], job' = [job EXCEPT ![p] = new]
      PROVE  IInv'
  <2>1. step \in Repairing
    BY DEF Repairing
  <2>2. ProcsOK' /\ OthersStay(p) /\ pc'[p] = step /\ job'[p] = new
    BY <1>1, <1>2, <1>7, <2>1, StoreLocksMoves
  <2>3. UNCHANGED <<store, taken>> /\ Owned'
    BY <1>1, <1>7 DEF Keeps, files, ghosts, Owned
  <2>4. Restoration(new.original)' = Restoration(new.original)
    BY <2>2, <2>3 DEF Restoration
  <2>5. JobFits(p)' /\ Planned(p)' /\ Journaled(p)' /\ ClaimsKnown(p)'
    <3>1. Planned(p)'
      BY <1>7, <2>2, <2>3 DEF Planned, Adding, Removing, Restoration
    <3> QED BY <1>7, <2>2, <2>3, <3>1
            DEF JobFits, Journaled, ClaimsKnown, Adding, Repairing
  <2>6. Undone(p)'
    BY <1>1, <1>7, <2>1, <2>2, Places DEF Undone, Removing, OthersStay
  <2>7. ClaimsFit(p)' /\ GapClean(p)' /\ BackFirst(p)'
    BY <1>7, <2>2, <2>3 DEF ClaimsFit, GapClean, BackFirst, Adding, Removing, InGap
  <2> QED BY <1>1, <1>2, <2>2, <2>5, <2>6, <2>7, ReadingStep DEF Fits
<1>8. CASE /\ Owned /\ store_lock = None /\ store_lock' = p /\ UNCHANGED lock
           /\ NothingToRestore(original)
           /\ pc' = [pc EXCEPT ![p] = "recording"] /\ job' = [job EXCEPT ![p] = job[p]]
  <2>1. ~taken
    BY <1>8 DEF NothingToRestore, Owned, IInv, Present
  <2> QED BY <1>1, <1>7, <1>8, <2>1
<1>9. CASE /\ Owned /\ store_lock = None /\ store_lock' = p /\ UNCHANGED lock
           /\ ~NothingToRestore(original)
           /\ pc' = [pc EXCEPT ![p] = "restoring"] /\ job' = [job EXCEPT ![p] = what]
  <2>1. Store \notin Elements(original)
    BY <1>9 DEF NothingToRestore
  <2>2. next \in Seq(Item)
    BY <1>3, <1>9, RestorationIs DEF IInv, OwnedHasStore
  <2>3. /\ what \in Job /\ what.command = "remove" /\ what.hive = "machine"
        /\ what.alone = job[p].alone /\ what.original = original /\ what.next = next
    <3>1. job[p] \in Job /\ original \in Seq(Item) /\ next \in Seq(Item)
      BY <1>1, <1>3, <2>2
    <3>2. job[p].command = "remove" /\ job[p].hive = "machine"
      BY <1>1
    <3> HIDE DEF next, original
    <3> QED BY <3>1, <3>2, JobRepairsIs
  <2> HIDE DEF what
  <2> QED BY <1>7, <1>9, <2>1, <2>3
<1> HIDE DEF what
<1> QED BY <1>4, <1>5, <1>6, <1>8, <1>9

LEMMA CompareRestoreStep ==
    ASSUME IInv, NEW p \in Proc, CompareRestore(p)
    PROVE  IInv'
<1>1. /\ ProcsOK /\ Keeps /\ JobFits(p) /\ Planned(p) /\ Journaled(p) /\ pc[p] = "restoring"
      /\ pc[p] \in Repairing /\ "returning" \in Repairing
  BY TypeSplits DEF IInv, CompareRestore, Fits, Repairing
<1>2. CASE Ends(p)
  BY <1>1, <1>2, Places, EndsReading
<1>3. CASE Goes(p, "returning") /\ path["machine"] = job[p].original
  <2>1. pc'[p] = "returning" /\ job'[p] = job[p] /\ UNCHANGED <<path, store>>
    BY <1>1, <1>3, GoesMoves DEF Keeps, files
  <2>2. job[p].hive = "machine" /\ job[p].command = "remove"
    BY <1>1 DEF JobFits
  <2>3. Restoration(job[p].original)' = Restoration(job[p].original)
    BY <2>1 DEF Restoration
  <2>4. JobFits(p)' /\ Planned(p)' /\ Journaled(p)' /\ GapClean(p)' /\ BackFirst(p)'
    <3>1. Planned(p)'
      BY <1>1, <2>1, <2>3 DEF Planned, Adding, Removing
    <3> QED BY <1>1, <1>3, <2>1, <2>2, <3>1
            DEF JobFits, Journaled, GapClean, BackFirst, Owned
  <2> QED BY <1>1, <1>3, <2>4, GoesReading
<1> QED BY <1>2, <1>3 DEF CompareRestore

LEMMA RemoveSucceedsStep ==
    ASSUME IInv, NEW p \in Proc, RemoveSucceeds(p)
    PROVE  IInv'
<1>1. pc[p] \notin Editing \cup {"idle"} /\ Ends(p) /\ Keeps
  BY DEF RemoveSucceeds, Editing
<1> QED BY <1>1, EndsReading


-----------------------------------------------------------------------------
(* The steps that change a journal *)

LEMMA AddedIs ==
    ASSUME NEW s \in Seq(Item)
    PROVE  LET next == Without(s, Own) \o <<Bin, Shims>>
           IN  /\ next \in Seq(Item) /\ Elements(next) = Elements(s) \cup Own
               /\ \A set : Own \subseteq set => Without(next, set) = Without(s, set)
<1> DEFINE left == Without(s, Own)
           pair == <<Bin, Shims>>
<1>1. left \in Seq(Item) /\ Elements(left) = Elements(s) \ Own
  BY WithoutType
<1>2. pair \in Seq(Item) /\ Elements(pair) = Own
  BY DEF Item, Own, Elements
<1> HIDE DEF left, pair
<1>3. left \o pair \in Seq(Item) /\ Elements(left \o pair) = Elements(s) \cup Own
  BY <1>1, <1>2, ConcatProperties, ElementsConcat
<1>4. ASSUME NEW set, Own \subseteq set  PROVE Without(left \o pair, set) = Without(s, set)
  <2>1. Without(left \o pair, set) = Without(left, set) \o Without(pair, set)
    BY <1>1, <1>2, WithoutConcat
  <2>2. Without(left, set) = Without(s, set)
    BY <1>4, WithoutTwice DEF left
  <2>3. Without(pair, set) = <<>>
    <3>1. <<>> \in Seq(Item) /\ <<Bin>> = Append(<<>>, Bin) /\ pair = Append(<<Bin>>, Shims)
      BY EmptySeq DEF pair
    <3>2. <<Bin>> \in Seq(Item) /\ Bin \in Item /\ Shims \in Item /\ Bin \in set /\ Shims \in set
      BY <1>4 DEF Item, Own
    <3>3. Without(<<Bin>>, set) = <<>>
      BY <3>1, <3>2, WithoutAppend, WithoutEmpty
    <3> QED BY <3>1, <3>2, <3>3, WithoutAppend
  <2>4. Without(s, set) \in Seq(Item)
    BY WithoutType
  <2> QED BY <2>1, <2>2, <2>3, <2>4, ConcatEmptySeq
<1> QED BY <1>3, <1>4 DEF left, pair

LEMMA FailsTypes ==
    ASSUME failures \in 0..MaxFailures, edits \in 0..MaxEdits, Fails
    PROVE  failures' \in 0..MaxFailures /\ edits' \in 0..MaxEdits
BY PathAssumption DEF Fails

LEMMA ClaimStep ==
    ASSUME IInv, NEW p \in Proc, Claim(p)
    PROVE  IInv'
<1> DEFINE original == job[p].original
           added == claims["machine"] \cup (Own \ Elements(original))
<1>1. /\ ProcsOK /\ FilesOK /\ Fits(p) /\ JobFits(p) /\ Undone(p) /\ Planned(p)
      /\ ClaimsKnown(p) /\ pc[p] = "claiming"
      /\ job[p] \in Job /\ pc[p] \in Editing /\ pc[p] # "idle"
      /\ job[p].command = "add" /\ job[p].hive = "machine"
  BY TypeSplits DEF IInv, Claim, Fits, JobFits, ProcsOK, Editing
<1>2. /\ claims' = [claims EXCEPT !["machine"] = added]
      /\ UNCHANGED <<path, store, ours, taken, stale, raced, failures, edits>>
  BY DEF Claim, Claimed, ghosts, events
<1>3. claims["machine"] = job[p].previous /\ claims["machine"] \in SUBSET Own
  BY <1>1, Places DEF ClaimsKnown, FilesOK
<1>4. /\ claims'["machine"] = added /\ \A h \in Hive : h # "machine" => claims'[h] = claims[h]
      /\ FilesOK' /\ Confined(p)
  BY <1>1, <1>2, <1>3, Places DEF FilesOK, Confined
<1>5. OwnedHasStore' /\ StoreIsRecoverable'
  BY <1>2 DEF IInv, OwnedHasStore, StoreIsRecoverable, Owned
<1>6. ASSUME ~raced
      PROVE  /\ ours["machine"] \subseteq job[p].previous
             /\ job[p].previous \subseteq ours["machine"] \cup stale["machine"]
  BY <1>1, <1>6 DEF Fits, ClaimsFit
<1>7. original \in Seq(Item) /\ job[p].next = Without(original, Own) \o <<Bin, Shims>>
  BY <1>1, JobFields DEF Planned
<1>8. CASE job[p].next = original /\ GoesFree(p, "duplicate")
  <2>1. "duplicate" \in Between /\ "duplicate" \notin Editing
    BY DEF Between, Editing
  <2>2. /\ ProcsOK' /\ OthersStay(p) /\ pc'[p] = "duplicate"
        /\ job'[p].command = "add" /\ job'[p].hive = "machine"
        /\ job'[p].alone = job[p].alone
    BY <1>1, <1>8, <2>1, FreeMoves
  <2>3. Own \subseteq Elements(original)
    BY <1>7, <1>8, AddedIs
  <2>4. claims'["machine"] = job[p].previous
    BY <1>3, <1>4, <2>3
  <2>5. JobFits(p)'
    BY <2>2 DEF JobFits
  <2>6. Undone(p)'
    BY <1>1, <2>1, <2>2, Places DEF Undone, Removing, OthersStay
  <2>7. Fits(p)'
    BY <2>1, <2>2, <2>5, <2>6, BetweenFits
  <2> QED BY <1>1, <1>2, <1>4, <1>5, <1>6, <2>2, <2>4, <2>7, TypeSplits, QuietStep
<1>9. CASE Goes(p, "comparing")
  <2>1. ProcsOK' /\ OthersStay(p) /\ pc'[p] = "comparing" /\ job'[p] = job[p]
    <3>1. "comparing" \in Editing
      BY DEF Editing
    <3> QED BY <1>1, <1>9, <3>1, GoesMoves
  <2>2. JobFits(p)' /\ Planned(p)' /\ Journaled(p)'
    BY <1>1, <1>7, <2>1 DEF JobFits, Planned, Journaled, Adding, Removing, Repairing
  <2>3. ClaimsKnown(p)'
    BY <1>3, <1>4, <2>1 DEF ClaimsKnown, Adding
  <2>4. Undone(p)'
    BY <1>1, <2>1, Places DEF Undone, Removing, OthersStay
  <2>5. ~raced => ClaimsFit(p)' /\ GapClean(p)' /\ BackFirst(p)'
    BY <1>1, <1>2, <1>6, <2>1 DEF ClaimsFit, GapClean, BackFirst, InGap, Removing
  <2>6. lock'["machine"] # None
    BY <1>1, <2>1, Places, PathAssumption DEF ProcsOK, Editing
  <2>7. Fits(p)'
    BY <1>2, <2>2, <2>3, <2>4, <2>5 DEF Fits
  <2>8. \A h \in Hive : ~raced /\ pc[p] \in Editing /\ job[p].hive = h =>
              /\ ours[h] \subseteq claims'[h]
              /\ lock'[h] = None => claims'[h] \subseteq ours[h] \cup stale'[h]
    BY <1>1, <1>3, <1>4, <1>6, <2>6
  <2> QED BY <1>1, <1>2, <1>4, <1>5, <2>1, <2>7, <2>8, TypeSplits, QuietStep
<1> QED BY <1>8, <1>9 DEF Claim

\* A command that gives up takes its claims back.
LEMMA RollBackStep ==
    ASSUME IInv, NEW p \in Proc, pc[p] \in {"comparing", "setting"}, Ends(p), RollBack(p),
           UNCHANGED <<path, store, ours, taken, raced>>,
           failures' \in 0..MaxFailures, edits' \in 0..MaxEdits
    PROVE  IInv'
<1>1. /\ ProcsOK /\ FilesOK /\ Fits(p) /\ JobFits(p) /\ pc[p] \in Editing /\ pc[p] # "idle"
      /\ job[p] \in Job /\ job[p].previous \in SUBSET Own /\ job[p].hive \in Hive
      /\ job[p].command \in {"add", "remove"}
  BY TypeSplits, JobFields DEF IInv, Fits, ProcsOK, Editing
<1>2. ProcsOK' /\ OthersStay(p) /\ pc'[p] = "idle" /\ job'[p] = NoJob
  BY <1>1, EndsMoves
<1>3. Fits(p)'
  BY <1>2, IdleFits, NoJobFits
<1>4. OwnedHasStore' /\ StoreIsRecoverable'
  BY DEF IInv, OwnedHasStore, StoreIsRecoverable, Owned
<1>5. CASE job[p].command = "add"
  <2>1. /\ claims' = [claims EXCEPT !["machine"] = job[p].previous]
        /\ stale' = [stale EXCEPT !["machine"] = @ \cap job[p].previous]
        /\ job[p].hive = "machine" /\ Adding(p)
    BY <1>1, <1>5 DEF RollBack, JobFits, Adding
  <2>2. /\ claims'["machine"] = job[p].previous
        /\ stale'["machine"] = stale["machine"] \cap job[p].previous
        /\ \A h \in Hive : h # "machine" => claims'[h] = claims[h] /\ stale'[h] = stale[h]
        /\ FilesOK' /\ Confined(p)
    BY <1>1, <2>1, Places DEF FilesOK, Confined
  <2>3. ~raced => /\ ours["machine"] \subseteq job[p].previous
                  /\ job[p].previous \subseteq ours["machine"] \cup stale["machine"]
    BY <1>1, <2>1 DEF Fits, ClaimsFit
  <2> QED BY <1>1, <1>2, <1>3, <1>4, <2>1, <2>2, <2>3, TypeSplits, QuietStep
<1>6. CASE job[p].command = "remove"
  <2>1. UNCHANGED <<claims, stale>> /\ Removing(p)
    BY <1>1, <1>6 DEF RollBack, Removing
  <2>2. FilesOK' /\ Confined(p)
    BY <1>1, <2>1 DEF FilesOK, Confined
  <2>3. ~raced => /\ claims[job[p].hive] \subseteq ours[job[p].hive] \cup stale[job[p].hive]
                  /\ ours[job[p].hive] \subseteq claims[job[p].hive]
    BY <1>1, <2>1 DEF Fits, ClaimsFit, IInv, AddedIsClaimed
  <2> QED BY <1>1, <1>2, <1>3, <1>4, <2>1, <2>2, <2>3, TypeSplits, QuietStep
<1> QED BY <1>1, <1>5, <1>6

LEMMA CompareStep ==
    ASSUME IInv, NEW p \in Proc, Compare(p)
    PROVE  IInv'
<1>1. /\ ProcsOK /\ FilesOK /\ Fits(p) /\ JobFits(p) /\ Undone(p) /\ Planned(p)
      /\ ClaimsKnown(p) /\ pc[p] = "comparing" /\ pc[p] \in Editing /\ pc[p] # "idle"
  BY TypeSplits DEF IInv, Compare, Fits, Editing
<1>2. UNCHANGED <<path, store, ours, taken, raced, failures, edits>>
  BY DEF Compare, events
<1>3. CASE Ends(p) /\ RollBack(p)
  BY <1>1, <1>2, <1>3, RollBackStep DEF FilesOK
<1>4. CASE /\ path[job[p].hive] = job[p].original
           /\ Goes(p, "setting") /\ UNCHANGED <<claims, stale>>
  <2>1. ProcsOK' /\ OthersStay(p) /\ pc'[p] = "setting" /\ job'[p] = job[p]
    <3>1. "setting" \in Editing
      BY DEF Editing
    <3> QED BY <1>1, <1>4, <3>1, GoesMoves
  <2>2. Adding(p)' = Adding(p) /\ Removing(p)' = Removing(p)
    BY <1>1, <2>1 DEF Adding, Removing
  <2>3. JobFits(p)' /\ Planned(p)' /\ Journaled(p)' /\ ClaimsKnown(p)'
    BY <1>1, <1>4, <2>1, <2>2 DEF JobFits, Planned, Journaled, ClaimsKnown, Repairing
  <2>4. Undone(p)'
    BY <1>1, <1>2, <1>4, <2>1, <2>2 DEF Undone, OthersStay, Owned, Editing
  <2>5. ~raced => ClaimsFit(p)' /\ GapClean(p)' /\ BackFirst(p)'
    BY <1>1, <1>2, <1>4, <2>1, <2>2 DEF Fits, ClaimsFit, GapClean, BackFirst
  <2>6. FilesOK' /\ Confined(p)
    BY <1>1, <1>2, <1>4 DEF FilesOK, Confined
  <2>7. OwnedHasStore' /\ StoreIsRecoverable'
    BY <1>2 DEF IInv, OwnedHasStore, StoreIsRecoverable, Owned
  <2>8. Fits(p)'
    BY <1>2, <2>3, <2>4, <2>5 DEF Fits
  <2>9. \A h \in Hive : ~raced /\ pc[p] \in Editing /\ job[p].hive = h =>
              /\ ours[h] \subseteq claims'[h]
              /\ lock'[h] = None => claims'[h] \subseteq ours[h] \cup stale'[h]
    <3>1. \A h \in Hive : job[p].hive = h => lock'[h] # None
      BY <2>1, PathAssumption DEF ProcsOK, Editing
    <3> QED BY <1>4, <3>1 DEF IInv, AddedIsClaimed
  <2> QED BY <1>1, <1>2, <1>4, <2>1, <2>6, <2>7, <2>8, <2>9, TypeSplits, QuietStep
<1> QED BY <1>3, <1>4 DEF Compare

LEMMA SetFailsStep ==
    ASSUME IInv, NEW p \in Proc, SetFails(p)
    PROVE  IInv'
<1>1. failures \in 0..MaxFailures /\ edits \in 0..MaxEdits
  BY DEF IInv, TypeOK
<1>2. failures' \in 0..MaxFailures /\ edits' \in 0..MaxEdits
  BY <1>1, FailsTypes DEF SetFails
<1> QED BY <1>2, RollBackStep DEF SetFails

LEMMA ClearStep ==
    ASSUME IInv, NEW p \in Proc, Clear(p)
    PROVE  IInv'
<1> DEFINE hive == job[p].hive
           step == IF hive = "user" THEN "removed" ELSE "legacy"
<1>1. /\ ProcsOK /\ FilesOK /\ Fits(p) /\ JobFits(p) /\ Undone(p)
      /\ pc[p] = "clearing" /\ pc[p] \in Editing /\ pc[p] # "idle"
      /\ job[p].command = "remove" /\ hive \in Hive
  BY TypeSplits, JobFields DEF IInv, Clear, Fits, JobFits, Editing, ProcsOK
<1>2. /\ claims' = [claims EXCEPT ![hive] = {}] /\ stale' = [stale EXCEPT ![hive] = {}]
      /\ GoesFree(p, step)
      /\ UNCHANGED <<path, store, ours, taken, raced, failures, edits>>
  BY DEF Clear, events
<1>3. /\ claims'[hive] = {} /\ stale'[hive] = {}
      /\ \A h \in Hive : h # hive => claims'[h] = claims[h] /\ stale'[h] = stale[h]
      /\ FilesOK' /\ Confined(p)
  <2> HIDE DEF step, hive
  <2>1. claims'[hive] = {} /\ stale'[hive] = {}
      /\ \A h \in Hive : h # hive => claims'[h] = claims[h] /\ stale'[h] = stale[h]
    BY <1>1, <1>2 DEF FilesOK
  <2>2. FilesOK'
    BY <1>1, <1>2 DEF FilesOK
  <2> QED BY <1>1, <1>2, <2>1, <2>2 DEF Confined, hive
<1>4. step \in {"removed", "legacy"} /\ step \in Between
  BY DEF Between
<1>5. /\ ProcsOK' /\ OthersStay(p) /\ pc'[p] = step
      /\ job'[p].command = "remove" /\ job'[p].hive = hive /\ job'[p].alone = job[p].alone
  <2> HIDE DEF step
  <2> QED BY <1>1, <1>2, <1>4, FreeMoves
<1>6. JobFits(p)'
  BY <1>4, <1>5 DEF JobFits, Repairing
<1>7. Undone(p)'
  <2>1. job[p].alone => ~Owned' /\ \A q \in Proc \ {p} : pc'[q] = "idle"
    BY <1>1, <1>2, <1>5 DEF Undone, OthersStay, Owned
  <2>2. job[p].alone => claims'["machine"] = {}
    BY <1>1, <1>3, Places DEF Undone
  <2>3. step = "removed" => claims'["user"] = {}
    BY <1>3
  <2>4. pc'[p] \notin Editing /\ ~Removing(p)'
    BY <1>4, <1>5, Places DEF Removing
  <2> HIDE DEF step
  <2> QED BY <1>4, <1>5, <2>1, <2>2, <2>3, <2>4 DEF Undone
<1>8. Fits(p)'
  BY <1>4, <1>5, <1>6, <1>7, BetweenFits
<1>9. OwnedHasStore' /\ StoreIsRecoverable'
  BY <1>2 DEF IInv, OwnedHasStore, StoreIsRecoverable, Owned
<1>10. ~raced => ours[hive] = {}
  BY <1>1 DEF Fits, ClaimsFit
<1>11. \A h \in Hive : stale'[h] = stale[h] \/ (pc[p] \in Editing /\ job[p].hive = h)
  BY <1>1, <1>3
<1> QED BY <1>1, <1>2, <1>3, <1>5, <1>8, <1>9, <1>10, <1>11, TypeSplits, QuietStep

LEMMA StopStep ==
    ASSUME IInv, NEW p \in Proc, Stop(p)
    PROVE  IInv'
<1> DEFINE hive == job[p].hive
<1>1. /\ ProcsOK /\ FilesOK /\ Fits(p) /\ JobFits(p) /\ pc[p] # "idle" /\ hive \in Hive
      /\ Ends(p) /\ UNCHANGED <<path, claims, store, ours, taken, raced>>
  BY TypeSplits, JobFields DEF IInv, Stop, Fits, ProcsOK, files
<1>2. ProcsOK' /\ OthersStay(p) /\ pc'[p] = "idle" /\ job'[p] = NoJob
  BY <1>1, EndsMoves
<1>3. Fits(p)'
  BY <1>2, IdleFits, NoJobFits
<1>4. OwnedHasStore' /\ StoreIsRecoverable'
  BY <1>1 DEF IInv, OwnedHasStore, StoreIsRecoverable, Owned
<1>5. failures' \in 0..MaxFailures /\ edits' \in 0..MaxEdits
  BY <1>1, FailsTypes DEF Stop, FilesOK
<1>6. Confined(p) /\ \A h \in Hive : ~raced => ours[h] \subseteq claims'[h]
  BY <1>1 DEF Confined, IInv, AddedIsClaimed
<1>7. CASE pc[p] \in {"comparing", "setting", "clearing"}
  <2>1. stale' = [stale EXCEPT ![hive] = claims[hive]] /\ pc[p] \in Editing
    BY <1>7 DEF Stop, Editing
  <2>2. stale'[hive] = claims[hive] /\ \A h \in Hive : h # hive => stale'[h] = stale[h]
    BY <1>1, <2>1 DEF FilesOK
  <2>3. FilesOK'
    BY <1>1, <1>5, <2>1 DEF FilesOK
  <2>4. \A h \in Hive : stale'[h] = stale[h] \/ (pc[p] \in Editing /\ job[p].hive = h)
    BY <2>1, <2>2
  <2>5. claims'[hive] \subseteq stale'[hive]
    BY <1>1, <2>2
  <2> QED BY <1>1, <1>2, <1>3, <1>4, <1>6, <2>3, <2>4, <2>5, TypeSplits, QuietStep
<1>8. CASE pc[p] \notin {"comparing", "setting", "clearing"}
  <2>1. stale' = stale
    BY <1>8 DEF Stop
  <2>2. FilesOK'
    BY <1>1, <1>5, <2>1 DEF FilesOK
  <2>3. ~raced /\ pc[p] \in Editing => claims[hive] \subseteq ours[hive] \cup stale[hive]
    <3>1. pc[p] \in Editing => pc[p] = "claiming"
      BY <1>8 DEF Editing
    <3>2. pc[p] = "claiming" => hive = "machine" /\ claims["machine"] = job[p].previous
      BY <1>1 DEF JobFits, Fits, ClaimsKnown
    <3> QED BY <1>1, <3>1, <3>2 DEF Fits, ClaimsFit
  <2>4. \A h \in Hive : ~raced /\ pc[p] \in Editing /\ job[p].hive = h =>
              /\ ours[h] \subseteq claims'[h]
              /\ lock'[h] = None => claims'[h] \subseteq ours[h] \cup stale'[h]
    BY <1>1, <1>6, <2>1, <2>3
  <2> QED BY <1>1, <1>2, <1>3, <1>4, <1>6, <2>1, <2>2, <2>4, TypeSplits, QuietStep
<1> QED BY <1>7, <1>8


LEMMA IntendStep ==
    ASSUME IInv, NEW p \in Proc, Intend(p)
    PROVE  IInv'
<1> DEFINE original == job[p].original
<1>1. /\ ProcsOK /\ FilesOK /\ Fits(p) /\ JobFits(p) /\ Undone(p) /\ Planned(p)
      /\ pc[p] = "intending" /\ pc[p] \in Repairing /\ pc[p] \notin Editing \cup {"idle"}
      /\ "removing" \in Repairing /\ job[p].command = "add" /\ job[p].hive = "machine"
  BY TypeSplits DEF IInv, Intend, Fits, JobFits, Repairing, Editing
<1>2. /\ store' = [phase |-> "Pending", before |-> original] /\ Goes(p, "removing")
      /\ UNCHANGED <<path, claims, ours, taken, stale, raced, failures, edits>>
  BY DEF Intend, ghosts, events
<1>3. ProcsOK' /\ OthersStay(p) /\ pc'[p] = "removing" /\ job'[p] = job[p]
  BY <1>1, <1>2, GoesMoves
<1>4. original \in Seq(Item) /\ Store \in Elements(original)
  BY <1>1, JobFields DEF Planned, ProcsOK
<1>5. FilesOK' /\ Confined(p)
  BY <1>1, <1>2, <1>4 DEF FilesOK, Confined, Phase
<1>6. OwnedHasStore' /\ StoreIsRecoverable'
  BY <1>2, <1>4 DEF OwnedHasStore, StoreIsRecoverable, Owned
<1>7. JobFits(p)' /\ Planned(p)' /\ Journaled(p)' /\ ClaimsKnown(p)'
  BY <1>1, <1>2, <1>3 DEF JobFits, Planned, Journaled, ClaimsKnown, Adding, Removing
<1>8. Undone(p)'
  BY <1>1, <1>3, Places DEF Undone, Removing, OthersStay, Editing
<1>9. ClaimsFit(p)' /\ GapClean(p)' /\ BackFirst(p)'
  BY <1>3 DEF ClaimsFit, GapClean, BackFirst, Adding, Removing, InGap
<1> QED BY <1>1, <1>2, <1>3, <1>5, <1>6, <1>7, <1>8, <1>9, TypeSplits, QuietStep DEF Fits

LEMMA MarkAppliedStep ==
    ASSUME IInv, NEW p \in Proc, MarkApplied(p)
    PROVE  IInv'
<1>1. /\ ProcsOK /\ FilesOK /\ pc[p] = "applying"
      /\ pc[p] \in Repairing /\ pc[p] \notin Editing \cup {"idle"}
      /\ store.phase = "Pending" /\ Owned
  BY TypeSplits DEF IInv, MarkApplied, Fits, Journaled, Repairing, Editing, Owned
<1>2. /\ store' = [store EXCEPT !.phase = "Applied"] /\ Ends(p)
      /\ UNCHANGED <<path, claims, ours, taken, stale, raced, failures, edits>>
  BY DEF MarkApplied, ghosts, events
<1>3. ProcsOK' /\ OthersStay(p) /\ pc'[p] = "idle" /\ job'[p] = NoJob
  BY <1>1, <1>2, EndsMoves
<1>4. /\ store' \in [phase : Phase, before : Seq(Item)]
      /\ store'.phase = "Applied" /\ store'.before = store.before
  BY <1>1, <1>2 DEF FilesOK, Phase
<1>5. FilesOK' /\ Confined(p)
  BY <1>1, <1>2, <1>4 DEF FilesOK, Confined
<1>6. Store \in Elements(store.before)
  BY <1>1 DEF IInv, OwnedHasStore
<1>7. OwnedHasStore' /\ StoreIsRecoverable'
  BY <1>4, <1>6 DEF OwnedHasStore, StoreIsRecoverable
<1>8. Fits(p)'
  BY <1>3, IdleFits, NoJobFits
<1> QED BY <1>1, <1>2, <1>3, <1>5, <1>7, <1>8, TypeSplits, QuietStep

LEMMA MarkRestoredStep ==
    ASSUME IInv, NEW p \in Proc, MarkRestored(p)
    PROVE  IInv'
<1>1. /\ ProcsOK /\ FilesOK /\ Fits(p) /\ JobFits(p) /\ Undone(p) /\ pc[p] = "recording"
      /\ pc[p] \in Repairing /\ pc[p] \notin Editing \cup {"idle"}
      /\ job[p].command = "remove" /\ job[p].hive = "machine"
  BY TypeSplits DEF IInv, MarkRestored, Fits, JobFits, Repairing, Editing
<1>2. /\ store' = [store EXCEPT !.phase = "Restored"] /\ GoesFree(p, "withdraw")
      /\ UNCHANGED <<path, claims, ours, taken, stale, raced, failures, edits>>
  BY DEF MarkRestored, ghosts, events
<1>3. "withdraw" \in Between /\ "withdraw" \notin Editing
  BY DEF Between, Editing
<1>4. /\ ProcsOK' /\ OthersStay(p) /\ pc'[p] = "withdraw"
      /\ job'[p].command = "remove" /\ job'[p].hive = "machine"
      /\ job'[p].alone = job[p].alone
  BY <1>1, <1>2, <1>3, FreeMoves
<1>5. /\ store' \in [phase : Phase, before : Seq(Item)]
      /\ store'.phase = "Restored" /\ ~Owned'
  BY <1>1, <1>2 DEF FilesOK, Phase, Owned
<1>6. FilesOK' /\ Confined(p)
  BY <1>1, <1>2, <1>5 DEF FilesOK, Confined
<1>7. ~raced => ~taken
  BY <1>1 DEF Fits, BackFirst
<1>8. OwnedHasStore' /\ StoreIsRecoverable'
  BY <1>2, <1>5, <1>7 DEF OwnedHasStore, StoreIsRecoverable
<1>9. JobFits(p)'
  BY <1>4 DEF JobFits
<1>10. Undone(p)'
  BY <1>1, <1>3, <1>4, <1>5 DEF Undone, Removing, OthersStay
<1>11. Fits(p)'
  BY <1>3, <1>4, <1>9, <1>10, BetweenFits
<1> QED BY <1>1, <1>2, <1>4, <1>6, <1>8, <1>11, TypeSplits, QuietStep

-----------------------------------------------------------------------------
(* The steps that write a PATH *)

\* What a write does to what PyRudder has in PATH, when nothing came in between.
LEMMA WritesIs ==
    ASSUME FilesOK, Present, NEW p \in Proc, NEW hive \in Hive, NEW next \in Seq(Item),
           Writes(p, hive, next)
    PROVE  /\ path'[hive] = next /\ \A h \in Hive : h # hive => path'[h] = path[h]
           /\ \A t : t \in ours'[hive] <=>
                     /\ t \in Own /\ t \in Elements(next)
                     /\ t \in ours[hive] \/ t \notin Elements(path[hive])
           /\ \A h \in Hive : h # hive => ours'[h] = ours[h]
           /\ path' \in [Hive -> Seq(Item)] /\ ours' \in [Hive -> SUBSET Own]
           /\ taken' \in BOOLEAN /\ raced' \in BOOLEAN
           /\ Present' /\ (raced => raced')
           /\ hive # "machine" => taken' = taken
           /\ hive = "machine" /\ taken' => /\ Store \notin Elements(next)
                                            /\ taken \/ Store \in Elements(path[hive])
           /\ ~raced' => \A q \in Proc \ {p} : InGap(q) => job[q].hive # hive
<1>1. /\ path' = [path EXCEPT ![hive] = next]
      /\ ours' = [ours EXCEPT ![hive] = {t \in Own \cap Elements(next) :
                                           t \in @ \/ t \notin Elements(path[hive])}]
      /\ taken' = IF hive = "machine"
                  THEN Store \notin Elements(next) /\ (taken \/ Store \in Elements(path[hive]))
                  ELSE taken
      /\ raced' = (raced \/ \E q \in Proc \ {p} : InGap(q) /\ job[q].hive = hive)
  BY DEF Writes
<1>2. /\ path'[hive] = next /\ \A h \in Hive : h # hive => path'[h] = path[h]
      /\ path' \in [Hive -> Seq(Item)]
  BY <1>1 DEF FilesOK
<1>3. /\ \A t : t \in ours'[hive] <=>
                /\ t \in Own /\ t \in Elements(next)
                /\ t \in ours[hive] \/ t \notin Elements(path[hive])
      /\ \A h \in Hive : h # hive => ours'[h] = ours[h]
      /\ ours' \in [Hive -> SUBSET Own]
  BY <1>1 DEF FilesOK
<1>4. /\ taken' \in BOOLEAN
      /\ hive # "machine" => taken' = taken
      /\ hive = "machine" /\ taken' => /\ Store \notin Elements(next)
                                       /\ taken \/ Store \in Elements(path[hive])
  BY <1>1 DEF FilesOK
<1>5. /\ raced' \in BOOLEAN /\ (raced => raced')
      /\ ~raced' => \A q \in Proc \ {p} : InGap(q) => job[q].hive # hive
  BY <1>1 DEF FilesOK
<1>6. Present'
  BY <1>2, <1>3, <1>4, Places DEF Present
<1> QED BY <1>2, <1>3, <1>4, <1>5, <1>6

\* A step that writes a PATH, of who has compared it.
LEMMA WritingStep ==
    ASSUME IInv, NEW p \in Proc, InGap(p), OthersStay(p), ProcsOK', FilesOK',
           UNCHANGED <<claims, store, stale>>, Present',
           raced => raced', Fits(p)',
           \A h \in Hive : h # job[p].hive => path'[h] = path[h] /\ ours'[h] = ours[h],
           ~raced' =>
              /\ \A q \in Proc \ {p} : InGap(q) => job[q].hive # job[p].hive
              /\ taken' => taken \/ pc[p] = "swapping"
              /\ pc[p] \notin Editing => ours'[job[p].hive] = ours[job[p].hive]
              /\ ours'[job[p].hive] \subseteq claims[job[p].hive]
              /\ lock'[job[p].hive] = None =>
                   claims[job[p].hive] \subseteq ours'[job[p].hive] \cup stale[job[p].hive],
           StoreIsRecoverable'
    PROVE  IInv'
<1>1. /\ ProcsOK /\ FilesOK /\ pc[p] # "idle" /\ Confined(p) /\ job[p].hive \in Hive
      /\ pc[p] \in Editing \cup Repairing
  BY TypeSplits, PlacesOf, JobFields DEF IInv, Confined, InGap, ProcsOK
<1>2. ASSUME NEW q \in Proc \ {p}  PROVE Fits(q)'
  <2>1. /\ pc'[q] = pc[q] /\ job'[q] = job[q] /\ job[q].hive \in Hive /\ Fits(q)
        /\ JobFits(q)
    BY <1>1, JobFields DEF IInv, Fits, OthersStay, ProcsOK
  <2>2. ~raced' /\ pc[q] \in Editing => ours'[job[q].hive] = ours[job[q].hive]
    BY <1>1, <2>1, Exclusive
  <2>3. ~raced' => ClaimsFit(q)'
    <3>1. Adding(q)' = Adding(q) /\ Removing(q)' = Removing(q)
      BY <2>1 DEF Adding, Removing
    <3>2. pc[q] = "claiming" \/ Adding(q) => job[q].hive = "machine"
      BY <2>1 DEF JobFits, Adding
    <3> QED BY <2>1, <2>2, <3>1, <3>2, PlacesOf DEF Fits, ClaimsFit
  <2>4. ~raced' => GapClean(q)'
    BY <2>1 DEF Fits, GapClean, InGap
  <2>5. ~raced' => BackFirst(q)'
    <3>1. pc[q] = "recording" => pc[q] \in Repairing
      BY PlacesOf
    <3>2. pc[p] = "swapping" => pc[p] \in Repairing
      BY PlacesOf
    <3>3. ~(pc[q] = "recording" /\ pc[p] = "swapping")
      BY <1>1, <3>1, <3>2, Exclusive
    <3> QED BY <2>1, <3>3 DEF Fits, BackFirst
  <2> QED BY <1>1, <2>3, <2>4, <2>5, OthersFit DEF Fits
<1>3. OwnedHasStore'
  BY DEF IInv, OwnedHasStore, Owned
<1>4. \A h \in Hive : lock'[h] = None =>
        lock[h] = None \/ (pc[p] \in Editing /\ job[p].hive = h)
  BY <1>1, PathAssumption DEF ProcsOK, OthersStay
<1>5. ClaimsSettled'
  <2> SUFFICES ASSUME ~raced', NEW h \in Hive, lock'[h] = None
               PROVE  claims[h] \subseteq ours'[h] \cup stale[h]
    BY DEF ClaimsSettled
  <2>1. CASE h = job[p].hive
    BY <2>1
  <2>2. CASE h # job[p].hive
    BY <1>4, <2>2 DEF IInv, ClaimsSettled
  <2> QED BY <2>1, <2>2
<1>6. AddedIsClaimed'
  BY DEF IInv, AddedIsClaimed
<1>7. TypeOK'
  BY TypeSplits
<1> QED BY <1>2, <1>3, <1>5, <1>6, <1>7 DEF IInv


LEMMA SetStep ==
    ASSUME IInv, NEW p \in Proc, Set(p)
    PROVE  IInv'
<1> DEFINE hive == job[p].hive
           original == job[p].original
           next == job[p].next
<1>1. /\ ProcsOK /\ FilesOK /\ Present /\ Fits(p) /\ JobFits(p) /\ Undone(p) /\ Planned(p)
      /\ ClaimsKnown(p) /\ pc[p] = "setting" /\ pc[p] \in Editing /\ InGap(p)
      /\ job[p] \in Job /\ hive \in Hive /\ original \in Seq(Item) /\ next \in Seq(Item)
      /\ job[p].command \in {"add", "remove"}
  BY TypeSplits, JobFields DEF IInv, Set, Fits, Editing, InGap, ProcsOK
<1>2. Writes(p, hive, next) /\ UNCHANGED <<claims, store, stale, failures, edits>>
  BY DEF Set, events
<1>3. /\ path'[hive] = next /\ \A h \in Hive : h # hive => path'[h] = path[h]
      /\ \A t : t \in ours'[hive] <=> /\ t \in Own /\ t \in Elements(next)
                                      /\ t \in ours[hive] \/ t \notin Elements(path[hive])
      /\ \A h \in Hive : h # hive => ours'[h] = ours[h]
      /\ Present' /\ (raced => raced')
      /\ hive # "machine" => taken' = taken
      /\ hive = "machine" /\ taken' => /\ Store \notin Elements(next)
                                       /\ taken \/ Store \in Elements(path[hive])
      /\ ~raced' => \A q \in Proc \ {p} : InGap(q) => job[q].hive # hive
  <2> HIDE DEF hive, next
  <2> QED BY <1>1, <1>2, WritesIs
<1>4. FilesOK'
  <2>1. /\ path' \in [Hive -> Seq(Item)] /\ ours' \in [Hive -> SUBSET Own]
        /\ taken' \in BOOLEAN /\ raced' \in BOOLEAN
    <3> HIDE DEF hive, next
    <3> QED BY <1>1, <1>2, WritesIs
  <2> QED BY <1>1, <1>2, <2>1 DEF FilesOK
<1>5. ASSUME ~raced'  PROVE path[hive] = original /\ ~raced
  BY <1>1, <1>3, <1>5 DEF Fits, GapClean
<1>6. CASE job[p].command = "add" /\ GoesFree(p, "duplicate")
  <2>1. "duplicate" \in Between /\ "duplicate" \notin Editing
    BY DEF Between, Editing
  <2>2. /\ ProcsOK' /\ OthersStay(p) /\ pc'[p] = "duplicate"
        /\ job'[p].command = "add" /\ job'[p].hive = "machine"
        /\ job'[p].alone = job[p].alone /\ hive = "machine" /\ Adding(p)
    BY <1>1, <1>6, <2>1, FreeMoves DEF JobFits, Adding
  <2>3. JobFits(p)'
    BY <2>2 DEF JobFits
  <2>4. Undone(p)'
    BY <1>1, <2>1, <2>2, Places DEF Undone, Removing, OthersStay
  <2>5. Fits(p)'
    BY <2>1, <2>2, <2>3, <2>4, BetweenFits
  <2>6. Elements(next) = Elements(original) \cup Own
    BY <1>1, <2>2, AddedIs DEF Planned
  <2>7. taken' /\ ~raced' => taken
    BY <1>3, <1>5, <2>2, <2>6
  <2>8. ASSUME ~raced'
        PROVE  /\ ours'[hive] \subseteq claims[hive]
               /\ claims[hive] \subseteq ours'[hive] \cup stale[hive]
    <3>1. /\ claims[hive] = job[p].previous \cup (Own \ Elements(original))
          /\ ours[hive] \subseteq job[p].previous
          /\ job[p].previous \subseteq ours[hive] \cup stale[hive]
      BY <1>1, <1>5, <2>2, <2>8 DEF Fits, ClaimsKnown, ClaimsFit
    <3>2. ours[hive] \subseteq Own
      BY <1>1 DEF FilesOK
    <3> QED BY <1>3, <1>5, <2>6, <2>8, <3>1, <3>2
  <2>9. StoreIsRecoverable'
    BY <1>2, <1>5, <2>7 DEF IInv, StoreIsRecoverable
  <2> QED BY <1>1, <1>2, <1>3, <1>4, <2>2, <2>5, <2>7, <2>8, <2>9, WritingStep
<1>7. CASE job[p].command = "remove" /\ Goes(p, "clearing")
  <2>1. "clearing" \in Editing
    BY DEF Editing
  <2>2. ProcsOK' /\ OthersStay(p) /\ pc'[p] = "clearing" /\ job'[p] = job[p] /\ Removing(p)
    BY <1>1, <1>7, <2>1, GoesMoves DEF Removing
  <2>3. next = Without(original, claims[hive]) /\ claims[hive] \in SUBSET Own
    BY <1>1, <2>2 DEF Planned, FilesOK
  <2>4. Elements(next) = Elements(original) \ claims[hive]
    BY <1>1, <2>3, WithoutType
  <2>5. taken' /\ ~raced' => taken
    <3>1. Store \notin claims[hive]
      BY <2>3, PathAssumption
    <3> QED BY <1>3, <1>5, <2>4, <3>1
  <2>6. ~raced' => ours'[hive] = {}
    <3>1. ~raced => ours[hive] \subseteq claims[hive]
      BY <1>1 DEF IInv, AddedIsClaimed
    <3> QED BY <1>3, <1>5, <2>4, <3>1
  <2>7. JobFits(p)' /\ Planned(p)' /\ Journaled(p)' /\ ClaimsKnown(p)'
    BY <1>1, <1>7, <2>2 DEF JobFits, Planned, Journaled, ClaimsKnown, Adding, Removing, Repairing
  <2>8. Undone(p)'
    BY <1>1, <1>2, <2>1, <2>2 DEF Undone, OthersStay, Owned, Removing
  <2>9. ~raced' => ClaimsFit(p)' /\ GapClean(p)' /\ BackFirst(p)'
    BY <2>2, <2>6 DEF ClaimsFit, GapClean, BackFirst, InGap, Adding, Removing
  <2>10. StoreIsRecoverable'
    BY <1>2, <1>5, <2>5 DEF IInv, StoreIsRecoverable
  <2>11. lock'[hive] # None
    BY <1>1, <2>1, <2>2, PathAssumption DEF ProcsOK
  <2>12. Fits(p)'
    BY <2>7, <2>8, <2>9 DEF Fits
  <2> QED BY <1>1, <1>2, <1>3, <1>4, <2>2, <2>5, <2>6, <2>10, <2>11, <2>12, WritingStep
<1>8. \/ job[p].command = "add" /\ GoesFree(p, "duplicate")
      \/ job[p].command = "remove" /\ Goes(p, "clearing")
  BY <1>1 DEF Set
<1> QED BY <1>6, <1>7, <1>8

\* A repair moves no entry of PyRudder's own.
LEMMA RepairWrites ==
    ASSUME IInv, NEW p \in Proc, pc[p] \in {"swapping", "returning"}, job[p].hive = "machine",
           Writes(p, "machine", job[p].next), UNCHANGED <<claims, store, stale, failures, edits>>,
           NEW step \in Repairing, Goes(p, step),
           Elements(job[p].next) \cap Own = Elements(job[p].original) \cap Own,
           JobFits(p)', Planned(p)', Journaled(p)', ~InGap(p)', BackFirst(p)',
           ~raced' /\ taken' => taken \/ pc[p] = "swapping",
           StoreIsRecoverable'
    PROVE  IInv'
<1> DEFINE next == job[p].next
<1>1. /\ ProcsOK /\ FilesOK /\ Present /\ Fits(p) /\ Undone(p) /\ pc[p] \in Repairing
      /\ pc[p] \notin Editing \cup {"idle"} /\ InGap(p) /\ next \in Seq(Item)
  BY TypeSplits, JobFields DEF IInv, Fits, Editing, Repairing, InGap, ProcsOK
<1>2. ProcsOK' /\ OthersStay(p) /\ pc'[p] = step /\ job'[p] = job[p]
  BY <1>1, GoesMoves
<1>3. /\ \A h \in Hive : h # "machine" => path'[h] = path[h]
      /\ \A t : t \in ours'["machine"] <=>
              /\ t \in Own /\ t \in Elements(next)
              /\ t \in ours["machine"] \/ t \notin Elements(path["machine"])
      /\ \A h \in Hive : h # "machine" => ours'[h] = ours[h]
      /\ Present' /\ (raced => raced')
      /\ ~raced' => \A q \in Proc \ {p} : InGap(q) => job[q].hive # "machine"
      /\ path' \in [Hive -> Seq(Item)] /\ ours' \in [Hive -> SUBSET Own]
      /\ taken' \in BOOLEAN /\ raced' \in BOOLEAN
  <2> HIDE DEF next
  <2>1. Writes(p, "machine", next)
    BY DEF next
  <2> QED BY <1>1, <2>1, Places, WritesIs
<1>4. FilesOK'
  BY <1>1, <1>3 DEF FilesOK
<1>5. ~raced' => ours'["machine"] = ours["machine"]
  <2>1. ~raced' => path["machine"] = job[p].original
    BY <1>1, <1>3 DEF Fits, GapClean
  <2>2. ours["machine"] \subseteq Own /\ ours["machine"] \subseteq Elements(path["machine"])
    BY <1>1, Places DEF FilesOK, Present
  <2> QED BY <1>3, <2>1, <2>2
<1>6. /\ pc'[p] \notin {"withdraw", "legacy", "removed", "clearing", "claiming", "idle"}
      /\ pc'[p] \notin Editing /\ ~Adding(p)' /\ ~Removing(p)'
  BY <1>2 DEF Repairing, Editing, Adding, Removing
<1>7. Undone(p)'
  BY <1>1, <1>2, <1>6 DEF Undone, OthersStay
<1>8. Fits(p)'
  BY <1>6, <1>7 DEF Fits, ClaimsKnown, ClaimsFit, GapClean
<1>9. lock'["machine"] = None => lock["machine"] = None
  BY <1>1, <1>2, Places, PathAssumption DEF ProcsOK, OthersStay
<1>10. ~raced' =>
         /\ ours'["machine"] \subseteq claims["machine"]
         /\ lock'["machine"] = None =>
              claims["machine"] \subseteq ours'["machine"] \cup stale["machine"]
  BY <1>3, <1>5, <1>9, Places DEF IInv, AddedIsClaimed, ClaimsSettled
<1> QED BY <1>1, <1>2, <1>3, <1>4, <1>5, <1>8, <1>10, WritingStep

LEMMA RemoveStep ==
    ASSUME IInv, NEW p \in Proc, Remove(p)
    PROVE  IInv'
<1> DEFINE original == job[p].original
           next == job[p].next
<1>1. /\ ProcsOK /\ JobFits(p) /\ Planned(p) /\ Journaled(p)
      /\ pc[p] = "swapping" /\ pc[p] \in Repairing /\ "applying" \in Repairing
      /\ original \in Seq(Item) /\ job[p].command = "add" /\ job[p].hive = "machine"
      /\ Writes(p, "machine", next) /\ Goes(p, "applying")
      /\ UNCHANGED <<claims, store, stale, failures, edits>>
  BY TypeSplits, JobFields DEF IInv, Remove, Fits, JobFits, Repairing, ProcsOK, events
<1>2. pc'[p] = "applying" /\ job'[p] = job[p]
  BY <1>1, GoesMoves
<1>3. Store \in Elements(original) /\ next = Without(original, {Store})
  BY <1>1 DEF Planned
<1>4. Elements(next) = Elements(original) \ {Store} /\ Store \notin Own
  BY <1>1, <1>3, WithoutType, PathAssumption
<1>5. store.phase = "Pending" /\ store.before = original
  BY <1>1 DEF Journaled
<1>6. JobFits(p)' /\ Planned(p)' /\ Journaled(p)' /\ ~InGap(p)' /\ BackFirst(p)'
  BY <1>1, <1>2, <1>5 DEF JobFits, Planned, Journaled, InGap, BackFirst, Adding, Removing
<1>7. StoreIsRecoverable'
  BY <1>1, <1>3, <1>5 DEF StoreIsRecoverable
<1>8. Elements(next) \cap Own = Elements(original) \cap Own
  BY <1>4
<1> QED BY <1>1, <1>6, <1>7, <1>8, RepairWrites

LEMMA RestoreStep ==
    ASSUME IInv, NEW p \in Proc, Restore(p)
    PROVE  IInv'
<1> DEFINE original == job[p].original
           next == job[p].next
<1>1. /\ ProcsOK /\ FilesOK /\ Present /\ JobFits(p) /\ Planned(p) /\ Journaled(p)
      /\ pc[p] = "returning" /\ pc[p] \in Repairing /\ "recording" \in Repairing
      /\ original \in Seq(Item) /\ job[p].command = "remove" /\ job[p].hive = "machine"
      /\ next \in Seq(Item)
      /\ Writes(p, "machine", next) /\ Goes(p, "recording")
      /\ UNCHANGED <<claims, store, stale, failures, edits>>
  BY TypeSplits, JobFields DEF IInv, Restore, Fits, JobFits, Repairing, ProcsOK, events
<1>2. pc'[p] = "recording" /\ job'[p] = job[p]
  BY <1>1, GoesMoves
<1>3. /\ next = Restoration(original) /\ Owned /\ Store \in Elements(store.before)
      /\ store.before \in Seq(Item)
  BY <1>1 DEF Planned, Journaled, IInv, OwnedHasStore, FilesOK
<1>4. Elements(next) = Elements(original) \cup {Store} /\ Store \notin Own
  BY <1>1, <1>3, RestorationIs, PathAssumption
<1>5. ~taken'
  BY <1>1, <1>4 DEF Writes
<1>6. JobFits(p)' /\ Planned(p)' /\ Journaled(p)' /\ ~InGap(p)' /\ BackFirst(p)'
  BY <1>1, <1>2, <1>3, <1>5
     DEF JobFits, Planned, Journaled, InGap, BackFirst, Adding, Removing, Owned
<1>7. StoreIsRecoverable'
  BY <1>5 DEF StoreIsRecoverable
<1>8. Elements(next) \cap Own = Elements(original) \cap Own
  BY <1>4
<1> QED BY <1>1, <1>5, <1>6, <1>7, <1>8, RepairWrites

-----------------------------------------------------------------------------
(* Other programs *)

LEMMA EditsType ==
    ASSUME NEW s \in Seq(Item), NEW t \in Removals(s) \cup Insertions(s)
    PROVE  t \in Seq(Item)
<1>1. Len(s) \in Nat /\ DOMAIN s = 1..Len(s)
  BY LenProperties
<1>2. CASE t \in Removals(s)
  <2>1. PICK i \in 1..Len(s) : t = SubSeq(s, 1, i - 1) \o SubSeq(s, i + 1, Len(s))
    BY <1>1, <1>2 DEF Removals
  <2>2. i - 1 \in Int /\ i + 1 \in Int /\ 1 \in Int /\ Len(s) \in Int
    BY <1>1, <2>1
  <2>3. SubSeq(s, 1, i - 1) \in Seq(Item)
    <3>1. \A j \in 1..i - 1 : s[j] \in Item
      BY <1>1, ElementOfSeq
    <3> QED BY <2>2, <3>1, SubSeqProperties
  <2>4. SubSeq(s, i + 1, Len(s)) \in Seq(Item)
    <3>1. \A j \in i + 1..Len(s) : s[j] \in Item
      BY <1>1, ElementOfSeq
    <3> QED BY <2>2, <3>1, SubSeqProperties
  <2> QED BY <2>1, <2>3, <2>4, ConcatProperties
<1>3. CASE t \in Insertions(s)
  <2>1. \E i \in 1..Len(s) + 1, e \in Item : t = InsertBefore(s, i, e)
    BY <1>3 DEF Insertions
  <2> QED BY <2>1, InsertBeforeIs
<1> QED BY <1>2, <1>3

LEMMA OutsiderStep ==
    ASSUME IInv, NEW hive \in Hive, Outsider(hive)
    PROVE  IInv'
<1>1. PICK next \in Removals(path[hive]) \cup Insertions(path[hive]) :
         /\ path' = [path EXCEPT ![hive] = next]
         /\ ours' = [ours EXCEPT ![hive] = @ \cap Elements(next)]
         /\ stale' = [stale EXCEPT ![hive] = @ \cup (claims[hive] \ Elements(next))]
         /\ taken' = IF hive = "machine" THEN taken /\ Store \notin Elements(next) ELSE taken
  BY DEF Outsider
<1>2. /\ ProcsOK /\ FilesOK /\ UNCHANGED <<claims, store, lock, store_lock, pc, job, failures>>
      /\ raced' = (raced \/ \E q \in Proc : InGap(q) /\ job[q].hive = hive)
      /\ edits < MaxEdits /\ edits' = edits + 1
  BY TypeSplits DEF IInv, Outsider, locks
<1>3. next \in Seq(Item)
  BY <1>1, <1>2, EditsType DEF FilesOK
<1>4. /\ path'[hive] = next /\ \A h \in Hive : h # hive => path'[h] = path[h]
      /\ ours'[hive] = ours[hive] \cap Elements(next)
      /\ stale'[hive] = stale[hive] \cup (claims[hive] \ Elements(next))
      /\ \A h \in Hive : h # hive => ours'[h] = ours[h] /\ stale'[h] = stale[h]
  BY <1>1, <1>2 DEF FilesOK
<1>5. /\ taken' \in BOOLEAN /\ (taken' => taken)
      /\ hive = "machine" /\ taken' => Store \notin Elements(next)
  BY <1>1, <1>2 DEF FilesOK
<1>6. /\ raced' \in BOOLEAN
      /\ ~raced' => ~raced
      /\ ~raced' => \A q \in Proc : InGap(q) => job[q].hive # hive
  BY <1>2 DEF FilesOK
<1>7. TypeOK'
  <2>1. ProcsOK'
    BY <1>2 DEF ProcsOK
  <2>2. /\ path' \in [Hive -> Seq(Item)] /\ ours' \in [Hive -> SUBSET Own]
        /\ stale' \in [Hive -> SUBSET Own]
    BY <1>1, <1>2, <1>3 DEF FilesOK
  <2>3. edits' \in 0..MaxEdits
    BY <1>2, PathAssumption DEF FilesOK
  <2> QED BY <1>2, <1>5, <1>6, <2>1, <2>2, <2>3, TypeSplits DEF FilesOK
<1>8. \A h \in Hive : /\ ours'[h] \subseteq ours[h]
                      /\ ~raced' => ours[h] \cup stale[h] \subseteq ours'[h] \cup stale'[h]
  <2>1. ~raced' => \A h \in Hive : ours[h] \subseteq claims[h]
    BY <1>6 DEF IInv, AddedIsClaimed
  <2>2. ASSUME NEW h \in Hive
        PROVE  /\ ours'[h] \subseteq ours[h]
               /\ ~raced' => ours[h] \cup stale[h] \subseteq ours'[h] \cup stale'[h]
    <3>1. CASE h = hive
      BY <1>4, <2>1, <3>1
    <3>2. CASE h # hive
      BY <1>4, <3>2
    <3> QED BY <3>1, <3>2
  <2> QED BY <2>2
<1>9. ASSUME NEW q \in Proc  PROVE Fits(q)'
  <2>1. Fits(q) /\ JobFits(q) /\ job[q].hive \in Hive
    BY <1>2, JobFields DEF IInv, Fits, ProcsOK
  <2>2. Adding(q)' = Adding(q) /\ Removing(q)' = Removing(q)
    BY <1>2 DEF Adding, Removing
  <2>3. Restoration(job[q].original)' = Restoration(job[q].original)
    BY <1>2 DEF Restoration
  <2>4. JobFits(q)'
    BY <1>2, <2>1 DEF JobFits
  <2>5. Planned(q)'
    BY <1>2, <2>1, <2>2, <2>3 DEF Fits, Planned
  <2>6. Journaled(q)' /\ ClaimsKnown(q)'
    BY <1>2, <2>1, <2>2 DEF Fits, Journaled, ClaimsKnown, Owned
  <2>7. Undone(q)'
    BY <1>2, <2>1, <2>2 DEF Fits, Undone, Owned
  <2>8. ~raced' => ClaimsFit(q)'
    <3>1. pc[q] = "claiming" \/ Adding(q) => job[q].hive = "machine"
      BY <2>1 DEF JobFits, Adding
    <3>2. pc[q] = "clearing" => (ours[job[q].hive] = {} => ours'[job[q].hive] = {})
      BY <1>8, <2>1
    <3>3. ~raced' => ours["machine"] \cup stale["machine"]
                       \subseteq ours'["machine"] \cup stale'["machine"]
      BY <1>8, Places
    <3>4. ~raced' => ours[job[q].hive] \cup stale[job[q].hive]
                       \subseteq ours'[job[q].hive] \cup stale'[job[q].hive]
      BY <1>8, <2>1
    <3>5. ours'["machine"] \subseteq ours["machine"]
      BY <1>8, Places
    <3> QED BY <1>2, <1>6, <2>1, <2>2, <3>2, <3>3, <3>4, <3>5 DEF Fits, ClaimsFit
  <2>9. ~raced' => GapClean(q)'
    BY <1>2, <1>4, <1>6, <2>1 DEF Fits, GapClean, InGap
  <2>10. ~raced' => BackFirst(q)'
    BY <1>2, <1>5, <1>6, <2>1 DEF Fits, BackFirst
  <2> QED BY <2>4, <2>5, <2>6, <2>7, <2>8, <2>9, <2>10 DEF Fits
<1>10. OwnedHasStore'
  BY <1>2 DEF IInv, OwnedHasStore, Owned
<1>11. Present'
  <2>1. \A h \in Hive : ours'[h] \subseteq Elements(path'[h])
    BY <1>4 DEF IInv, Present
  <2>2. taken' => Store \notin Elements(path'["machine"])
    BY <1>4, <1>5, Places DEF IInv, Present
  <2> QED BY <2>1, <2>2 DEF Present
<1>12. ClaimsSettled'
  BY <1>2, <1>6, <1>8 DEF IInv, ClaimsSettled
<1>13. AddedIsClaimed'
  BY <1>2, <1>6, <1>8 DEF IInv, AddedIsClaimed
<1>14. StoreIsRecoverable'
  BY <1>2, <1>5, <1>6 DEF IInv, StoreIsRecoverable
<1> QED BY <1>7, <1>9, <1>10, <1>11, <1>12, <1>13, <1>14 DEF IInv


-----------------------------------------------------------------------------
(* The invariant holds *)

LEMMA InitHolds == Init => IInv
<1> SUFFICES ASSUME Init  PROVE IInv
  OBVIOUS
<1>1. /\ path \in [Hive -> Seq(Item)] /\ path["user"] \in Seq(Item)
      /\ claims["machine"] = {} /\ claims["user"] = Own \cap Elements(path["user"])
      /\ ours = claims /\ \A h \in Hive : stale[h] = {}
  BY Places, PathAssumption DEF Init
<1>2. claims \in [Hive -> SUBSET Own]
  BY <1>1 DEF Init, Hive
<1>3. store \in [phase : Phase, before : Seq(Item)] /\ store.phase = "absent" /\ ~Owned
  BY EmptySeq DEF Init, NoJournal, Phase, Owned
<1>4. \A p \in Proc : pc[p] = "idle" /\ job[p] = NoJob
  BY DEF Init
<1>5. ProcsOK
  <2>1. job \in [Proc -> Job]
    BY NoJobType DEF Init
  <2>2. \A h \in Hive, p \in Proc : lock[h] = p <=> (pc[p] \in Editing /\ job[p].hive = h)
    BY <1>4, Places, PathAssumption DEF Init
  <2>3. \A p \in Proc : store_lock = p <=> pc[p] \in Repairing
    BY <1>4, Places, PathAssumption DEF Init
  <2> QED BY <2>1, <2>2, <2>3 DEF Init, ProcsOK
<1>6. FilesOK
  <2>1. stale \in [Hive -> SUBSET Own]
    BY DEF Init
  <2>2. 0 \in 0..MaxFailures /\ 0 \in 0..MaxEdits
    BY PathAssumption
  <2>3. taken \in BOOLEAN /\ raced \in BOOLEAN /\ failures = 0 /\ edits = 0
    BY DEF Init
  <2> QED BY <1>1, <1>2, <1>3, <2>1, <2>2, <2>3 DEF FilesOK
<1>7. \A p \in Proc : Fits(p)
  BY <1>4, NoJobFits
     DEF Fits, JobFits, Planned, Journaled, ClaimsKnown, Undone, ClaimsFit, GapClean,
         BackFirst, InGap, Adding, Removing, Repairing
<1>8. Present
  <2>1. ~taken
    BY DEF Init
  <2> QED BY <1>1, <2>1, Places DEF Present
<1>9. ClaimsSettled /\ AddedIsClaimed
  BY <1>1 DEF ClaimsSettled, AddedIsClaimed
<1>10. OwnedHasStore /\ StoreIsRecoverable
  BY <1>3 DEF OwnedHasStore, StoreIsRecoverable, Init
<1> QED BY <1>5, <1>6, <1>7, <1>8, <1>9, <1>10, TypeSplits DEF IInv

LEMMA EditStep == ASSUME IInv, NEW p \in Proc, Edit(p)  PROVE IInv'
BY ReadForAddStep, ClaimStep, ReadForRemoveStep, CompareStep, SetStep, SetFailsStep, ClearStep
   DEF Edit

LEMMA RepairStep == ASSUME IInv, NEW p \in Proc, Repair(p)  PROVE IInv'
BY ReadForRepairStep, IntendStep, CompareRepairStep, RemoveStep, MarkAppliedStep DEF Repair

LEMMA UndoStep == ASSUME IInv, NEW p \in Proc, Undo(p)  PROVE IInv'
BY StartRemoveStep, ReadForRestoreStep, CompareRestoreStep, RestoreStep, MarkRestoredStep,
   RemoveSucceedsStep DEF Undo

LEMMA StutterStep == ASSUME IInv, UNCHANGED vars  PROVE IInv'
<1>1. UNCHANGED <<path, claims, store, ours, taken, stale, raced, lock, store_lock, pc, job,
                  failures, edits>>
  BY DEF vars, files, ghosts, events
<1>2. TypeOK'
  <2>1. ProcsOK'
    BY <1>1, TypeSplits DEF IInv, ProcsOK
  <2>2. FilesOK'
    BY <1>1, TypeSplits DEF IInv, FilesOK
  <2> QED BY <2>1, <2>2, TypeSplits
<1>3. ASSUME NEW p \in Proc  PROVE Fits(p)'
  <2>1. Adding(p)' = Adding(p) /\ Removing(p)' = Removing(p) /\ InGap(p)' = InGap(p)
    BY <1>1 DEF Adding, Removing, InGap
  <2>2. Restoration(job[p].original)' = Restoration(job[p].original)
    BY <1>1 DEF Restoration
  <2>3. JobFits(p)' /\ Journaled(p)' /\ BackFirst(p)' = BackFirst(p)
    BY <1>1, <1>3 DEF IInv, Fits, JobFits, Journaled, BackFirst, Owned
  <2>4. Planned(p)'
    BY <1>1, <1>3, <2>1, <2>2 DEF IInv, Fits, Planned
  <2>5. ClaimsKnown(p)' /\ Undone(p)'
    BY <1>1, <1>3, <2>1 DEF IInv, Fits, ClaimsKnown, Undone, Owned
  <2>6. ~raced => ClaimsFit(p)' /\ GapClean(p)'
    BY <1>1, <1>3, <2>1 DEF IInv, Fits, ClaimsFit, GapClean
  <2> QED BY <1>1, <1>3, <2>3, <2>4, <2>5, <2>6 DEF IInv, Fits
<1>4. OwnedHasStore' /\ Present' /\ ClaimsSettled' /\ AddedIsClaimed' /\ StoreIsRecoverable'
  BY <1>1 DEF IInv, OwnedHasStore, Owned, Present, ClaimsSettled, AddedIsClaimed,
              StoreIsRecoverable
<1> QED BY <1>2, <1>3, <1>4 DEF IInv

\* The journals, the locks and what every command knows fit together at every step,
\* whoever edits PATH meanwhile (system_path.rs:137-250, store_path.rs:186-300).
THEOREM InvariantHolds == Spec => []IInv
<1>1. IInv /\ [Next]_vars => IInv'
  <2> SUFFICES ASSUME IInv, [Next]_vars  PROVE IInv'
    OBVIOUS
  <2>1. ASSUME NEW p \in Proc, NEW command \in {"add", "remove"}, Begin(p, command)  PROVE IInv'
    BY <2>1, BeginStep
  <2>2. ASSUME NEW p \in Proc, Edit(p) \/ Repair(p) \/ Undo(p) \/ Stop(p)  PROVE IInv'
    BY <2>2, EditStep, RepairStep, UndoStep, StopStep
  <2>3. ASSUME NEW hive \in Hive, Outsider(hive)  PROVE IInv'
    BY <2>3, OutsiderStep
  <2>4. CASE UNCHANGED vars
    BY <2>4, StutterStep
  <2> QED BY <2>1, <2>2, <2>3, <2>4 DEF Next
<1> QED BY <1>1, InitHolds, PTL DEF Spec

\* Every PATH, journal and lock has its type, and a lock is held exactly by the
\* command that works under it (system_path.rs:139, store_path.rs:189, 227, 252).
THEOREM TypeCorrect == Spec => []TypeOK
<1>1. IInv => TypeOK
  BY DEF IInv
<1> QED BY <1>1, InvariantHolds, PTL

\* Whatever PyRudder put into a PATH is claimed in its journal (system_path.rs:185-197).
THEOREM AddedClaimed == Spec => []AddedIsClaimed
<1>1. IInv => AddedIsClaimed
  BY DEF IInv
<1> QED BY <1>1, InvariantHolds, PTL

\* Where nobody works on a PATH, what its journal claims there is PyRudder's own or a
\* leftover of a kill (system_path.rs:173).
THEOREM ClaimsOurs == Spec => []ClaimsAreOurs
<1>1. IInv => ClaimsAreOurs
  BY DEF IInv, ClaimsSettled, ClaimsAreOurs
<1> QED BY <1>1, InvariantHolds, PTL

\* While the Store entry is missing on PyRudder's account, the journal can bring it
\* back (store_path.rs:215-221, 262-270).
THEOREM StoreRecoverable == Spec => []StoreIsRecoverable
<1>1. IInv => StoreIsRecoverable
  BY DEF IInv
<1> QED BY <1>1, InvariantHolds, PTL

\* The entry comes back to where it was, in a PATH of any length
\* (store_path/state.rs:100-167).
THEOREM RestoreInPlace == Spec => []RestoredInPlace
<1>1. IInv => RestoredInPlace
  <2> SUFFICES ASSUME IInv, NEW p \in Proc, pc[p] = "restoring"
            PROVE
            LET old == store.before
                new == job[p].next
                first == FirstStore(old)
                at(e) == UniquePosition(new, e)
            IN  IF job[p].original = Without(old, {Store}) THEN new = old
                ELSE /\ at(Store) # 0
                     /\ first > 1 /\ at(old[first - 1]) # 0 => at(old[first - 1]) < at(Store)
                     /\ (first < Len(old) /\ old[first + 1] # Store /\ at(old[first + 1]) # 0
                         /\ (first = 1 \/ at(old[first - 1]) = 0
                             \/ at(old[first - 1]) < at(old[first + 1])))
                        => at(Store) + 1 = at(old[first + 1])
    BY DEF RestoredInPlace
  <2> DEFINE old == store.before
             current == job[p].original
  <2>1. ProcsOK /\ FilesOK /\ Planned(p) /\ Journaled(p) /\ OwnedHasStore
    BY TypeSplits DEF IInv, Fits
  <2>2. /\ old \in Seq(Item) /\ current \in Seq(Item) /\ Store \in Elements(old)
        /\ Store \notin Elements(current) /\ job[p].next = Restoration(current)
    BY <2>1, JobFields DEF ProcsOK, FilesOK, Planned, Journaled, OwnedHasStore
  <2>3. CASE current = Without(old, {Store})
    <3>1. job[p].next = Rebuilt(old, current)
      BY <2>2, <2>3 DEF Restoration
    <3>2. Rebuilt(old, current) = old
      BY <2>2, <2>3, RebuiltIsBefore
    <3> QED BY <2>3, <3>1, <3>2
  <2>4. CASE current # Without(old, {Store})
    <3>1. job[p].next = Inserted(old, current)
      BY <2>2, <2>4 DEF Restoration
    <3> QED BY <2>2, <2>4, <3>1, InsertedInPlace
  <2> QED BY <2>3, <2>4
<1> QED BY <1>1, InvariantHolds, PTL

\* A removal that reports success, with no other command under way meanwhile, leaves
\* nothing of PyRudder in either PATH, and the Store entry back (README.md:152).
THEOREM RemoveCompletes == Spec => []RemoveIsComplete
<1>1. IInv => RemoveIsComplete
  <2> SUFFICES ASSUME IInv, NEW p \in Proc, pc[p] = "removed", job[p].alone, ~raced
               PROVE  /\ \A h \in Hive : ours[h] = {} /\ claims[h] = {}
                      /\ ~taken /\ ~Owned
    BY DEF RemoveIsComplete
  <2>1. Undone(p)
    BY DEF IInv, Fits
  <2>2. ~Owned /\ claims["machine"] = {} /\ claims["user"] = {}
    BY <2>1 DEF Undone
  <2>3. \A h \in Hive : claims[h] = {}
    BY <2>2, Places
  <2>4. \A h \in Hive : ours[h] = {}
    BY <2>3 DEF IInv, AddedIsClaimed
  <2>5. ~taken
    BY <2>2 DEF IInv, StoreIsRecoverable, Owned
  <2> QED BY <2>2, <2>3, <2>4, <2>5
<1> QED BY <1>1, InvariantHolds, PTL

-----------------------------------------------------------------------------
(* The entries of others *)

\* The step of OthersKept.
ForeignKept ==
    pc' # pc => raced' \/ \A h \in Hive : Foreign(h, path'[h]) = Foreign(h, path[h])

\* A write of something that has the same foreign entries as what was compared.
LEMMA WriteKeeps ==
    ASSUME IInv, NEW p \in Proc, InGap(p), Writes(p, job[p].hive, job[p].next),
           Foreign(job[p].hive, job[p].next) = Foreign(job[p].hive, job[p].original)
    PROVE  ForeignKept
<1>1. FilesOK /\ ProcsOK /\ Present /\ Fits(p) /\ job[p].hive \in Hive /\ job[p].next \in Seq(Item)
  BY TypeSplits, JobFields DEF IInv, ProcsOK
<1>2. /\ path'[job[p].hive] = job[p].next
      /\ \A h \in Hive : h # job[p].hive => path'[h] = path[h]
      /\ raced => raced'
  BY <1>1, WritesIs
<1>3. ~raced' => path[job[p].hive] = job[p].original
  BY <1>1, <1>2 DEF Fits, GapClean
<1> QED BY <1>1, <1>2, <1>3 DEF ForeignKept

LEMMA SetKeeps ==
    ASSUME IInv, NEW p \in Proc, Set(p)
    PROVE  ForeignKept
<1> DEFINE hive == job[p].hive
           s == job[p].original
           set == IF hive = "machine" THEN Own \cup {Store} ELSE Own
<1>1. /\ ProcsOK /\ FilesOK /\ Planned(p) /\ JobFits(p) /\ pc[p] = "setting" /\ InGap(p)
      /\ hive \in Hive /\ s \in Seq(Item) /\ job[p].command \in {"add", "remove"}
      /\ Writes(p, hive, job[p].next)
  BY TypeSplits, JobFields DEF IInv, Set, Fits, InGap, ProcsOK
<1>2. Own \subseteq set /\ \A t : Foreign(hive, t) = Without(t, set)
  BY DEF Foreign
<1> HIDE DEF set
<1>3. CASE job[p].command = "add"
  <2>1. job[p].next = Without(s, Own) \o <<Bin, Shims>>
    BY <1>1, <1>3 DEF Planned, Adding
  <2>2. Without(job[p].next, set) = Without(s, set)
    BY <1>1, <1>2, <2>1, AddedIs
  <2> QED BY <1>1, <1>2, <2>2, WriteKeeps
<1>4. CASE job[p].command = "remove"
  <2>1. job[p].next = Without(s, claims[hive]) /\ claims[hive] \subseteq Own
    BY <1>1, <1>4 DEF Planned, Removing, FilesOK
  <2>2. claims[hive] \subseteq set
    BY <1>2, <2>1
  <2>3. Without(job[p].next, set) = Without(s, set)
    BY <1>1, <2>1, <2>2, WithoutTwice
  <2> QED BY <1>1, <1>2, <2>3, WriteKeeps
<1> QED BY <1>1, <1>3, <1>4

LEMMA RemoveKeeps ==
    ASSUME IInv, NEW p \in Proc, Remove(p)
    PROVE  ForeignKept
<1> DEFINE s == job[p].original
           set == Own \cup {Store}
<1>1. /\ ProcsOK /\ Planned(p) /\ JobFits(p) /\ pc[p] = "swapping" /\ InGap(p)
      /\ pc[p] \in Repairing /\ s \in Seq(Item) /\ Writes(p, "machine", job[p].next)
  BY TypeSplits, JobFields DEF IInv, Remove, Fits, InGap, ProcsOK, Repairing
<1>2. job[p].hive = "machine" /\ job[p].next = Without(s, {Store})
  BY <1>1 DEF JobFits, Planned
<1>3. {Store} \subseteq set /\ \A t : Foreign("machine", t) = Without(t, set)
  BY DEF Foreign
<1> HIDE DEF set
<1>4. Without(job[p].next, set) = Without(s, set)
  BY <1>1, <1>2, <1>3, WithoutTwice
<1> QED BY <1>1, <1>2, <1>3, <1>4, WriteKeeps

LEMMA RestoreKeeps ==
    ASSUME IInv, NEW p \in Proc, Restore(p)
    PROVE  ForeignKept
<1> DEFINE s == job[p].original
           set == Own \cup {Store}
<1>1. /\ ProcsOK /\ FilesOK /\ Planned(p) /\ Journaled(p) /\ JobFits(p) /\ OwnedHasStore
      /\ pc[p] = "returning" /\ InGap(p)
      /\ pc[p] \in Repairing /\ s \in Seq(Item) /\ Writes(p, "machine", job[p].next)
  BY TypeSplits, JobFields DEF IInv, Restore, Fits, InGap, ProcsOK, Repairing
<1>2. /\ job[p].hive = "machine" /\ job[p].next = Restoration(s)
      /\ Store \in Elements(store.before) /\ store.before \in Seq(Item)
  BY <1>1 DEF JobFits, Planned, Journaled, OwnedHasStore, FilesOK
<1>3. Store \in set /\ \A t : Foreign("machine", t) = Without(t, set)
  BY DEF Foreign
<1> HIDE DEF set
<1>4. Without(job[p].next, set) = Without(s, set)
  BY <1>1, <1>2, <1>3, RestorationIs
<1> QED BY <1>1, <1>2, <1>3, <1>4, WriteKeeps

LEMMA OthersKeptStep == IInv /\ [Next]_vars => ForeignKept
<1> SUFFICES ASSUME IInv, [Next]_vars  PROVE ForeignKept
  OBVIOUS
<1>1. ASSUME path' = path  PROVE ForeignKept
  BY <1>1 DEF ForeignKept
<1>2. ASSUME NEW p \in Proc, Edit(p)  PROVE ForeignKept
  <2>1. CASE ReadForAdd(p) \/ ReadForRemove(p)
    BY <1>1, <2>1 DEF ReadForAdd, ReadForRemove, Keeps, files
  <2>2. CASE Claim(p) \/ Compare(p) \/ SetFails(p) \/ Clear(p)
    BY <1>1, <2>2 DEF Claim, Compare, SetFails, Clear
  <2> QED BY <1>2, <2>1, <2>2, SetKeeps DEF Edit
<1>3. ASSUME NEW p \in Proc, Repair(p)  PROVE ForeignKept
  <2>1. CASE ReadForRepair(p) \/ CompareRepair(p)
    BY <1>1, <2>1 DEF ReadForRepair, CompareRepair, Keeps, files
  <2>2. CASE Intend(p) \/ MarkApplied(p)
    BY <1>1, <2>2 DEF Intend, MarkApplied
  <2> QED BY <1>3, <2>1, <2>2, RemoveKeeps DEF Repair
<1>4. ASSUME NEW p \in Proc, Undo(p)  PROVE ForeignKept
  <2>1. CASE StartRemove(p) \/ ReadForRestore(p) \/ CompareRestore(p) \/ RemoveSucceeds(p)
    BY <1>1, <2>1 DEF StartRemove, ReadForRestore, CompareRestore, RemoveSucceeds, Keeps, files
  <2>2. CASE MarkRestored(p)
    BY <1>1, <2>2 DEF MarkRestored
  <2> QED BY <1>4, <2>1, <2>2, RestoreKeeps DEF Undo
<1>5. ASSUME NEW p \in Proc, NEW command, Begin(p, command)  PROVE ForeignKept
  BY <1>1, <1>5 DEF Begin, Keeps, files
<1>6. ASSUME NEW p \in Proc, Stop(p)  PROVE ForeignKept
  BY <1>1, <1>6 DEF Stop, files
<1>7. ASSUME NEW hive \in Hive, Outsider(hive)  PROVE ForeignKept
  BY <1>7 DEF Outsider, ForeignKept
<1>8. CASE UNCHANGED vars
  BY <1>1, <1>8 DEF vars, files
<1> QED BY <1>2, <1>3, <1>4, <1>5, <1>6, <1>7, <1>8 DEF Next

\* PyRudder never loses, adds or moves an entry of anybody else, unless another write
\* fell between its comparison and its own (system_path.rs:231-246,
\* store_path.rs:428-446, path.rs:109-124).
THEOREM OthersAreKept == Spec => OthersKept
<1>1. IInv /\ [Next]_vars => [ForeignKept]_vars
  BY OthersKeptStep
<1> QED BY <1>1, InvariantHolds, PTL DEF Spec, OthersKept, ForeignKept
=============================================================================
