------------------------------- MODULE ListLemmas -------------------------------
(***************************************************************************)
(* What the proofs of several components need to know about sequences: a   *)
(* sequence without its last element or without the one at some place,     *)
(* lists without repetition, the least element of a set of numbers, and    *)
(* division with a remainder.                                              *)
(***************************************************************************)
EXTENDS Integers, Sequences, FiniteSets, SequencesExt, SequenceTheorems, FunctionTheorems,
        FiniteSetTheorems, WellFoundedInduction, TLAPS

(* A sequence s over S without its last element. *)
Shorter(S, s, t) ==
  /\ t \in Seq(S) /\ Len(s) \in Nat \ {0} /\ Len(t) = Len(s) - 1
  /\ \A i \in 1 .. Len(s) - 1 : t[i] = s[i]

LEMMA ButLast ==
  ASSUME NEW S, NEW s \in Seq(S), s # <<>>, NEW t, t = SubSeq(s, 1, Len(s) - 1)
  PROVE  Shorter(S, s, t)
<1>1. PICK n \in Nat : n = Len(s) /\ n > 0
  <2>1. Len(s) \in Nat /\ Len(s) > 0
    OBVIOUS
  <2>2. QED
    BY <2>1
<1>2. /\ t \in Seq(S)
      /\ Len(t) = IF 1 <= n - 1 THEN n - 1 - 1 + 1 ELSE 0
      /\ \A i \in 1 .. n - 1 - 1 + 1 : t[i] = s[1 + i - 1]
  BY <1>1, SubSeqProperties
<1>3. PICK k : k = Len(t)
  OBVIOUS
<1>4. k = IF 1 <= n - 1 THEN n - 1 - 1 + 1 ELSE 0
  BY <1>2, <1>3, Zenon
<1>5. k = n - 1
  BY <1>1, <1>4
<1>6. ASSUME NEW i \in 1 .. n - 1 PROVE t[i] = s[i]
  <2>1. i \in 1 .. n - 1 - 1 + 1 /\ 1 + i - 1 = i
    OBVIOUS
  <2>2. QED
    BY <1>2, <2>1, Zenon
<1>7. n \in Nat \ {0}
  BY <1>1
<1>8. QED
  BY <1>1, <1>2, <1>3, <1>5, <1>6, <1>7, Zenon DEF Shorter

(* Taking the top off a stack leaves the others in their places. *)
LEMMA FrontLast ==
  ASSUME NEW S, NEW s \in Seq(S), s # << >>
  PROVE  /\ Front(s) \in Seq(S)
         /\ Len(s) \in Nat /\ Len(s) > 0 /\ Len(Front(s)) = Len(s) - 1
         /\ \A k \in 1 .. Len(s) - 1 : Front(s)[k] = s[k]
         /\ Last(s) = s[Len(s)] /\ Last(s) \in S
<1>1. Len(s) \in Nat /\ Len(s) > 0
  OBVIOUS
<1>2. Last(s) = s[Len(s)] /\ Last(s) \in S
  BY <1>1 DEF Last
<1>3. Front(s) = SubSeq(s, 1, Len(s) - 1)
  BY DEF Front
<1>4. /\ Front(s) \in Seq(S)
      /\ Len(Front(s)) = IF 1 <= Len(s) - 1 THEN Len(s) - 1 - 1 + 1 ELSE 0
      /\ \A k \in 1 .. Len(s) - 1 - 1 + 1 : Front(s)[k] = s[1 + k - 1]
  BY <1>1, <1>3, SubSeqProperties
<1>5. Len(Front(s)) = Len(s) - 1
  <2>1. PICK n \in Nat : n = Len(s) /\ n > 0
    BY <1>1
  <2>2. PICK f : f = Len(Front(s))
    OBVIOUS
  <2>3. f = IF 1 <= n - 1 THEN n - 1 - 1 + 1 ELSE 0
    BY <1>4, <2>1, <2>2, Zenon
  <2>4. f = n - 1
    BY <2>1, <2>3
  <2>5. QED
    BY <2>1, <2>2, <2>4, Zenon
<1>6. ASSUME NEW k \in 1 .. Len(s) - 1 PROVE Front(s)[k] = s[k]
  <2>1. k \in 1 .. Len(s) - 1 - 1 + 1 /\ 1 + k - 1 = k
    BY <1>1
  <2>2. QED
    BY <1>4, <2>1, Zenon
<1>7. QED
  BY <1>1, <1>2, <1>4, <1>5, <1>6

(* Lists of which one element is taken out.                                *)

OnceEach(s) == \A i, j \in DOMAIN s : s[i] = s[j] => i = j
Listed(x, s) == \E i \in DOMAIN s : s[i] = x

(* Every set of numbers that is not empty has a least one. *)
LEMMA LeastOf ==
  ASSUME NEW T, T \subseteq Nat, T # {}
  PROVE  \E x \in T : \A y \in T : x <= y
<1>1. PICK x \in T : \A y \in T : ~(<<y, x>> \in OpToRel(<, Nat))
  BY WFMin, NatLessThanWellFounded
<1>2. \A y \in T : ~(y < x)
  BY <1>1 DEF OpToRel
<1>3. QED
  BY <1>2

(* Append, and the change of one element, place by place. *)
Longer(S, s, n, x, t) ==
  /\ t \in Seq(S) /\ Len(t) = n + 1 /\ DOMAIN t = 1 .. n + 1
  /\ t[n + 1] = x /\ \A i \in 1 .. n : t[i] = s[i]
LEMMA AppendElements ==
  ASSUME NEW S, NEW s \in Seq(S), NEW n \in Nat, n = Len(s), NEW x \in S
  PROVE  Longer(S, s, n, x, Append(s, x))
BY DEF Longer

OneChanged(S, s, n, i, x, t) ==
  /\ t \in Seq(S) /\ Len(t) = n /\ DOMAIN t = 1 .. n
  /\ \A j \in 1 .. n : t[j] = IF j = i THEN x ELSE s[j]
LEMMA ExceptElements ==
  ASSUME NEW S, NEW s \in Seq(S), NEW n \in Nat, n = Len(s), NEW i \in 1 .. n, NEW x \in S
  PROVE  OneChanged(S, s, n, i, x, [s EXCEPT ![i] = x])
BY DEF OneChanged

(* RemoveAt, element by element. *)
OneLess(S, s, n, i, t) ==
  /\ t \in Seq(S) /\ Len(t) = n - 1 /\ DOMAIN t = 1 .. n - 1
  /\ \A j \in 1 .. n - 1 : t[j] = IF j < i THEN s[j] ELSE s[j + 1]

LEMMA RemoveAtElements ==
  ASSUME NEW S, NEW s \in Seq(S), NEW n \in Nat, n = Len(s), NEW i \in 1 .. n
  PROVE  OneLess(S, s, n, i, RemoveAt(s, i))
<1> DEFINE a == SubSeq(s, 1, i - 1)
           b == SubSeq(s, i + 1, n)
<1>1. RemoveAt(s, i) = a \o b
  BY DEF RemoveAt
<1>2. a \in Seq(S) /\ Len(a) = i - 1 /\ \A j \in 1 .. i - 1 : a[j] = s[j]
  OBVIOUS
<1>3. b \in Seq(S) /\ Len(b) = n - i /\ \A j \in 1 .. n - i : b[j] = s[i + j]
  OBVIOUS
<1> HIDE DEF a, b
<1>4. a \o b \in Seq(S) /\ Len(a \o b) = n - 1 /\ DOMAIN (a \o b) = 1 .. n - 1
  BY <1>2, <1>3
<1>5. ASSUME NEW j \in 1 .. n - 1
      PROVE  (a \o b)[j] = IF j < i THEN s[j] ELSE s[j + 1]
  <2>1. CASE j < i
    BY <1>2, <1>3, <2>1
  <2>2. CASE ~(j < i)
    <3>1. PICK k \in 1 .. n - i : k = j - (i - 1) /\ i + k = j + 1
      BY <2>2
    <3>2. (a \o b)[j] = b[k]
      BY <1>2, <1>3, <2>2, <3>1
    <3>3. QED
      BY <1>3, <2>2, <3>1, <3>2
  <2>3. QED
    BY <2>1, <2>2
<1>6. QED
  BY <1>1, <1>4, <1>5 DEF OneLess

(* Of a list without repetition exactly the element at that place is gone. *)
LEMMA RemoveAtOnce ==
  ASSUME NEW S, NEW s \in Seq(S), OnceEach(s), NEW i \in DOMAIN s
  PROVE  /\ RemoveAt(s, i) \in Seq(S) /\ OnceEach(RemoveAt(s, i))
         /\ \A x : Listed(x, RemoveAt(s, i)) <=> Listed(x, s) /\ x # s[i]
<1>1. PICK n \in Nat : n = Len(s) /\ DOMAIN s = 1 .. n
  OBVIOUS
<1>2. i \in 1 .. n
  BY <1>1
<1> DEFINE t == RemoveAt(s, i)
<1> HIDE DEF t
<1>3. /\ t \in Seq(S) /\ DOMAIN t = 1 .. n - 1
      /\ \A j \in 1 .. n - 1 : t[j] = IF j < i THEN s[j] ELSE s[j + 1]
  <2>1. OneLess(S, s, n, i, t)
    BY <1>1, <1>2, RemoveAtElements, Zenon DEF t
  <2>2. QED
    BY <2>1 DEF OneLess
<1>4. \A j, k \in 1 .. n : s[j] = s[k] => j = k
  BY <1>1 DEF OnceEach
<1>5. ASSUME NEW j \in 1 .. n - 1, NEW k \in 1 .. n - 1, t[j] = t[k] PROVE j = k
  <2>1. PICK p \in 1 .. n : t[j] = s[p] /\ p = IF j < i THEN j ELSE j + 1
    BY <1>3
  <2>2. PICK q \in 1 .. n : t[k] = s[q] /\ q = IF k < i THEN k ELSE k + 1
    BY <1>3
  <2>3. p = q
    BY <1>4, <1>5, <2>1, <2>2
  <2>4. QED
    BY <1>2, <2>1, <2>2, <2>3
<1>6. ASSUME NEW x, Listed(x, t) PROVE Listed(x, s) /\ x # s[i]
  <2>1. PICK j \in 1 .. n - 1 : t[j] = x
    BY <1>3, <1>6 DEF Listed
  <2>2. PICK p \in 1 .. n : t[j] = s[p] /\ p # i
    BY <1>2, <1>3
  <2>3. s[p] # s[i]
    BY <1>2, <1>4, <2>2
  <2>4. QED
    BY <1>1, <2>1, <2>2, <2>3 DEF Listed
<1>7. ASSUME NEW x, Listed(x, s), x # s[i] PROVE Listed(x, t)
  <2>1. PICK p \in 1 .. n : s[p] = x /\ p # i
    BY <1>1, <1>2, <1>7 DEF Listed
  <2>2. PICK j \in 1 .. n - 1 : j = IF p < i THEN p ELSE p - 1
    BY <1>2, <2>1
  <2>3. t[j] = s[p]
    BY <1>2, <1>3, <2>1, <2>2
  <2>4. QED
    BY <1>3, <2>1, <2>3 DEF Listed
<1>8. OnceEach(t)
  BY <1>3, <1>5 DEF OnceEach
<1>9. QED
  BY <1>3, <1>6, <1>7, <1>8 DEF t

LEMMA AppendOnce ==
  ASSUME NEW S, NEW s \in Seq(S), OnceEach(s), NEW g \in S, ~Listed(g, s)
  PROVE  /\ Append(s, g) \in Seq(S) /\ OnceEach(Append(s, g))
         /\ \A x : Listed(x, Append(s, g)) <=> Listed(x, s) \/ x = g
<1>1. PICK n \in Nat : n = Len(s) /\ DOMAIN s = 1 .. n
  OBVIOUS
<1> DEFINE t == Append(s, g)
<1>2. /\ t \in Seq(S) /\ DOMAIN t = 1 .. n + 1 /\ t[n + 1] = g
      /\ \A j \in 1 .. n : t[j] = s[j]
  BY <1>1
<1> HIDE DEF t
<1>3. \A j \in 1 .. n : s[j] # g
  BY <1>1 DEF Listed
<1>4. \A j, k \in 1 .. n : s[j] = s[k] => j = k
  BY <1>1 DEF OnceEach
<1>5. \A j \in 1 .. n + 1 : j \in 1 .. n \/ j = n + 1
  OBVIOUS
<1>6. OnceEach(t)
  BY <1>2, <1>3, <1>4, <1>5 DEF OnceEach
<1>7. \A x : Listed(x, t) <=> Listed(x, s) \/ x = g
  <2>1. 1 .. n \subseteq 1 .. n + 1 /\ n + 1 \in 1 .. n + 1
    OBVIOUS
  <2>2. QED
    BY <1>1, <1>2, <1>5, <2>1 DEF Listed
<1>8. QED
  BY <1>2, <1>6, <1>7 DEF t

(* A list without repetition is as long as its set of elements. *)
LEMMA OnceEachCounts ==
  ASSUME NEW S, NEW s \in Seq(S), OnceEach(s)
  PROVE  Len(s) = Cardinality(ToSet(s))
<1>1. PICK n \in Nat : n = Len(s) /\ DOMAIN s = 1 .. n
  OBVIOUS
<1>2. s \in [1 .. n -> ToSet(s)]
  BY <1>1 DEF ToSet
<1>3. \A a, b \in 1 .. n : s[a] = s[b] => a = b
  BY <1>1 DEF OnceEach
<1>4. \A t \in ToSet(s) : \E a \in 1 .. n : s[a] = t
  BY <1>1 DEF ToSet
<1>5. s \in Bijection(1 .. n, ToSet(s))
  BY <1>2, <1>3, <1>4, Fun_IsBij
<1>6. ExistsBijection(1 .. n, ToSet(s))
  BY <1>5 DEF ExistsBijection
<1>7. QED
  BY <1>1, <1>6, FS_CountingElements

(* Division with a remainder, and its only result. *)
LEMMA Division ==
  ASSUME NEW n \in Nat \ {0}, NEW a \in Int
  PROVE  \E d \in Int, e \in 0 .. n - 1 : d = a \div n /\ e = a % n /\ a = d * n + e
<1>1. PICK d \in Int : d = a \div n
  OBVIOUS
<1>2. PICK e \in 0 .. n - 1 : e = a % n
  OBVIOUS
<1>3. a = d * n + e
  BY <1>1, <1>2, SMTT(30)
<1> QED  BY <1>1, <1>2, <1>3

LEMMA DivisionUnique ==
  ASSUME NEW n \in Nat \ {0}, NEW q \in Int, NEW r \in 0 .. n - 1,
         NEW a \in Int, a = q * n + r
  PROVE  a \div n = q /\ a % n = r
<1>1. PICK d \in Int, e \in 0 .. n - 1 : d = a \div n /\ e = a % n /\ a = d * n + e
  BY Division
<1>2. (d - q) * n = r - e
  BY <1>1
<1>3. d = q
  <2>1. CASE d - q >= 1
    <3>1. (d - q) * n >= n
      BY <2>1
    <3> QED  BY <3>1, <1>2
  <2>2. CASE d - q =< -1
    <3>1. (d - q) * n =< - n
      BY <2>2
    <3> QED  BY <3>1, <1>2
  <2> QED  BY <2>1, <2>2
<1>4. e = r
  BY <1>2, <1>3
<1> QED  BY <1>1, <1>3, <1>4

(* The quotient of what is below a product. *)
LEMMA QuotientBelow ==
  ASSUME NEW n \in Nat \ {0}, NEW m \in Nat, NEW d \in Int, NEW e \in 0 .. n - 1,
         d * n + e >= 0, d * n + e < m * n
  PROVE  d \in 0 .. m - 1
<1>1. d >= 0
  <2>1. CASE d =< -1
    <3>1. d * n =< - n
      BY <2>1
    <3> QED  BY <3>1
  <2> QED  BY <2>1
<1>2. d < m
  <2>1. CASE d >= m
    <3>1. d * n >= m * n
      BY <2>1
    <3> QED  BY <3>1
  <2> QED  BY <2>1
<1> QED  BY <1>1, <1>2
=============================================================================
