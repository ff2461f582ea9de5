----------------------------- MODULE SlugProofs -----------------------------
(***************************************************************************)
(* Proofs about Slug.tla, for texts of any length.  Nothing here is an        *)
(* induction over a text: the k-th of a finite set of positions is the one    *)
(* with k positions up to it, and counting (FiniteSetTheorems) does the rest. *)
(***************************************************************************)
EXTENDS Slug, FiniteSetTheorems, TLAPS

UpTo(S, i) == {j \in S : j =< i}
Rank(S, i) == Cardinality(UpTo(S, i))

(* The positions in S correspond, in order, to 1..Cardinality(S). *)
Enumerates(S) ==
    /\ IsFiniteSet(S) /\ Cardinality(S) \in Nat
    /\ \A k \in 1..Cardinality(S) : Nth(S, k) \in S
    /\ \A i \in S : \E k \in 1..Cardinality(S) : Nth(S, k) = i
    /\ \A k, l \in 1..Cardinality(S) : k < l <=> Nth(S, k) < Nth(S, l)

-----------------------------------------------------------------------------
LEMMA Ranks ==
  ASSUME NEW n \in Nat, NEW S \in SUBSET (1..n)
  PROVE  /\ IsFiniteSet(S) /\ Cardinality(S) \in Nat
         /\ \A i \in S : Rank(S, i) \in 1..Cardinality(S)
         /\ \A i, j \in S : i < j => Rank(S, i) < Rank(S, j)
<1>0. \A i \in S : i \in Nat
  OBVIOUS
<1>1. IsFiniteSet(S) /\ Cardinality(S) \in Nat
  <2>1. IsFiniteSet(1..n)
    BY FS_Interval
  <2> QED BY <2>1, FS_Subset, FS_CardinalityType
<1>2. ASSUME NEW i \in S
      PROVE  IsFiniteSet(UpTo(S, i)) /\ Rank(S, i) \in Nat /\ Rank(S, i) <= Cardinality(S)
  <2>1. UpTo(S, i) \in SUBSET S
    BY DEF UpTo
  <2> QED BY <1>1, <2>1, FS_Subset, FS_CardinalityType DEF Rank
<1>3. ASSUME NEW i \in S PROVE Rank(S, i) # 0
  <2>1. i \in UpTo(S, i)
    BY DEF UpTo
  <2> QED BY <1>2, <2>1, FS_EmptySet DEF Rank
<1>4. ASSUME NEW i \in S, NEW j \in S, i < j PROVE Rank(S, i) < Rank(S, j)
  <2>1. \A x \in UpTo(S, i) : x \in UpTo(S, j)
    BY <1>0, <1>4 DEF UpTo
  <2>2. j \in UpTo(S, j) /\ j \notin UpTo(S, i)
    BY <1>4 DEF UpTo
  <2>3. /\ Rank(S, i) <= Rank(S, j)
        /\ Rank(S, i) = Rank(S, j) => UpTo(S, i) = UpTo(S, j)
    BY <1>2, <2>1, FS_Subset DEF Rank
  <2> QED BY <1>2, <2>2, <2>3
<1> QED BY <1>1, <1>2, <1>3, <1>4

LEMMA Enumeration ==
  ASSUME NEW n \in Nat, NEW S \in SUBSET (1..n)
  PROVE  Enumerates(S)
<1> DEFINE m == Cardinality(S)
           f == [i \in S |-> Rank(S, i)]
<1>0. \A i \in S : i \in Nat
  OBVIOUS
<1>1. /\ IsFiniteSet(S) /\ m \in Nat
      /\ \A i \in S : Rank(S, i) \in 1..m
      /\ \A i, j \in S : i < j => Rank(S, i) < Rank(S, j)
  BY Ranks
<1>2. \A i, j \in S : Rank(S, i) = Rank(S, j) => i = j
  BY <1>1
<1>3. f \in Surjection(S, 1..m)
  <2>1. f \in Injection(S, 1..m)
    BY <1>1, <1>2 DEF Injection, IsInjective
  <2>2. IsFiniteSet(1..m) /\ Cardinality(1..m) = m
    BY <1>1, FS_Interval
  <2> HIDE DEF f
  <2> QED BY <2>1, <2>2, FS_Injection
<1>4. ASSUME NEW k \in 1..m PROVE Nth(S, k) \in S /\ Rank(S, Nth(S, k)) = k
  <2>1. \E i \in S : Rank(S, i) = k
    BY <1>3 DEF Surjection
  <2> QED BY <2>1 DEF Nth, Rank, UpTo
<1>5. \A i \in S : Nth(S, Rank(S, i)) = i
  BY <1>1, <1>2, <1>4
<1>6. ASSUME NEW k \in 1..m, NEW l \in 1..m PROVE k < l <=> Nth(S, k) < Nth(S, l)
  <2> DEFINE a == Nth(S, k)
             b == Nth(S, l)
  <2>1. /\ a \in S /\ Rank(S, a) = k /\ a \in Nat
        /\ b \in S /\ Rank(S, b) = l /\ b \in Nat
    BY <1>0, <1>4
  <2> HIDE DEF a, b
  <2>2. (a < b => k < l) /\ (b < a => l < k) /\ (a = b => k = l)
    BY <1>1, <2>1
  <2>3. a < b \/ b < a \/ a = b
    BY <2>1
  <2> QED BY <2>2, <2>3 DEF a, b
<1> QED BY <1>1, <1>4, <1>5, <1>6 DEF Enumerates

(* The positions up to n are numbered as they are. *)
LEMMA Initial ==
  ASSUME NEW n \in Nat
  PROVE  Cardinality(1..n) = n /\ \A k \in 1..n : Nth(1..n, k) = k
<1>1. Cardinality(1..n) = n
  BY FS_Interval
<1>2. ASSUME NEW i \in 1..n PROVE Cardinality({j \in 1..n : j =< i}) = i
  <2>1. {j \in 1..n : j =< i} = 1..i
    OBVIOUS
  <2>2. Cardinality(1..i) = i
    BY FS_Interval
  <2> QED BY <2>1, <2>2
<1>3. ASSUME NEW k \in 1..n PROVE Nth(1..n, k) = k
  BY <1>2 DEF Nth
<1> QED BY <1>1, <1>3

(* What Kept leaves of a text, and that it leaves all if nothing is to go. *)
LEMMA KeptText ==
  ASSUME NEW X, NEW s \in Seq(X), NEW S \in SUBSET (DOMAIN s)
  PROVE  /\ Enumerates(S)
         /\ Kept(s, S) \in Seq(X)
         /\ Len(Kept(s, S)) = Cardinality(S)
         /\ DOMAIN Kept(s, S) = 1..Cardinality(S)
         /\ \A k \in 1..Cardinality(S) : Kept(s, S)[k] = s[Nth(S, k)]
<1>1. Enumerates(S)
  <2>1. Len(s) \in Nat /\ S \in SUBSET (1..Len(s))
    OBVIOUS
  <2> QED BY <2>1, Enumeration
<1>2. Cardinality(S) \in Nat /\ \A k \in 1..Cardinality(S) : s[Nth(S, k)] \in X
  BY <1>1 DEF Enumerates
<1> QED BY <1>1, <1>2 DEF Kept

LEMMA KeptWhole ==
  ASSUME NEW X, NEW s \in Seq(X)
  PROVE  Kept(s, DOMAIN s) = s
<1>1. DOMAIN s = 1..Len(s) /\ Len(s) \in Nat
  OBVIOUS
<1>2. Cardinality(1..Len(s)) = Len(s) /\ \A k \in 1..Len(s) : Nth(1..Len(s), k) = k
  BY <1>1, Initial
<1>3. Kept(s, DOMAIN s) = [k \in 1..Len(s) |-> s[k]]
  BY <1>1, <1>2 DEF Kept
<1> QED BY <1>1, <1>3

(* As many of some positions are among the kept ones as there are, if all of them are kept. *)
LEMMA KeptCount ==
  ASSUME NEW S, Enumerates(S), NEW P \in SUBSET S
  PROVE  Cardinality({k \in 1..Cardinality(S) : Nth(S, k) \in P}) = Cardinality(P)
<1> DEFINE K == {k \in 1..Cardinality(S) : Nth(S, k) \in P}
           f == [k \in K |-> Nth(S, k)]
<1>1. f \in [K -> P]
  OBVIOUS
<1>2. \A k, l \in K : f[k] = f[l] => k = l
  BY DEF Enumerates
<1>3. \A i \in P : \E k \in K : f[k] = i
  BY DEF Enumerates
<1>4. f \in Bijection(K, P)
  <2> HIDE DEF f, K
  <2> QED BY <1>1, <1>2, <1>3 DEF Bijection, Injection, Surjection, IsInjective
<1>5. IsFiniteSet(K)
  <2>1. IsFiniteSet(1..Cardinality(S))
    BY FS_Interval DEF Enumerates
  <2>2. K \in SUBSET (1..Cardinality(S))
    OBVIOUS
  <2> QED BY <2>1, <2>2, FS_Subset
<1> HIDE DEF f, K
<1>6. ExistsBijection(K, P)
  BY <1>4 DEF ExistsBijection
<1>7. Cardinality(P) = Cardinality(K)
  BY <1>5, <1>6, FS_Bijection
<1> QED BY <1>7 DEF K

-----------------------------------------------------------------------------
(* The positions of the characters in C, and what Kept leaves of them. *)
Of(s, C) == {i \in DOMAIN s : s[i] \in C}

LEMMA KeptOf ==
  ASSUME NEW X, NEW s \in Seq(X), NEW S \in SUBSET (DOMAIN s), NEW C, Of(s, C) \subseteq S
  PROVE  Cardinality(Of(Kept(s, S), C)) = Cardinality(Of(s, C))
<1>1. /\ Enumerates(S)
      /\ DOMAIN Kept(s, S) = 1..Cardinality(S)
      /\ \A k \in 1..Cardinality(S) : Kept(s, S)[k] = s[Nth(S, k)] /\ Nth(S, k) \in S
  BY KeptText DEF Enumerates
<1>2. Of(Kept(s, S), C) = {k \in 1..Cardinality(S) : Nth(S, k) \in Of(s, C)}
  BY <1>1 DEF Of
<1> QED BY <1>1, <1>2, KeptCount

(* The positions in a text are finitely many, at most as many as it is long. *)
LEMMA FinitelyMany ==
  ASSUME NEW X, NEW s \in Seq(X), NEW S \in SUBSET (DOMAIN s)
  PROVE  /\ IsFiniteSet(S) /\ Cardinality(S) \in 0..Len(s)
         /\ Cardinality(S) = 0 <=> S = {}
<1>1. DOMAIN s = 1..Len(s) /\ Len(s) \in Nat
  OBVIOUS
<1>2. IsFiniteSet(1..Len(s)) /\ Cardinality(1..Len(s)) = Len(s)
  <2>1. IsFiniteSet(1..Len(s))
    BY <1>1, FS_Interval
  <2>2. Cardinality(1..Len(s)) = Len(s)
    BY <1>1, Initial
  <2> QED BY <2>1, <2>2
<1>3. IsFiniteSet(S) /\ Cardinality(S) <= Len(s)
  BY <1>1, <1>2, FS_Subset
<1>4. Cardinality(S) \in Nat
  BY <1>3, FS_CardinalityType
<1>5. Cardinality(S) = 0 <=> S = {}
  BY <1>3, FS_EmptySet
<1> QED BY <1>1, <1>3, <1>4, <1>5

-----------------------------------------------------------------------------
Hyphenated == Seq({"a", "-"})

Single(s) == \A i \in 2..Len(s) : ~(s[i - 1] = "-" /\ s[i] = "-")

(* Hyphenation keeps the small letters and never leaves two hyphens side by side. *)
LEMMA Hyphenation ==
  ASSUME NEW X, NEW s \in Seq(X)
  PROVE  /\ Hyphenate(s) \in Hyphenated
         /\ Single(Hyphenate(s))
         /\ Cardinality(Of(Hyphenate(s), {"a"})) = Cardinality(Of(s, {"a"}))
<1> DEFINE h == [i \in DOMAIN s |-> IF s[i] = "a" THEN "a" ELSE "-"]
           S == {i \in DOMAIN s : i = 1 \/ s[i] = "a" \/ s[i - 1] = "a"}
           m == Cardinality(S)
<1>1. Hyphenate(s) = Kept(h, S)
  BY DEF Hyphenate
<1>2. DOMAIN s = 1..Len(s) /\ Len(s) \in Nat
  OBVIOUS
<1>3. /\ h \in Hyphenated /\ S \in SUBSET (DOMAIN h) /\ Of(h, {"a"}) = Of(s, {"a"})
      /\ Of(h, {"a"}) \subseteq S
  <2>1. h \in Hyphenated
    BY <1>2 DEF Hyphenated
  <2>2. Of(h, {"a"}) = Of(s, {"a"}) /\ Of(h, {"a"}) \subseteq S
    BY DEF Of
  <2> QED BY <2>1, <2>2
<1>4. /\ Enumerates(S) /\ Kept(h, S) \in Hyphenated
      /\ Len(Kept(h, S)) = m
      /\ \A k \in 1..m : Kept(h, S)[k] = h[Nth(S, k)] /\ Nth(S, k) \in S
  <2> HIDE DEF h, S
  <2> QED BY <1>3, KeptText DEF Hyphenated, Enumerates
<1>5. Single(Kept(h, S))
  <2> SUFFICES ASSUME NEW k \in 2..m, h[Nth(S, k - 1)] = "-", h[Nth(S, k)] = "-"
               PROVE  FALSE
    <3>1. m \in Nat
      BY <1>4 DEF Enumerates
    <3>2. \A k \in 2..m : k \in 1..m /\ k - 1 \in 1..m
      BY <3>1
    <3> QED BY <3>2, <1>4 DEF Single
  <2> DEFINE i == Nth(S, k - 1)
             j == Nth(S, k)
  <2>1. k \in 1..m /\ k - 1 \in 1..m /\ k \in Nat /\ m \in Nat
    BY <1>4 DEF Enumerates
  <2>2. i \in S /\ j \in S /\ i < j
    BY <2>1, <1>4 DEF Enumerates
  <2>3. i \in 1..Len(s) /\ j \in 1..Len(s) /\ s[i] # "a" /\ s[j] # "a" /\ j # 1
    BY <2>2, <1>2
  <2>4. s[j - 1] = "a" /\ j - 1 \in 1..Len(s)
    BY <2>2, <2>3, <1>2
  <2>5. j - 1 \in S /\ i < j - 1
    BY <2>2, <2>3, <2>4, <1>2
  <2>6. PICK l \in 1..m : Nth(S, l) = j - 1
    BY <2>5, <1>4 DEF Enumerates
  <2>7. k - 1 < l /\ l < k
    <3>1. Nth(S, k - 1) < Nth(S, l) /\ Nth(S, l) < Nth(S, k)
      BY <2>3, <2>5, <2>6
    <3> HIDE DEF i, j, S, h
    <3> QED BY <3>1, <2>1, <1>4 DEF Enumerates
  <2> QED BY <2>1, <2>7
<1>6. Cardinality(Of(Kept(h, S), {"a"})) = Cardinality(Of(s, {"a"}))
  <2> HIDE DEF h, S
  <2> QED BY <1>3, KeptOf DEF Hyphenated
<1> QED BY <1>1, <1>4, <1>5, <1>6

-----------------------------------------------------------------------------
(* Groups of small letters with one hyphen between two of them, or nothing. *)
Edged(s) == Len(s) # 0 => s[1] = "a" /\ s[Len(s)] = "a"

(* Trimming the hyphens off a text keeps the small letters, brings one to each edge, and
   leaves no hyphens side by side if there were none. *)
LEMMA Trimming ==
  ASSUME NEW s \in Hyphenated, Single(s)
  PROVE  LET t == TrimEdges(s, {"-"})
         IN  /\ t \in Hyphenated /\ Single(t) /\ Edged(t)
             /\ Len(t) <= Len(s)
             /\ Cardinality(Of(t, {"a"})) = Cardinality(Of(s, {"a"}))
<1> DEFINE S == {i \in DOMAIN s : /\ \E j \in 1..i : s[j] \notin {"-"}
                                 /\ \E j \in i..Len(s) : s[j] \notin {"-"}}
           m == Cardinality(S)
           t == Kept(s, S)
<1>1. TrimEdges(s, {"-"}) = t
  BY DEF TrimEdges
<1>2. /\ DOMAIN s = 1..Len(s) /\ Len(s) \in Nat
      /\ \A i \in 1..Len(s) : s[i] \in {"a", "-"}
  BY DEF Hyphenated
<1>3. /\ S \in SUBSET (DOMAIN s)
      /\ \A i \in DOMAIN s : s[i] = "a" => i \in S
      /\ \A i \in S : \E j \in S : j <= i /\ s[j] = "a"
      /\ \A i \in S : \E j \in S : i <= j /\ s[j] = "a"
      /\ \A i, j \in S : i + 1 < j => i + 1 \in S
  <2>1. \A i \in DOMAIN s : s[i] = "a" => i \in S
    BY <1>2
  <2>2. \A i \in S : \E j \in S : j <= i /\ s[j] = "a"
    BY <1>2, <2>1
  <2>3. \A i \in S : \E j \in S : i <= j /\ s[j] = "a"
    BY <1>2, <2>1
  <2>4. \A i, j \in S : i + 1 < j => i + 1 \in S
    BY <1>2
  <2> QED BY <2>1, <2>2, <2>3, <2>4
<1> HIDE DEF S
<1>4. /\ Enumerates(S) /\ m \in Nat /\ t \in Hyphenated
      /\ Len(t) = m /\ DOMAIN t = 1..m
      /\ \A k \in 1..m : t[k] = s[Nth(S, k)] /\ Nth(S, k) \in S
  <2>1. /\ Enumerates(S) /\ t \in Seq({"a", "-"})
        /\ Len(t) = m /\ DOMAIN t = 1..m
        /\ \A k \in 1..m : t[k] = s[Nth(S, k)]
    <3>1. s \in Seq({"a", "-"}) /\ S \in SUBSET (DOMAIN s)
      BY <1>3 DEF Hyphenated
    <3> QED BY <3>1, KeptText
  <2> HIDE DEF t
  <2> QED BY <2>1 DEF Hyphenated, Enumerates
<1>5. \A i \in S : i \in Nat
  BY <1>2, <1>3
<1>6. Single(t)
  <2> SUFFICES ASSUME NEW k \in 2..m, s[Nth(S, k - 1)] = "-", s[Nth(S, k)] = "-"
               PROVE  FALSE
    <3>1. \A k \in 2..m : k \in 1..m /\ k - 1 \in 1..m
      BY <1>4
    <3> QED BY <3>1, <1>4 DEF Single
  <2> DEFINE i == Nth(S, k - 1)
             j == Nth(S, k)
  <2>1. k \in 1..m /\ k - 1 \in 1..m /\ k \in Nat
    BY <1>4
  <2>2. i \in S /\ j \in S /\ i < j /\ s[i] = "-" /\ s[j] = "-"
    BY <2>1, <1>4 DEF Enumerates
  <2> HIDE DEF i, j
  <2>3. j # i + 1
    BY <2>2, <1>2, <1>3 DEF Single
  <2>4. i + 1 \in S /\ i < i + 1 /\ i + 1 < j
    BY <2>2, <2>3, <1>3, <1>5
  <2>5. PICK l \in 1..m : Nth(S, l) = i + 1
    BY <2>4, <1>4 DEF Enumerates
  <2>6. Nth(S, k - 1) < Nth(S, l) /\ Nth(S, l) < Nth(S, k)
    BY <2>4, <2>5 DEF i, j
  <2>7. k - 1 < l /\ l < k
    BY <2>1, <2>6, <1>4 DEF Enumerates
  <2> QED BY <2>1, <2>7
<1>7. Edged(t)
  <2> SUFFICES ASSUME m # 0 PROVE s[Nth(S, 1)] = "a" /\ s[Nth(S, m)] = "a"
    <3>1. m # 0 => 1 \in 1..m /\ m \in 1..m
      BY <1>4
    <3> QED BY <3>1, <1>4 DEF Edged
  <2>1. 1 \in 1..m /\ m \in 1..m
    BY <1>4
  <2>2. Nth(S, 1) \in S /\ Nth(S, m) \in S
    BY <2>1, <1>4
  <2>3. s[Nth(S, 1)] = "a"
    <3>1. PICK j \in S : j <= Nth(S, 1) /\ s[j] = "a"
      BY <2>2, <1>3
    <3>2. PICK l \in 1..m : Nth(S, l) = j
      BY <1>4 DEF Enumerates
    <3>3. ~(1 < l)
      <4>1. ~(Nth(S, 1) < Nth(S, l))
        BY <3>1, <3>2, <2>2, <1>5
      <4> QED BY <4>1, <2>1, <1>4 DEF Enumerates
    <3> QED BY <3>1, <3>2, <3>3
  <2>4. s[Nth(S, m)] = "a"
    <3>1. PICK j \in S : Nth(S, m) <= j /\ s[j] = "a"
      BY <2>2, <1>3
    <3>2. PICK l \in 1..m : Nth(S, l) = j
      BY <1>4 DEF Enumerates
    <3>3. ~(l < m)
      <4>1. ~(Nth(S, l) < Nth(S, m))
        BY <3>1, <3>2, <2>2, <1>5
      <4> QED BY <4>1, <2>1, <1>4 DEF Enumerates
    <3> QED BY <3>1, <3>2, <3>3, <1>4
  <2> QED BY <2>3, <2>4
<1>8. Cardinality(Of(t, {"a"})) = Cardinality(Of(s, {"a"}))
  <2>1. Of(s, {"a"}) \subseteq S
    BY <1>3 DEF Of
  <2> QED BY <2>1, <1>3, KeptOf DEF Hyphenated
<1>9. m <= Len(s)
  BY <1>2, <1>3, FinitelyMany DEF Hyphenated
<1> QED BY <1>1, <1>4, <1>6, <1>7, <1>8, <1>9

(* Trimming takes nothing from between two small letters. *)
LEMMA TrimmingKeeps ==
  ASSUME NEW s \in Hyphenated, NEW n \in 1..Len(s), s[1] = "a", s[n] = "a"
  PROVE  Len(TrimEdges(s, {"-"})) >= n
<1> DEFINE S == {i \in DOMAIN s : /\ \E j \in 1..i : s[j] \notin {"-"}
                                 /\ \E j \in i..Len(s) : s[j] \notin {"-"}}
<1>1. DOMAIN s = 1..Len(s) /\ Len(s) \in Nat /\ n \in Nat
  BY DEF Hyphenated
<1>2. S \in SUBSET (DOMAIN s) /\ 1..n \in SUBSET S
  <2>1. ASSUME NEW i \in 1..n PROVE i \in S
    <3>1. i \in DOMAIN s /\ 1 \in 1..i /\ n \in i..Len(s)
      BY <1>1
    <3> QED BY <3>1
  <2> QED BY <2>1
<1> HIDE DEF S
<1>3. IsFiniteSet(S) /\ Cardinality(S) \in Nat
  BY <1>1, <1>2, FinitelyMany DEF Hyphenated
<1>4. Cardinality(1..n) <= Cardinality(S)
  BY <1>2, <1>3, FS_Subset
<1>5. Cardinality(1..n) = n
  BY <1>1, Initial
<1>6. Len(Kept(s, S)) = Cardinality(S)
  BY <1>2, KeptText DEF Hyphenated
<1> QED BY <1>1, <1>3, <1>4, <1>5, <1>6 DEF TrimEdges, S

(* A text with nothing to trim off its edges stays as it is. *)
LEMMA Untrimmed ==
  ASSUME NEW X, NEW s \in Seq(X), NEW C,
         Len(s) # 0 => s[1] \notin C /\ s[Len(s)] \notin C
  PROVE  TrimEdges(s, C) = s
<1> DEFINE S == {i \in DOMAIN s : /\ \E j \in 1..i : s[j] \notin C
                                 /\ \E j \in i..Len(s) : s[j] \notin C}
<1>1. DOMAIN s = 1..Len(s) /\ Len(s) \in Nat
  OBVIOUS
<1>2. ASSUME NEW i \in DOMAIN s PROVE i \in S
  <2>1. 1 \in 1..i /\ Len(s) \in i..Len(s) /\ Len(s) # 0
    BY <1>1
  <2> QED BY <2>1
<1>3. S = DOMAIN s
  BY <1>2
<1> HIDE DEF S
<1>4. TrimEdges(s, C) = Kept(s, DOMAIN s)
  BY <1>3 DEF TrimEdges, S
<1> QED BY <1>4, KeptWhole

-----------------------------------------------------------------------------
(* What the cut at the length limit leaves: the text, or its first characters. *)
LEMMA Cut ==
  ASSUME NEW s \in Hyphenated
  PROVE  /\ Slice(s) \in Hyphenated
         /\ Len(s) <= MaxSlugLength => Slice(s) = s
         /\ Len(s) > MaxSlugLength => Len(Slice(s)) = MaxSlugLength
         /\ \A i \in 1..Len(Slice(s)) : Slice(s)[i] = s[i]
<1> USE SlugAssumption
<1>1. DOMAIN s = 1..Len(s) /\ Len(s) \in Nat /\ s \in Seq({"a", "-"})
  BY DEF Hyphenated
<1>2. CASE Len(s) <= MaxSlugLength
  <2>1. DOMAIN s \cap 1..MaxSlugLength = DOMAIN s
    BY <1>1, <1>2
  <2>2. Slice(s) = s
    BY <1>1, <2>1, KeptWhole DEF Slice
  <2>3. ~(Len(s) > MaxSlugLength)
    BY <1>1, <1>2
  <2> QED BY <2>2, <2>3
<1>3. CASE Len(s) > MaxSlugLength
  <2>1. DOMAIN s \cap 1..MaxSlugLength = 1..MaxSlugLength
    BY <1>1, <1>3
  <2>2. 1..MaxSlugLength \in SUBSET (DOMAIN s)
    BY <2>1
  <2>3. /\ Cardinality(1..MaxSlugLength) = MaxSlugLength
        /\ \A k \in 1..MaxSlugLength : Nth(1..MaxSlugLength, k) = k
    BY Initial
  <2>4. /\ Kept(s, 1..MaxSlugLength) \in Seq({"a", "-"})
        /\ Len(Kept(s, 1..MaxSlugLength)) = Cardinality(1..MaxSlugLength)
        /\ \A k \in 1..Cardinality(1..MaxSlugLength) :
              Kept(s, 1..MaxSlugLength)[k] = s[Nth(1..MaxSlugLength, k)]
    BY <1>1, <2>2, KeptText
  <2>5. Slice(s) = Kept(s, 1..MaxSlugLength)
    BY <2>1 DEF Slice
  <2> QED BY <1>1, <1>3, <2>3, <2>4, <2>5 DEF Hyphenated
<1> QED BY <1>1, <1>2, <1>3

(* Taking the diacritics off and the capitals away keeps every letter. *)
LEMMA BareLetters ==
  ASSUME text \in Seq(Characters)
  PROVE  LET s == Lower(WithoutDiacritics(text))
         IN  s \in Seq(Characters) /\ Cardinality(Of(s, {"a"})) = Cardinality(Letters)
<1> DEFINE d == [i \in DOMAIN text |-> IF text[i] = "accented" THEN "a" ELSE text[i]]
           S == {i \in DOMAIN text : text[i] # "accent"}
           w == WithoutDiacritics(text)
<1>1. w = Kept(d, S)
  BY DEF WithoutDiacritics
<1>0. /\ DOMAIN text = 1..Len(text) /\ Len(text) \in Nat
      /\ \A i \in 1..Len(text) : text[i] \in Characters
  OBVIOUS
<1>2. d \in Seq(Characters) /\ DOMAIN d = DOMAIN text /\ S \in SUBSET (DOMAIN d)
  <2>1. d \in [1..Len(text) -> Characters]
    BY <1>0 DEF Characters
  <2>2. DOMAIN d = DOMAIN text /\ S \in SUBSET (DOMAIN d)
    OBVIOUS
  <2> HIDE DEF d, S
  <2> QED BY <1>0, <2>1, <2>2
<1>3. Of(d, {"a", "A"}) = Letters /\ Of(d, {"a", "A"}) \subseteq S
  BY DEF Of, Letters
<1> HIDE DEF d, S, w
<1>4. w \in Seq(Characters)
  BY <1>1, <1>2, KeptText
<1>5. Cardinality(Of(w, {"a", "A"})) = Cardinality(Letters)
  BY <1>1, <1>2, <1>3, KeptOf
<1>6. Lower(w) \in Seq(Characters)
  <2>1. /\ DOMAIN w = 1..Len(w) /\ Len(w) \in Nat
        /\ \A i \in 1..Len(w) : w[i] \in Characters
    BY <1>4
  <2>2. Lower(w) \in [1..Len(w) -> Characters]
    BY <2>1 DEF Lower, Characters
  <2> QED BY <2>1, <2>2
<1>7. Of(Lower(w), {"a"}) = Of(w, {"a", "A"})
  BY DEF Lower, Of
<1> QED BY <1>5, <1>6, <1>7 DEF w

(* What the text becomes, however it is made up. *)
LEMMA Normalized ==
  ASSUME text \in Seq(Characters)
  PROVE  LET t == NormalizeText(text)
         IN  /\ t \in Hyphenated /\ Single(t) /\ Edged(t) /\ Len(t) <= MaxSlugLength
             /\ Cardinality(Letters) >= MinSlugLength => Len(t) >= MinSlugLength
             /\ Letters = {} => Len(t) = 0
<1> USE SlugAssumption
<1> DEFINE b == Lower(WithoutDiacritics(text))
           h == Hyphenate(b)
           e == TrimEdges(h, {"-"})
           c == Slice(e)
           t == TrimEdges(c, {"-"})
           n == Cardinality(Letters)
<1>1. NormalizeText(text) = t
  BY DEF NormalizeText
<1>2. b \in Seq(Characters) /\ Cardinality(Of(b, {"a"})) = n
  BY BareLetters
<1> HIDE DEF b
<1>3. h \in Hyphenated /\ Single(h) /\ Cardinality(Of(h, {"a"})) = n
  BY <1>2, Hyphenation
<1> HIDE DEF h
<1>4. /\ e \in Hyphenated /\ Single(e) /\ Edged(e)
      /\ Cardinality(Of(e, {"a"})) = n
  BY <1>3, Trimming
<1>5. Len(e) \in Nat /\ \A i \in 1..Len(e) : e[i] \in {"a", "-"}
  BY <1>4 DEF Hyphenated
<1>6. n \in 0..Len(e) /\ (n = 0 => Len(e) = 0)
  <2>1. Of(e, {"a"}) \in SUBSET (DOMAIN e) /\ e \in Seq({"a", "-"})
    BY <1>4 DEF Of, Hyphenated
  <2>2. n \in 0..Len(e) /\ (n = 0 => Of(e, {"a"}) = {})
    BY <1>4, <2>1, FinitelyMany
  <2>3. Len(e) # 0 => 1 \in Of(e, {"a"})
    BY <1>4, <1>5, <2>1 DEF Edged, Of
  <2> QED BY <2>2, <2>3
<1> HIDE DEF e
<1>7. /\ c \in Hyphenated
      /\ Len(e) <= MaxSlugLength => c = e
      /\ Len(e) > MaxSlugLength => Len(c) = MaxSlugLength
      /\ \A i \in 1..Len(c) : c[i] = e[i]
  BY <1>4, Cut
<1>8. Len(c) \in Nat /\ Len(c) <= MaxSlugLength /\ Len(c) <= Len(e)
  <2>1. Len(c) \in Nat
    BY <1>7 DEF Hyphenated
  <2> HIDE DEF c
  <2>2. CASE Len(e) <= MaxSlugLength
    BY <2>2, <1>5, <1>7
  <2>3. CASE Len(e) > MaxSlugLength
    BY <2>3, <1>5, <1>7
  <2> QED BY <1>5, <2>1, <2>2, <2>3
<1> HIDE DEF c
<1>9. Single(c)
  <2>1. \A i \in 2..Len(c) : /\ i \in 1..Len(c) /\ i - 1 \in 1..Len(c) /\ i \in 2..Len(e)
    BY <1>5, <1>8
  <2> QED BY <2>1, <1>4, <1>7 DEF Single
<1>10. /\ t \in Hyphenated /\ Single(t) /\ Edged(t) /\ Len(t) <= Len(c)
       /\ Cardinality(Of(t, {"a"})) = Cardinality(Of(c, {"a"}))
  BY <1>7, <1>9, Trimming
<1>11. Len(t) \in Nat
  BY <1>10 DEF Hyphenated
<1>12. Letters = {} => Len(t) = 0
  <2>1. Letters = {} => n = 0
    BY FS_EmptySet
  <2> HIDE DEF n, t
  <2> QED BY <2>1, <1>5, <1>6, <1>8, <1>10, <1>11
<1>13. n >= MinSlugLength => Len(t) >= MinSlugLength
  <2>1. CASE Len(e) <= MaxSlugLength
    <3>1. Cardinality(Of(t, {"a"})) = n
      BY <2>1, <1>4, <1>7, <1>10
    <3>2. Of(t, {"a"}) \in SUBSET (DOMAIN t) /\ t \in Seq({"a", "-"})
      BY <1>10 DEF Of, Hyphenated
    <3>3. n <= Len(t) /\ n \in Nat
      BY <3>1, <3>2, <1>11, FinitelyMany
    <3> HIDE DEF n, t
    <3> QED BY <3>3, <1>11
  <2>2. CASE Len(e) > MaxSlugLength
    <3>1. Len(c) = MaxSlugLength /\ MaxSlugLength \in 2..Len(e) /\ MaxSlugLength - 1 \in 1..Len(c)
      BY <2>2, <1>5, <1>7
    <3>2. c[1] = "a"
      <4>1. e[1] = "a" /\ 1 \in 1..Len(c)
        BY <2>2, <3>1, <1>4 DEF Edged
      <4> QED BY <4>1, <1>7
    <3>3. c[MaxSlugLength] = "a" \/ c[MaxSlugLength - 1] = "a"
      <4>1. \A i \in 1..Len(c) : c[i] \in {"a", "-"}
        BY <1>7 DEF Hyphenated
      <4>2. MaxSlugLength \in 2..Len(c)
        BY <3>1
      <4> QED BY <3>1, <4>1, <4>2, <1>9 DEF Single
    <3>4. Len(t) >= MaxSlugLength - 1
      <4>1. MaxSlugLength - 1 \in 1..Len(c) /\ MaxSlugLength \in 1..Len(c)
        BY <3>1
      <4>2. CASE c[MaxSlugLength] = "a"
        <5>1. Len(t) >= MaxSlugLength
          BY <4>1, <4>2, <3>2, <1>7, TrimmingKeeps
        <5> HIDE DEF t
        <5> QED BY <5>1, <1>11
      <4>3. CASE c[MaxSlugLength - 1] = "a"
        BY <4>1, <4>3, <3>2, <1>7, TrimmingKeeps
      <4> QED BY <3>3, <4>2, <4>3
    <3> HIDE DEF t
    <3> QED BY <3>4, <1>11
  <2> QED BY <1>5, <2>1, <2>2
<1>14. Len(t) <= MaxSlugLength
  <2> HIDE DEF t
  <2> QED BY <1>8, <1>10, <1>11
<1> HIDE DEF t, n
<1> QED BY <1>1, <1>10, <1>12, <1>13, <1>14 DEF n

-----------------------------------------------------------------------------
(* What Slug.Create accepts, which it returns as it is. *)
Good(s) ==
    /\ s \in Hyphenated /\ Single(s) /\ Edged(s)
    /\ Len(s) \in MinSlugLength..MaxSlugLength

LEMMA Lowered ==
  ASSUME NEW s \in Hyphenated
  PROVE  Lower(s) = s /\ TrimEdges(s, {" "}) = s
<1>1. /\ s \in Seq({"a", "-"}) /\ Len(s) \in Nat /\ DOMAIN s = 1..Len(s)
      /\ \A i \in 1..Len(s) : s[i] \in {"a", "-"}
  BY DEF Hyphenated
<1>2. Lower(s) = s
  BY <1>1 DEF Lower
<1>3. Len(s) # 0 => s[1] \notin {" "} /\ s[Len(s)] \notin {" "}
  <2>1. Len(s) # 0 => 1 \in 1..Len(s) /\ Len(s) \in 1..Len(s)
    BY <1>1
  <2> QED BY <1>1, <2>1
<1>4. TrimEdges(s, {" "}) = s
  BY <1>1, <1>3, Untrimmed
<1> QED BY <1>2, <1>4

LEMMA ReadGood ==
  ASSUME NEW s \in Hyphenated, Single(s), Edged(s)
  PROVE  /\ Len(s) \in MinSlugLength..MaxSlugLength => ReadSlug(s) = s
         /\ Len(s) \notin MinSlugLength..MaxSlugLength => ReadSlug(s) = Refused
<1>1. Lower(TrimEdges(s, {" "})) = s
  BY Lowered
<1>2. Len(s) \in MinSlugLength..MaxSlugLength => SlugShape(s)
  <2>1. /\ Len(s) \in Nat /\ DOMAIN s = 1..Len(s)
        /\ \A i \in 1..Len(s) : s[i] \in {"a", "-"}
    BY DEF Hyphenated
  <2> QED BY <2>1, SlugAssumption DEF SlugShape, Edged, Single
<1> QED BY <1>1, <1>2 DEF ReadSlug

LEMMA ReadOnlyGood ==
  ASSUME NEW s \in Seq(Characters), ReadSlug(s) # Refused
  PROVE  Good(ReadSlug(s))
<1> DEFINE b == TrimEdges(s, {" "})
           g == Lower(b)
<1>1. ReadSlug(s) = g /\ Len(g) \in MinSlugLength..MaxSlugLength /\ SlugShape(g)
  BY DEF ReadSlug
<1>2. Len(b) \in Nat /\ DOMAIN b = 1..Len(b)
  <2> DEFINE S == {i \in DOMAIN s : /\ \E j \in 1..i : s[j] \notin {" "}
                                   /\ \E j \in i..Len(s) : s[j] \notin {" "}}
  <2>1. b = Kept(s, S) /\ S \in SUBSET (DOMAIN s)
    BY DEF TrimEdges
  <2> HIDE DEF S, b
  <2>2. b \in Seq(Characters)
    BY <2>1, KeptText
  <2> QED BY <2>2
<1> HIDE DEF b
<1>3. DOMAIN g = 1..Len(b) /\ \A i \in 1..Len(b) : g[i] \in {"a", "-"}
  BY <1>1, <1>2 DEF Lower, SlugShape
<1>4. g \in [1..Len(b) -> {"a", "-"}]
  BY <1>2, <1>3 DEF Lower
<1> HIDE DEF g
<1>5. g \in Hyphenated /\ Len(g) \in Nat
  BY <1>2, <1>4 DEF Hyphenated
<1> QED BY <1>1, <1>5 DEF Good, SlugShape, Single, Edged, Hyphenated

LEMMA GoodStaysAsItIs ==
  ASSUME NEW s, Good(s)
  PROVE  NormalizeText(s) = s
<1>1. /\ s \in Hyphenated /\ s \in Seq({"a", "-"}) /\ Len(s) \in Nat /\ DOMAIN s = 1..Len(s)
      /\ \A i \in 1..Len(s) : s[i] \in {"a", "-"}
      /\ Len(s) <= MaxSlugLength
  BY SlugAssumption DEF Good, Hyphenated
<1>2. WithoutDiacritics(s) = s
  <2>1. [i \in DOMAIN s |-> IF s[i] = "accented" THEN "a" ELSE s[i]] = s
    BY <1>1
  <2>2. {i \in DOMAIN s : s[i] # "accent"} = DOMAIN s
    BY <1>1
  <2> QED BY <1>1, <2>1, <2>2, KeptWhole DEF WithoutDiacritics
<1>3. Hyphenate(s) = s
  <2>1. [i \in DOMAIN s |-> IF s[i] = "a" THEN "a" ELSE "-"] = s
    BY <1>1
  <2>2. {i \in DOMAIN s : i = 1 \/ s[i] = "a" \/ s[i - 1] = "a"} = DOMAIN s
    <3>1. ASSUME NEW i \in 2..Len(s), s[i] # "a" PROVE s[i - 1] = "a"
      BY <1>1, <3>1 DEF Good, Single
    <3> QED BY <1>1, <3>1
  <2> QED BY <1>1, <2>1, <2>2, KeptWhole DEF Hyphenate
<1>4. TrimEdges(s, {"-"}) = s
  <2>1. Len(s) # 0 => s[1] \notin {"-"} /\ s[Len(s)] \notin {"-"}
    BY DEF Good, Edged
  <2> QED BY <1>1, <2>1, Untrimmed
<1>5. Slice(s) = s
  BY <1>1, Cut
<1>6. Lower(s) = s
  BY <1>1, Lowered
<1> QED BY <1>2, <1>3, <1>4, <1>5, <1>6 DEF NormalizeText

(* The two properties, of one text. *)
LEMMA SlugFromLetters ==
  ASSUME text \in Seq(Characters)
  PROVE  LettersMakeASlug
<1> DEFINE t == NormalizeText(text)
<1>1. /\ t \in Hyphenated /\ Single(t) /\ Edged(t) /\ Len(t) <= MaxSlugLength
      /\ Cardinality(Letters) >= MinSlugLength => Len(t) >= MinSlugLength
      /\ Letters = {} => Len(t) = 0
  BY Normalized
<1> HIDE DEF t
<1>2. Len(t) \in Nat
  BY <1>1 DEF Hyphenated
<1>3. ASSUME Cardinality(Letters) >= MinSlugLength PROVE ReadSlug(t) # Refused
  <2>1. Len(t) \in MinSlugLength..MaxSlugLength /\ Len(t) # 0
    BY <1>1, <1>2, <1>3, SlugAssumption
  <2>2. ReadSlug(t) = t
    BY <1>1, <2>1, ReadGood
  <2> QED BY <2>1, <2>2 DEF Refused
<1>4. ASSUME Letters = {} PROVE ReadSlug(t) = Refused
  <2>1. Len(t) \notin MinSlugLength..MaxSlugLength
    BY <1>1, <1>4, SlugAssumption
  <2> QED BY <1>1, <2>1, ReadGood
<1> QED BY <1>3, <1>4 DEF LettersMakeASlug, SlugFromText, t

LEMMA StableSlugs ==
  ASSUME text \in Seq(Characters)
  PROVE  SlugsAreStable
<1>1. ASSUME NEW s, Good(s) PROVE ReadSlug(s) = s /\ SlugFromText(s) = s
  <2>1. ReadSlug(s) = s
    BY <1>1, ReadGood DEF Good
  <2>2. NormalizeText(s) = s
    BY <1>1, GoodStaysAsItIs
  <2> QED BY <2>1, <2>2 DEF SlugFromText
<1>2. NormalizeText(text) \in Seq(Characters)
  <2> DEFINE t == NormalizeText(text)
  <2>1. t \in Seq({"a", "-"})
    BY Normalized DEF Hyphenated
  <2>2. {"a", "-"} \subseteq Characters
    BY DEF Characters
  <2> HIDE DEF t
  <2> QED BY <2>1, <2>2 DEF t
<1>3. ReadSlug(text) # Refused => Good(ReadSlug(text))
  BY ReadOnlyGood
<1>4. SlugFromText(text) # Refused => Good(SlugFromText(text))
  BY <1>2, ReadOnlyGood DEF SlugFromText
<1> QED BY <1>1, <1>3, <1>4 DEF SlugsAreStable

-----------------------------------------------------------------------------
(* A text is any sequence of characters, whatever is typed and however long it grows. *)
IsText == text \in Seq(Characters)

LEMMA TextsAreTexts == Texts => []IsText
<1>1. text = <<>> => IsText
  BY DEF IsText
<1>2. IsText /\ [Compose \/ Discard]_text => IsText'
  <2> SUFFICES ASSUME IsText, [Compose \/ Discard]_text PROVE IsText'
    OBVIOUS
  <2>1. CASE Compose
    <3>1. PICK c \in Characters : text' = Append(text, c)
      BY <2>1 DEF Compose
    <3> QED BY <3>1 DEF IsText
  <2>2. CASE Discard
    BY <2>2 DEF Discard, IsText
  <2>3. CASE UNCHANGED text
    BY <2>3 DEF IsText
  <2> QED BY <2>1, <2>2, <2>3
<1> QED BY <1>1, <1>2, PTL DEF Texts

(* NormalizeText and Slug.FromText (Slug.ts): a name with letters and digits enough makes a
   slug, whatever else it holds, however long it is and wherever the cut falls; a name with
   none makes none. *)
THEOREM LettersAreEnough == Texts => []LettersMakeASlug
<1>1. IsText => LettersMakeASlug
  BY SlugFromLetters DEF IsText
<1> QED BY <1>1, TextsAreTexts, PTL

(* Slug.Create and Slug.FromText (Slug.ts): a slug they accepted is accepted again, by both,
   and comes out as it went in, so that a stored slug and one in a path name the same
   organization. *)
THEOREM SlugsStayTheSame == Texts => []SlugsAreStable
<1>1. IsText => SlugsAreStable
  BY StableSlugs DEF IsText
<1> QED BY <1>1, TextsAreTexts, PTL
=============================================================================
