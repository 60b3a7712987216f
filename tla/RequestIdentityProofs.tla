----------------------- MODULE RequestIdentityProofs -----------------------
(***************************************************************************)
(* Theorems about RequestIdentity, for any accounts, clients and bodies.   *)
(***************************************************************************)
EXTENDS RequestIdentity, FiniteSetTheorems, SequenceTheorems, TLAPS

-----------------------------------------------------------------------------
(* Induction, as a fact about sets: the library's rule is about operators, *)
(* but that < is well founded on Nat is a fact about a set of pairs.       *)

Below == OpToRel(<, Nat)

LEMMA LeastOf ==
    ASSUME NEW T \in SUBSET Nat, T # {}
    PROVE  \E x \in T : \A y \in T : x <= y
<1>1. IsWellFoundedOn(Below, Nat)
  BY NatLessThanWellFounded DEF Below
<1>2. \A x, y \in Nat : y < x => << y, x >> \in Below
  BY DEF Below, OpToRel
<1>3. PICK x \in T : \A y \in T : << y, x >> \notin Below
  BY <1>1, WFMin
<1>4. ASSUME NEW y \in T PROVE x <= y
  <2>1. x \in Nat /\ y \in Nat
    OBVIOUS
  <2>2. ~ y < x
    BY <1>2, <1>3, <2>1
  <2> QED
    BY <2>1, <2>2
<1> QED
  BY <1>4

LEMMA Induction ==
    ASSUME NEW T, 0 \in T, \A n \in Nat : n \in T => n + 1 \in T
    PROVE  Nat \subseteq T
<1> SUFFICES ASSUME Nat \ T # {} PROVE FALSE
  OBVIOUS
<1>1. PICK x \in Nat \ T : \A y \in Nat \ T : x <= y
  BY LeastOf
<1>2. x # 0 /\ x - 1 \in Nat /\ x - 1 \notin Nat \ T
  BY <1>1
<1> QED
  BY <1>2

-----------------------------------------------------------------------------
(* The loop of stripBillingHeaders.                                        *)

(* The list after one more entry.                                          *)
More(list, b) == IF b.billing THEN list ELSE Append(list, b)

LEMMA MoreType ==
    ASSUME NEW list \in Seq(Unbilled), NEW b \in Block
    PROVE  More(list, b) \in Seq(Unbilled)
<1>1. ~ b.billing => b \in Unbilled
  BY DEF Block, Unbilled
<1> QED
  BY <1>1 DEF More

(* There is a function that describes the loop.                            *)
LEMMA LoopExists ==
    ASSUME NEW blocks \in Seq(Block)
    PROVE  \E g \in [0..Len(blocks) -> Seq(Unbilled)] :
              /\ g[0] = << >>
              /\ \A i \in 1..Len(blocks) : g[i] = More(g[i-1], blocks[i])
<1> DEFINE LoopTo(n, g) == /\ g \in [0..n -> Seq(Unbilled)]
                           /\ g[0] = << >>
                           /\ \A i \in 1..n : g[i] = More(g[i-1], blocks[i])
           P(n) == n <= Len(blocks) => \E g : LoopTo(n, g)
           T == { n \in Nat : P(n) }
<1>1. P(0)
  <2>1. LoopTo(0, [i \in 0..0 |-> << >>])
    OBVIOUS
  <2> QED
    BY <2>1
<1>2. ASSUME NEW n \in Nat, P(n) PROVE P(n + 1)
  <2> SUFFICES ASSUME n + 1 <= Len(blocks) PROVE \E h : LoopTo(n + 1, h)
    OBVIOUS
  <2>0. n <= Len(blocks)
    BY LenProperties
  <2>1. PICK g : LoopTo(n, g)
    <3> HIDE DEF LoopTo
    <3> QED
      BY <1>2, <2>0
  <2> DEFINE new == More(g[n], blocks[n+1])
             h == [i \in 0..n+1 |-> IF i = n + 1 THEN new ELSE g[i]]
  <2>2. blocks[n+1] \in Block /\ g[n] \in Seq(Unbilled)
    BY <2>1, ElementOfSeq
  <2>3. new \in Seq(Unbilled)
    BY <2>2, MoreType
  <2>4. h \in [0..n+1 -> Seq(Unbilled)]
    <3> HIDE DEF new
    <3> QED
      BY <2>1, <2>3
  <2>5. h[0] = << >> /\ h[n+1] = new
    <3> HIDE DEF new
    <3> QED
      BY <2>1
  <2>6. \A i \in 1..n+1 : h[i] = More(h[i-1], blocks[i])
    <3>1. ASSUME NEW i \in 1..n PROVE h[i] = g[i] /\ h[i-1] = g[i-1]
      <4> HIDE DEF new
      <4> QED
        OBVIOUS
    <3>2. h[n] = g[n]
      <4> HIDE DEF new
      <4> QED
        OBVIOUS
    <3> HIDE DEF h
    <3> QED
      BY <2>1, <2>5, <3>1, <3>2
  <2> HIDE DEF h
  <2>7. LoopTo(n + 1, h)
    BY <2>4, <2>5, <2>6
  <2> QED
    BY <2>7
<1> HIDE DEF P
<1>3. 0 \in T /\ \A n \in Nat : n \in T => n + 1 \in T
  BY <1>1, <1>2
<1>4. Nat \subseteq T
  <2> HIDE DEF T
  <2> QED
    BY <1>3, Induction
<1>5. P(Len(blocks))
  BY <1>4
<1> QED
  BY <1>5 DEF P

(* Filtered returns the last value of such a function.                     *)
LEMMA LoopOf ==
    ASSUME NEW blocks \in Seq(Block)
    PROVE  \E g \in [0..Len(blocks) -> Seq(Unbilled)] :
              /\ g[0] = << >>
              /\ \A i \in 1..Len(blocks) : g[i] = More(g[i-1], blocks[i])
              /\ Filtered(blocks) = g[Len(blocks)]
<1> DEFINE Is(f) == f = [n \in 0..Len(blocks) |->
                           IF n = 0 THEN << >>
                           ELSE IF blocks[n].billing THEN f[n - 1]
                           ELSE Append(f[n - 1], blocks[n])]
           F == CHOOSE f : Is(f)
<1>1. PICK g \in [0..Len(blocks) -> Seq(Unbilled)] :
               /\ g[0] = << >>
               /\ \A i \in 1..Len(blocks) : g[i] = More(g[i-1], blocks[i])
  BY LoopExists
<1>2. Is(g)
  <2> DEFINE h == [n \in 0..Len(blocks) |->
                     IF n = 0 THEN << >>
                     ELSE IF blocks[n].billing THEN g[n - 1]
                     ELSE Append(g[n - 1], blocks[n])]
  <2>1. ASSUME NEW n \in 0..Len(blocks) PROVE g[n] = h[n]
    <3>1. CASE n = 0
      BY <1>1, <3>1
    <3>2. CASE n # 0
      <4>1. n \in 1..Len(blocks)
        BY <3>2, LenProperties
      <4> QED
        BY <1>1, <3>2, <4>1 DEF More
    <3> QED
      BY <3>1, <3>2
  <2>2. h = [n \in 0..Len(blocks) |-> h[n]] /\ g = [n \in 0..Len(blocks) |-> g[n]]
    BY <1>1
  <2> HIDE DEF h
  <2>3. g = h
    BY <2>1, <2>2
  <2> QED
    BY <2>3 DEF h
<1>3. Is(F)
  BY <1>2
<1>4. Filtered(blocks) = F[Len(blocks)]
  BY DEF Filtered
<1> HIDE DEF F
<1>5. \A n \in 0..Len(blocks) : F[n] = IF n = 0 THEN << >> ELSE More(F[n - 1], blocks[n])
  BY <1>3 DEF More
<1> DEFINE T == { n \in Nat : n <= Len(blocks) => F[n] = g[n] }
<1>6. Nat \subseteq T
  <2>1. 0 \in T
    BY <1>1, <1>5
  <2>2. ASSUME NEW n \in Nat, n \in T, n + 1 <= Len(blocks) PROVE F[n+1] = g[n+1]
    <3>1. n + 1 \in 1..Len(blocks) /\ (n + 1) - 1 = n /\ n + 1 # 0 /\ n <= Len(blocks)
      BY <2>2
    <3>2. F[n+1] = More(F[n], blocks[n+1])
      BY <1>5, <3>1
    <3>3. g[n+1] = More(g[n], blocks[n+1])
      BY <1>1, <3>1
    <3> QED
      BY <2>2, <3>1, <3>2, <3>3
  <2>3. \A n \in Nat : n \in T => n + 1 \in T
    BY <2>2
  <2> HIDE DEF T
  <2> QED
    BY <2>1, <2>3, Induction
<1>7. Filtered(blocks) = g[Len(blocks)]
  BY <1>4, <1>6
<1> QED
  BY <1>1, <1>7

-----------------------------------------------------------------------------
(* Counting.                                                               *)

UpTo(A, i) == { k \in A : k <= i }
From(A, i) == { k \in A : k >= i }

(* An element of a finite set of numbers is the only one that is counted   *)
(* from both sides.                                                        *)
LEMMA BothSides ==
    ASSUME NEW A \in SUBSET Nat, IsFiniteSet(A), NEW i \in A
    PROVE  Cardinality(UpTo(A, i)) + Cardinality(From(A, i)) = Cardinality(A) + 1
<1>1. UpTo(A, i) \cap From(A, i) = {i} /\ UpTo(A, i) \cup From(A, i) = A
  <2>1. \A k \in A : k \in Nat /\ (k <= i \/ k >= i) /\ (k <= i /\ k >= i <=> k = i)
    BY SMT
  <2>2. \A k : /\ k \in UpTo(A, i) <=> k \in A /\ k <= i
               /\ k \in From(A, i) <=> k \in A /\ k >= i
    BY DEF UpTo, From
  <2> QED
    BY <2>1, <2>2, Zenon
<1>2. /\ IsFiniteSet(UpTo(A, i)) /\ Cardinality(UpTo(A, i)) \in Nat
      /\ IsFiniteSet(From(A, i)) /\ Cardinality(From(A, i)) \in Nat
  <2>1. UpTo(A, i) \in SUBSET A /\ From(A, i) \in SUBSET A
    BY DEF UpTo, From
  <2> QED
    BY <2>1, FS_Subset, FS_CardinalityType
<1>3. Cardinality({i}) = 1 /\ Cardinality(A) \in Nat
  BY FS_Singleton, FS_CardinalityType
<1>4. Cardinality(UpTo(A, i) \cup From(A, i))
        = Cardinality(UpTo(A, i)) + Cardinality(From(A, i)) - Cardinality(UpTo(A, i) \cap From(A, i))
  BY <1>2, FS_Union
<1>5. Cardinality(A) = Cardinality(UpTo(A, i)) + Cardinality(From(A, i)) - 1
  BY <1>1, <1>3, <1>4, Zenon
<1> QED
  BY <1>2, <1>3, <1>5

(* What the counting goes over is finite.                                  *)
LEMMA Counted ==
    ASSUME NEW S, NEW s \in Seq(S), NEW A \in SUBSET 1..Len(s)
    PROVE  IsFiniteSet(A) /\ Cardinality(A) \in Nat /\ A \in SUBSET Nat
<1>1. Len(s) \in Nat
  BY LenProperties
<1>2. IsFiniteSet(1..Len(s))
  BY <1>1, FS_Interval
<1>3. IsFiniteSet(A)
  BY <1>2, FS_Subset
<1>4. A \in SUBSET Nat
  BY <1>1
<1> QED
  BY <1>3, <1>4, FS_CardinalityType, Zenon

(* The cache_control blocks of a sequence.                                 *)
AllCCs(s) == CCs(s, Len(s))

LEMMA CCsOf ==
    ASSUME NEW s \in Seq(Unbilled)
    PROVE  /\ AllCCs(s) \in SUBSET 1..Len(s)
           /\ AllCCs(s) = { k \in 1..Len(s) : HasCC(s[k]) }
           /\ Total(s) = Cardinality(AllCCs(s))
           /\ \A i \in 0..Len(s) : CCs(s, i) = UpTo(AllCCs(s), i)
           /\ \A i \in 1..Len(s) :
                 From(AllCCs(s), i) = { k \in i..Len(s) : HasCC(s[k]) }
BY LenProperties DEF AllCCs, CCs, UpTo, From, Total

(* The blocks after the ttl is gone.                                       *)
LEMMA Stripped ==
    ASSUME NEW s \in Seq(Unbilled)
    PROVE  /\ StripTTL(s) \in Seq(Unbilled)
           /\ Len(StripTTL(s)) = Len(s)
           /\ \A i \in 1..Len(s) : /\ StripTTL(s)[i].cc # "ttl"
                                   /\ HasCC(StripTTL(s)[i]) <=> HasCC(s[i])
           /\ \A i \in 0..Len(s) : CCs(StripTTL(s), i) = CCs(s, i)
<1>1. DOMAIN s = 1..Len(s) /\ Len(s) \in Nat
  BY LenProperties
<1>2. ASSUME NEW i \in 1..Len(s)
      PROVE  /\ StripTTL(s)[i] \in Unbilled /\ StripTTL(s)[i].cc # "ttl"
             /\ HasCC(StripTTL(s)[i]) <=> HasCC(s[i])
  <2>1. s[i] \in [ cc : CacheControl, billing : {FALSE} ]
    BY ElementOfSeq DEF Unbilled
  <2>2. StripTTL(s)[i] = [s[i] EXCEPT !.cc = IF s[i].cc = "ttl" THEN "plain" ELSE s[i].cc]
    BY <1>1 DEF StripTTL
  <2> QED
    BY <2>1, <2>2 DEF HasCC, CacheControl, Unbilled
<1>3. StripTTL(s) = [ i \in 1..Len(s) |-> StripTTL(s)[i] ]
  BY <1>1 DEF StripTTL
<1>4. StripTTL(s) \in Seq(Unbilled) /\ Len(StripTTL(s)) = Len(s)
  BY <1>1, <1>2, <1>3
<1> QED
  BY <1>1, <1>2, <1>4 DEF CCs

LEMMA UpToType ==
    ASSUME NEW s \in Seq(Unbilled), NEW i \in 0..Len(s)
    PROVE  /\ UpTo(AllCCs(s), i) \in SUBSET AllCCs(s)
           /\ Cardinality(UpTo(AllCCs(s), i)) \in Nat
           /\ Cardinality(UpTo(AllCCs(s), i)) <= Total(s)
           /\ Total(s) \in Nat
<1>1. UpTo(AllCCs(s), i) \in SUBSET AllCCs(s) /\ AllCCs(s) \in SUBSET 1..Len(s)
  BY CCsOf DEF UpTo
<1>2. IsFiniteSet(AllCCs(s)) /\ Cardinality(AllCCs(s)) \in Nat
  BY <1>1, Counted
<1>3. /\ Cardinality(UpTo(AllCCs(s), i)) <= Cardinality(AllCCs(s))
      /\ Cardinality(UpTo(AllCCs(s), i)) \in Nat
  BY <1>1, <1>2, FS_Subset, FS_CardinalityType
<1> QED
  BY <1>1, <1>2, <1>3, CCsOf

(* removeCacheControls, after the count: the first n go.                   *)
LEMMA Removed ==
    ASSUME NEW s \in Seq(Unbilled), NEW n \in Int
    PROVE  LET out == RemoveCacheControls(StripTTL(s), n) IN
           /\ out \in Seq(SentBlock) /\ Len(out) = Len(s)
           /\ \A i \in 1..Len(s) :
                 HasCC(out[i]) <=> HasCC(s[i]) /\ Cardinality(UpTo(AllCCs(s), i)) > n
<1> DEFINE t == StripTTL(s)
           out == RemoveCacheControls(t, n)
<1>1. /\ t \in Seq(Unbilled) /\ Len(t) = Len(s) /\ DOMAIN t = 1..Len(s) /\ Len(s) \in Nat
      /\ \A i \in 1..Len(s) : t[i].cc # "ttl" /\ (HasCC(t[i]) <=> HasCC(s[i]))
      /\ \A i \in 1..Len(s) : CCs(t, i) = UpTo(AllCCs(s), i)
  BY Stripped, LenProperties, CCsOf
<1> HIDE DEF t
<1>2. ASSUME NEW i \in 1..Len(s)
      PROVE  /\ out[i] \in SentBlock
             /\ HasCC(out[i]) <=> HasCC(s[i]) /\ Cardinality(UpTo(AllCCs(s), i)) > n
  <2>1. t[i] \in [ cc : CacheControl, billing : {FALSE} ] /\ t[i].cc # "ttl"
    BY <1>1, ElementOfSeq DEF Unbilled
  <2>2. out[i] = IF Cardinality(UpTo(AllCCs(s), i)) <= n THEN [t[i] EXCEPT !.cc = "none"] ELSE t[i]
    BY <1>1 DEF RemoveCacheControls
  <2>3. Cardinality(UpTo(AllCCs(s), i)) \in Nat
    BY UpToType, LenProperties
  <2>4. CASE Cardinality(UpTo(AllCCs(s), i)) <= n
    <3>1. out[i] = [t[i] EXCEPT !.cc = "none"] /\ ~ Cardinality(UpTo(AllCCs(s), i)) > n
      BY <2>2, <2>3, <2>4
    <3> HIDE DEF out
    <3>2. out[i] \in SentBlock /\ out[i].cc = "none"
      BY <2>1, <3>1 DEF SentBlock, CacheControl
    <3> QED
      BY <3>1, <3>2 DEF HasCC
  <2>5. CASE ~ Cardinality(UpTo(AllCCs(s), i)) <= n
    <3>1. out[i] = t[i] /\ Cardinality(UpTo(AllCCs(s), i)) > n
      BY <2>2, <2>3, <2>5
    <3> QED
      BY <1>1, <2>1, <3>1 DEF SentBlock, CacheControl
  <2> QED
    BY <2>4, <2>5
<1>3. out = [ i \in 1..Len(s) |-> out[i] ]
  BY <1>1 DEF RemoveCacheControls
<1> HIDE DEF out
<1>4. out \in Seq(SentBlock) /\ Len(out) = Len(s)
  BY <1>1, <1>2, <1>3
<1> QED
  BY <1>2, <1>4 DEF out, t

(* How many are left.                                                      *)
LEMMA RemovedTotal ==
    ASSUME NEW s \in Seq(Unbilled), NEW n \in Int
    PROVE  LET left == Total(RemoveCacheControls(StripTTL(s), n)) IN
           /\ left \in Nat
           /\ left <= Total(s)
           /\ n >= Total(s) => left = 0
           /\ left > 0 => left <= Total(s) - n
<1> DEFINE out == RemoveCacheControls(StripTTL(s), n)
           A == AllCCs(s)
           K == AllCCs(out)
<1>1. /\ out \in Seq(SentBlock) /\ Len(out) = Len(s)
      /\ \A i \in 1..Len(s) : HasCC(out[i]) <=> HasCC(s[i]) /\ Cardinality(UpTo(A, i)) > n
  BY Removed
<1> HIDE DEF out
<1>2. out \in Seq(Unbilled)
  <2>1. SentBlock \subseteq Unbilled
    BY DEF SentBlock, Unbilled
  <2> QED
    BY <1>1, <2>1, SeqMonotonic
<1>3. /\ A = { k \in 1..Len(s) : HasCC(s[k]) } /\ Total(s) = Cardinality(A)
      /\ K = { k \in 1..Len(s) : HasCC(out[k]) } /\ Total(out) = Cardinality(K)
  BY <1>1, <1>2, CCsOf
<1> HIDE DEF A, K
<1>4. \A k : k \in K <=> k \in A /\ Cardinality(UpTo(A, k)) > n
  BY <1>1, <1>3
<1>5. /\ A \in SUBSET Nat /\ IsFiniteSet(A) /\ Cardinality(A) \in Nat
      /\ K \in SUBSET A
  BY <1>3, <1>4, Counted
<1>6. IsFiniteSet(K) /\ Cardinality(K) \in Nat /\ Cardinality(K) <= Cardinality(A)
  BY <1>5, FS_Subset, FS_CardinalityType
<1>7. \A k \in A : Cardinality(UpTo(A, k)) \in Nat /\ Cardinality(UpTo(A, k)) <= Cardinality(A)
  <2>1. \A k \in A : UpTo(A, k) \in SUBSET A
    BY DEF UpTo
  <2> QED
    BY <1>5, <2>1, FS_Subset, FS_CardinalityType
<1>8. ASSUME n >= Cardinality(A) PROVE Cardinality(K) = 0
  <2>1. K = {}
    BY <1>4, <1>5, <1>7, <1>8
  <2> QED
    BY <2>1, FS_EmptySet
<1>9. ASSUME Cardinality(K) > 0 PROVE Cardinality(K) <= Cardinality(A) - n
  <2>1. K # {}
    <3>1. Cardinality({}) = 0
      BY FS_EmptySet
    <3> SUFFICES ASSUME K = {} PROVE FALSE
      OBVIOUS
    <3>2. Cardinality(K) = 0
      BY <3>1, Zenon
    <3> QED
      BY <1>9, <3>2
  <2>2. PICK i \in K : \A k \in K : i <= k
    BY <1>5, <2>1, LeastOf
  <2>3. i \in A /\ Cardinality(UpTo(A, i)) > n /\ Cardinality(UpTo(A, i)) \in Nat
    BY <1>4, <1>7
  <2>4. Cardinality(UpTo(A, i)) + Cardinality(From(A, i)) = Cardinality(A) + 1
    BY <1>5, <2>3, BothSides
  <2>5. K \in SUBSET From(A, i) /\ From(A, i) \in SUBSET A
    BY <1>5, <2>2 DEF From
  <2>6. IsFiniteSet(From(A, i)) /\ Cardinality(From(A, i)) \in Nat
    BY <1>5, <2>5, FS_Subset, FS_CardinalityType
  <2>7. Cardinality(K) <= Cardinality(From(A, i))
    BY <2>5, <2>6, FS_Subset
  <2> QED
    BY <1>5, <1>6, <2>3, <2>4, <2>6, <2>7
<1> QED
  BY <1>3, <1>5, <1>6, <1>8, <1>9 DEF out

-----------------------------------------------------------------------------
(* What stays of the system prompt.                                        *)

Staying(blocks) == { k \in 1..Len(blocks) : ~ blocks[k].billing }
StayingCCs(blocks) == { k \in Staying(blocks) : HasCC(blocks[k]) }

(* The place that entry i has among those that stay.                       *)
Place(blocks, i) == Cardinality(UpTo(Staying(blocks), i))

LEMMA UpToNext ==
    ASSUME NEW A \in SUBSET Nat, IsFiniteSet(A), NEW n \in Nat
    PROVE  /\ Cardinality(UpTo(A, n)) \in Nat
           /\ Cardinality(UpTo(A, n + 1))
                = Cardinality(UpTo(A, n)) + (IF n + 1 \in A THEN 1 ELSE 0)
<1>0. \A k : /\ k \in UpTo(A, n + 1) <=> k \in A /\ (k \in UpTo(A, n) \/ k = n + 1)
             /\ k \in UpTo(A, n) => k \in A /\ k # n + 1
  <2>1. \A k \in A : (k <= n + 1 <=> k <= n \/ k = n + 1) /\ (k <= n => k # n + 1)
    BY SMT
  <2>2. \A k : /\ k \in UpTo(A, n) <=> k \in A /\ k <= n
               /\ k \in UpTo(A, n + 1) <=> k \in A /\ k <= n + 1
    BY DEF UpTo
  <2> QED
    BY <2>1, <2>2, Zenon
<1>1. UpTo(A, n) \in SUBSET A
  BY DEF UpTo
<1>2. IsFiniteSet(UpTo(A, n)) /\ Cardinality(UpTo(A, n)) \in Nat
  BY <1>1, FS_Subset, FS_CardinalityType
<1>3. CASE n + 1 \in A
  <2>1. UpTo(A, n + 1) = UpTo(A, n) \cup {n + 1} /\ n + 1 \notin UpTo(A, n)
    BY <1>0, <1>3, Zenon
  <2>2. Cardinality(UpTo(A, n) \cup {n + 1}) = Cardinality(UpTo(A, n)) + 1
    BY <1>2, <2>1, FS_AddElement
  <2> QED
    BY <1>2, <1>3, <2>1, <2>2
<1>4. CASE n + 1 \notin A
  <2>1. UpTo(A, n + 1) = UpTo(A, n)
    BY <1>0, <1>4, Zenon
  <2> QED
    BY <1>2, <1>4, <2>1
<1> QED
  BY <1>3, <1>4

(* Appending a block changes no count but the last one.                    *)
LEMMA CCsAppend ==
    ASSUME NEW s \in Seq(Unbilled), NEW b \in Unbilled
    PROVE  /\ Append(s, b) \in Seq(Unbilled) /\ Len(Append(s, b)) = Len(s) + 1
           /\ \A i \in 1..Len(s) : /\ Append(s, b)[i] = s[i]
                                   /\ CCs(Append(s, b), i) = CCs(s, i)
           /\ Append(s, b)[Len(s) + 1] = b
           /\ Total(Append(s, b)) = Total(s) + (IF HasCC(b) THEN 1 ELSE 0)
           /\ Total(s) \in Nat
<1> DEFINE t == Append(s, b)
<1>1. /\ t \in Seq(Unbilled) /\ Len(t) = Len(s) + 1 /\ Len(s) \in Nat
      /\ \A i \in 1..Len(s) : t[i] = s[i]
      /\ t[Len(s) + 1] = b
  BY AppendProperties, LenProperties
<1> HIDE DEF t
<1>2. \A i \in 1..Len(s) : CCs(t, i) = CCs(s, i)
  BY <1>1 DEF CCs
<1>3. AllCCs(t) \in SUBSET Nat /\ IsFiniteSet(AllCCs(t))
  BY <1>1, CCsOf, Counted
<1>4. UpTo(AllCCs(t), Len(s)) = AllCCs(s) /\ UpTo(AllCCs(t), Len(s) + 1) = AllCCs(t)
  <2>1. /\ AllCCs(t) = { k \in 1..Len(s) + 1 : HasCC(t[k]) }
        /\ AllCCs(s) = { k \in 1..Len(s) : HasCC(s[k]) }
    BY <1>1, CCsOf
  <2> QED
    BY <1>1, <2>1 DEF UpTo
<1>5. Len(s) + 1 \in AllCCs(t) <=> HasCC(b)
  BY <1>1, CCsOf
<1>6. /\ Cardinality(AllCCs(s)) \in Nat
      /\ Cardinality(AllCCs(t)) = Cardinality(AllCCs(s)) + (IF HasCC(b) THEN 1 ELSE 0)
  <2>1. /\ Cardinality(UpTo(AllCCs(t), Len(s))) \in Nat
        /\ Cardinality(UpTo(AllCCs(t), Len(s) + 1))
             = Cardinality(UpTo(AllCCs(t), Len(s))) + (IF Len(s) + 1 \in AllCCs(t) THEN 1 ELSE 0)
    BY <1>1, <1>3, UpToNext
  <2>2. (IF Len(s) + 1 \in AllCCs(t) THEN 1 ELSE 0) = (IF HasCC(b) THEN 1 ELSE 0)
    BY <1>5
  <2> QED
    BY <1>4, <2>1, <2>2, Zenon
<1>7. Total(s) = Cardinality(AllCCs(s)) /\ Total(t) = Cardinality(AllCCs(t))
  BY <1>1, CCsOf
<1> QED
  BY <1>1, <1>2, <1>6, <1>7 DEF t

(* What the loop's list is after n entries.                                *)
After(blocks, n, list) ==
    /\ list \in Seq(Unbilled)
    /\ Len(list) = Cardinality(UpTo(Staying(blocks), n))
    /\ Total(list) = Cardinality(UpTo(StayingCCs(blocks), n))
    /\ \A i \in Staying(blocks) : i <= n =>
          /\ Place(blocks, i) \in 1..Len(list)
          /\ list[Place(blocks, i)] = blocks[i]
          /\ Cardinality(CCs(list, Place(blocks, i))) = Cardinality(UpTo(StayingCCs(blocks), i))

LEMMA StayingType ==
    ASSUME NEW blocks \in Seq(Block)
    PROVE  /\ Staying(blocks) \in SUBSET Nat /\ IsFiniteSet(Staying(blocks))
           /\ StayingCCs(blocks) \in SUBSET Nat /\ IsFiniteSet(StayingCCs(blocks))
<1>1. Staying(blocks) \in SUBSET 1..Len(blocks) /\ StayingCCs(blocks) \in SUBSET 1..Len(blocks)
  BY DEF Staying, StayingCCs
<1> QED
  BY <1>1, Counted

LEMMA AfterOneMore ==
    ASSUME NEW blocks \in Seq(Block), NEW n \in Nat, n + 1 <= Len(blocks), NEW list,
           After(blocks, n, list)
    PROVE  After(blocks, n + 1, More(list, blocks[n+1]))
<1> DEFINE b == blocks[n+1]
           new == Append(list, b)
           K == Staying(blocks)
           H == StayingCCs(blocks)
<1>1. n + 1 \in 1..Len(blocks) /\ b \in Block
  BY ElementOfSeq, LenProperties
<1>2. /\ n + 1 \in K <=> ~ b.billing
      /\ n + 1 \in H <=> n + 1 \in K /\ HasCC(b)
  BY <1>1 DEF Staying, StayingCCs
<1>3. /\ Cardinality(UpTo(K, n)) \in Nat
      /\ Cardinality(UpTo(K, n + 1)) = Cardinality(UpTo(K, n)) + (IF n + 1 \in K THEN 1 ELSE 0)
      /\ Cardinality(UpTo(H, n)) \in Nat
      /\ Cardinality(UpTo(H, n + 1)) = Cardinality(UpTo(H, n)) + (IF n + 1 \in H THEN 1 ELSE 0)
  BY StayingType, UpToNext
<1>4. /\ list \in Seq(Unbilled) /\ Len(list) = Cardinality(UpTo(K, n))
      /\ Total(list) = Cardinality(UpTo(H, n))
      /\ \A i \in K : i <= n =>
            /\ Place(blocks, i) \in 1..Len(list)
            /\ list[Place(blocks, i)] = blocks[i]
            /\ Cardinality(CCs(list, Place(blocks, i))) = Cardinality(UpTo(H, i))
  BY DEF After
<1>5. \A i \in K : i \in Nat
  BY StayingType
<1> HIDE DEF b, new, K, H
<1>6. CASE b.billing
  <2>1. n + 1 \notin K /\ n + 1 \notin H
    BY <1>2, <1>6
  <2>2. /\ Len(list) = Cardinality(UpTo(K, n + 1))
        /\ Total(list) = Cardinality(UpTo(H, n + 1))
    BY <1>3, <1>4, <2>1
  <2>3. \A i \in K : i <= n + 1 => i <= n
    BY <1>5, <2>1
  <2>4. After(blocks, n + 1, list)
    BY <1>4, <2>2, <2>3 DEF After, K, H
  <2> QED
    BY <1>6, <2>4 DEF More, b
<1>7. CASE ~ b.billing
  <2>1. n + 1 \in K /\ (n + 1 \in H <=> HasCC(b)) /\ b \in Unbilled
    BY <1>1, <1>2, <1>7 DEF Block, Unbilled
  <2>2. /\ new \in Seq(Unbilled) /\ Len(new) = Len(list) + 1
        /\ \A i \in 1..Len(list) : new[i] = list[i] /\ CCs(new, i) = CCs(list, i)
        /\ new[Len(list) + 1] = b
        /\ Total(new) = Total(list) + (IF HasCC(b) THEN 1 ELSE 0)
        /\ Total(list) \in Nat
    BY <1>4, <2>1, CCsAppend DEF new
  <2>3. Len(new) = Cardinality(UpTo(K, n + 1)) /\ Len(list) \in Nat
    BY <1>3, <1>4, <2>1, <2>2
  <2>4. Total(new) = Cardinality(UpTo(H, n + 1))
    <3>1. (IF n + 1 \in H THEN 1 ELSE 0) = (IF HasCC(b) THEN 1 ELSE 0)
      BY <2>1
    <3> QED
      BY <1>3, <1>4, <2>2, <3>1
  <2>5. ASSUME NEW i \in K, i <= n + 1
        PROVE  /\ Place(blocks, i) \in 1..Len(new)
               /\ new[Place(blocks, i)] = blocks[i]
               /\ Cardinality(CCs(new, Place(blocks, i))) = Cardinality(UpTo(H, i))
    <3>1. CASE i <= n
      <4>1. /\ Place(blocks, i) \in 1..Len(list)
            /\ list[Place(blocks, i)] = blocks[i]
            /\ Cardinality(CCs(list, Place(blocks, i))) = Cardinality(UpTo(H, i))
        BY <1>4, <3>1
      <4>2. Place(blocks, i) \in 1..Len(new)
        BY <2>2, <2>3, <4>1
      <4> QED
        BY <2>2, <4>1, <4>2
    <3>2. CASE i = n + 1
      <4>1. Place(blocks, i) = Len(new)
        BY <2>3, <3>2 DEF Place, K
      <4>2. Len(new) = Len(list) + 1 /\ Len(new) \in 1..Len(new)
        BY <2>2, <2>3
      <4>3. Cardinality(CCs(new, Len(new))) = Cardinality(UpTo(H, n + 1))
        BY <2>4 DEF Total
      <4> QED
        BY <2>2, <3>2, <4>1, <4>2, <4>3 DEF b
    <3> QED
      BY <1>5, <2>5, <3>1, <3>2
  <2>6. After(blocks, n + 1, new)
    BY <2>2, <2>3, <2>4, <2>5 DEF After, K, H
  <2> QED
    BY <1>7, <2>6 DEF More, b, new
<1> QED
  BY <1>6, <1>7

(* What stripBillingHeaders returns: the other entries, in order.          *)
LEMMA FilteredAll ==
    ASSUME NEW blocks \in Seq(Block)
    PROVE  /\ After(blocks, Len(blocks), Filtered(blocks))
           /\ Len(Filtered(blocks)) = Cardinality(Staying(blocks))
           /\ Total(Filtered(blocks)) = Cardinality(StayingCCs(blocks))
<1>1. PICK g \in [0..Len(blocks) -> Seq(Unbilled)] :
              /\ g[0] = << >>
              /\ \A i \in 1..Len(blocks) : g[i] = More(g[i-1], blocks[i])
              /\ Filtered(blocks) = g[Len(blocks)]
  BY LoopOf
<1> DEFINE T == { n \in Nat : n <= Len(blocks) => After(blocks, n, g[n]) }
<1>2. 0 \in T
  <2>1. Staying(blocks) \in SUBSET 1..Len(blocks) /\ StayingCCs(blocks) \in SUBSET 1..Len(blocks)
    BY DEF Staying, StayingCCs
  <2>2. \A i \in Staying(blocks) : ~ i <= 0
    BY <2>1
  <2>3. UpTo(Staying(blocks), 0) = {} /\ UpTo(StayingCCs(blocks), 0) = {}
    BY <2>1 DEF UpTo
  <2>4. << >> \in Seq(Unbilled) /\ Len(<< >>) = 0
    OBVIOUS
  <2>5. CCs(<< >>, 0) = {}
    BY DEF CCs
  <2>6. Total(<< >>) = Cardinality({})
    BY <2>4, <2>5, Zenon DEF Total
  <2>7. Cardinality({}) = 0
    BY FS_EmptySet
  <2>8. /\ Len(<< >>) = Cardinality(UpTo(Staying(blocks), 0))
        /\ Total(<< >>) = Cardinality(UpTo(StayingCCs(blocks), 0))
    BY <2>3, <2>4, <2>6, <2>7, Zenon
  <2>9. After(blocks, 0, << >>)
    BY <2>2, <2>4, <2>8, Zenon DEF After
  <2> QED
    BY <1>1, <2>9
<1>3. ASSUME NEW n \in Nat, n \in T, n + 1 <= Len(blocks) PROVE After(blocks, n + 1, g[n + 1])
  <2>1. n + 1 \in 1..Len(blocks) /\ (n + 1) - 1 = n /\ n <= Len(blocks)
    BY <1>3, LenProperties
  <2>2. After(blocks, n, g[n]) /\ g[n + 1] = More(g[n], blocks[n + 1])
    BY <1>1, <1>3, <2>1
  <2> QED
    BY <1>3, <2>2, AfterOneMore
<1>4. \A n \in Nat : n \in T => n + 1 \in T
  BY <1>3
<1>5. Nat \subseteq T
  <2> HIDE DEF T
  <2> QED
    BY <1>2, <1>4, Induction
<1>6. After(blocks, Len(blocks), Filtered(blocks))
  <2>1. Len(blocks) \in Nat /\ Len(blocks) <= Len(blocks)
    BY LenProperties
  <2> QED
    BY <1>1, <1>5, <2>1
<1>7. /\ UpTo(Staying(blocks), Len(blocks)) = Staying(blocks)
      /\ UpTo(StayingCCs(blocks), Len(blocks)) = StayingCCs(blocks)
  BY LenProperties DEF UpTo, Staying, StayingCCs
<1>8. /\ Len(Filtered(blocks)) = Cardinality(Staying(blocks))
      /\ Total(Filtered(blocks)) = Cardinality(StayingCCs(blocks))
  BY <1>6, <1>7, Zenon DEF After
<1> QED
  BY <1>6, <1>8

-----------------------------------------------------------------------------
(* What Transform makes of a body.                                         *)

Excess(r) == Total(Filtered(r.system)) + Total(r.messages) - MaxCacheControls

SentMessages(r) == RemoveCacheControls(StripTTL(r.messages), Excess(r))
SentSystem(r) == RemoveCacheControls(StripTTL(Filtered(r.system)),
                                     Excess(r) - Total(r.messages))

LEMMA TransformedBody ==
    ASSUME NEW r \in RawBody, NEW a \in Account
    PROVE  Transform(r, a).body =
             [ system |-> SentSystem(r), messages |-> SentMessages(r),
               user |-> IF r.user = NoUser THEN NoUser ELSE RewriteUserID(r.user, a),
               prompt |-> r.prompt ]
<1>1. r \in [ system : Seq(Block), messages : Seq(Unbilled),
              user : ClientUser \cup {NoUser}, prompt : BOOLEAN ]
  BY IdentityAssumption DEF Body
<1> DEFINE b == StripBillingHeaders(r)
           e == EnforceCacheControl(b)
<1>2. /\ b = [ system |-> Filtered(r.system), messages |-> r.messages,
               user |-> r.user, prompt |-> r.prompt ]
  BY <1>1 DEF StripBillingHeaders
<1>3. e = [b EXCEPT !.messages = RemoveCacheControls(StripTTL(@), Excess(r)),
                    !.system   = RemoveCacheControls(StripTTL(@), Excess(r) - Total(r.messages))]
  <2>1. Total(b.system) + Total(b.messages) - MaxCacheControls = Excess(r)
    BY <1>2 DEF Excess
  <2>2. b.messages = r.messages
    BY <1>2
  <2> HIDE DEF b
  <2> QED
    BY <2>1, <2>2, Zenon DEF EnforceCacheControl
<1> HIDE DEF b, e
<1>4. e = [ system |-> SentSystem(r), messages |-> SentMessages(r),
            user |-> r.user, prompt |-> r.prompt ]
  BY <1>2, <1>3 DEF SentSystem, SentMessages
<1>5. RewriteUser(e, a) =
        [ system |-> SentSystem(r), messages |-> SentMessages(r),
          user |-> IF r.user = NoUser THEN NoUser ELSE RewriteUserID(r.user, a),
          prompt |-> r.prompt ]
  BY <1>4 DEF RewriteUser
<1>6. Transform(r, a).body = RewriteUser(e, a)
  BY DEF Transform, e, b
<1> QED
  BY <1>5, <1>6, Zenon

(* The user id and hash of the latest attempt are those of the client's    *)
(* body, and so were those of the attempt before.                          *)
IdentityInv ==
    /\ raw \in RawBody
    /\ sent # NoAttempt =>
          /\ sent.acct \in Account
          /\ sent.body.user = IF raw.user = NoUser THEN NoUser
                              ELSE RewriteUserID(raw.user, sent.acct)
          /\ sent.hash = SessionHash(sent.body)
    /\ before # NoUser =>
          before.upstream = RewriteUserID(before.client, before.acct)

LEMMA TransformedUser ==
    ASSUME NEW r \in RawBody, NEW a \in Account
    PROVE  /\ Transform(r, a).acct = a
           /\ Transform(r, a).body.user = IF r.user = NoUser THEN NoUser
                                          ELSE RewriteUserID(r.user, a)
           /\ Transform(r, a).hash = SessionHash(Transform(r, a).body)
<1>1. /\ Transform(r, a).acct = a
      /\ Transform(r, a).hash = SessionHash(Transform(r, a).body)
  BY DEF Transform
<1>2. Transform(r, a).body =
        [ system |-> SentSystem(r), messages |-> SentMessages(r),
          user |-> IF r.user = NoUser THEN NoUser ELSE RewriteUserID(r.user, a),
          prompt |-> r.prompt ]
  BY TransformedBody, Zenon
<1> QED
  BY <1>1, <1>2

LEMMA IdentityOf ==
    ASSUME IdentityInv, Identity(raw, sent) # NoUser
    PROVE  Identity(raw, sent).upstream
             = RewriteUserID(Identity(raw, sent).client, Identity(raw, sent).acct)
BY DEF Identity, IdentityInv

THEOREM IdentityInvariant == Spec => []IdentityInv
<1>1. Init => IdentityInv
  BY DEF Init, IdentityInv
<1>2. IdentityInv /\ [Next]_vars => IdentityInv'
  <2> SUFFICES ASSUME IdentityInv, [Next]_vars PROVE IdentityInv'
    OBVIOUS
  <2>1. CASE Arrive
    BY <2>1, IdentityOf DEF Arrive, IdentityInv
  <2>2. ASSUME NEW a \in Account, Attempt(a) PROVE IdentityInv'
    <3>1. raw \in RawBody /\ raw' = raw /\ sent' = Transform(raw, a)
      BY <2>2 DEF Attempt, Parsed, IdentityInv
    <3>2. before' # NoUser => before'.upstream = RewriteUserID(before'.client, before'.acct)
      BY <2>2, IdentityOf DEF Attempt, IdentityInv
    <3> QED
      BY <3>1, <3>2, TransformedUser DEF IdentityInv
  <2>3. CASE UNCHANGED vars
    BY <2>3 DEF vars, IdentityInv
  <2> QED
    BY <2>1, <2>2, <2>3 DEF Next
<1> QED
  BY <1>1, <1>2, PTL DEF Spec

(* Two attempts are in one session for the upstream if and only if they    *)
(* are made with one account and in one session of the client's.           *)
THEOREM SameSessionSameIdentity == Spec => []SessionKept
<1>1. IdentityInv => SessionKept
  <2> SUFFICES ASSUME IdentityInv, before # NoUser, Identity(raw, sent) # NoUser
               PROVE  before.upstream.session = Identity(raw, sent).upstream.session
                      <=> /\ before.acct = Identity(raw, sent).acct
                          /\ SessionOf(before.client) = SessionOf(Identity(raw, sent).client)
    BY Zenon DEF SessionKept
  <2>1. before.upstream = RewriteUserID(before.client, before.acct)
    BY DEF IdentityInv
  <2> QED
    BY <2>1, IdentityOf DEF RewriteUserID
<1> QED
  BY <1>1, IdentityInvariant, PTL

(* The hash of a body whose session has a UUID is never empty.             *)
THEOREM SessionAlwaysBound == Spec => []SessionIsBound
<1>1. IdentityInv => SessionIsBound
  <2> SUFFICES ASSUME IdentityInv, sent # NoAttempt, SessionUUIDOf(raw) # NoSession
               PROVE  sent.hash # << >>
    BY DEF SessionIsBound
  <2>1. raw.user # NoUser /\ raw \in Body(ClientUser)
    BY IdentityAssumption DEF SessionUUIDOf, IdentityInv
  <2>2. raw.user \in ClientUser /\ raw.user.session \in Session
    BY <2>1, IdentityAssumption DEF Body, ClientUser, SessionUUIDOf
  <2>3. RewriteUserID(raw.user, sent.acct) \in Derived
    BY <2>2, IdentityAssumption DEF RewriteUserID, Derived, Source, SessionOf, IdentityInv
  <2>4. sent.body.user # NoUser
    BY <2>1, <2>3, IdentityAssumption DEF IdentityInv
  <2>5. sent.hash = << "session", sent.body.user.session >>
    BY <2>4 DEF IdentityInv, SessionHash
  <2> QED
    BY <2>5
<1> QED
  BY <1>1, IdentityInvariant, PTL
-----------------------------------------------------------------------------
(* The blocks of the latest attempt.                                       *)

(* What was sent is made of the client's body, whatever was sent before.   *)
LatestInv ==
    /\ raw \in RawBody
    /\ sent # NoAttempt => sent.acct \in Account /\ sent = Transform(raw, sent.acct)

THEOREM LatestInvariant == Spec => []LatestInv
<1>1. Init => LatestInv
  BY DEF Init, LatestInv
<1>2. LatestInv /\ [Next]_vars => LatestInv'
  <2> SUFFICES ASSUME LatestInv, [Next]_vars PROVE LatestInv'
    OBVIOUS
  <2>1. CASE Arrive
    BY <2>1 DEF Arrive, LatestInv
  <2>2. ASSUME NEW a \in Account, Attempt(a) PROVE LatestInv'
    BY <2>2, TransformedUser DEF Attempt, Parsed, LatestInv
  <2>3. CASE UNCHANGED vars
    BY <2>3 DEF vars, LatestInv
  <2> QED
    BY <2>1, <2>2, <2>3 DEF Next
<1> QED
  BY <1>1, <1>2, PTL DEF Spec

(* What removeCacheControls is asked to do fits what there is.             *)
LEMMA Amounts ==
    ASSUME NEW r \in RawBody
    PROVE  /\ r.system \in Seq(Block) /\ r.messages \in Seq(Unbilled)
           /\ Filtered(r.system) \in Seq(Unbilled)
           /\ Total(r.messages) \in Nat /\ Total(Filtered(r.system)) \in Nat
           /\ Excess(r) \in Int /\ Excess(r) - Total(r.messages) \in Int
           /\ Excess(r) = Total(Filtered(r.system)) + Total(r.messages) - MaxCacheControls
<1>1. r.system \in Seq(Block) /\ r.messages \in Seq(Unbilled)
  BY IdentityAssumption DEF Body
<1>2. Filtered(r.system) \in Seq(Unbilled)
  BY <1>1, FilteredAll DEF After
<1>3. Total(r.messages) \in Nat /\ Total(Filtered(r.system)) \in Nat
  <2>1. \A s \in Seq(Unbilled) : 0 \in 0..Len(s)
    BY LenProperties
  <2> QED
    BY <1>1, <1>2, <2>1, UpToType
<1>4. MaxCacheControls \in Nat
  BY IdentityAssumption
<1> QED
  BY <1>1, <1>2, <1>3, <1>4 DEF Excess

(* What is sent is a body whose blocks have no ttl and no billing header.  *)
THEOREM IdentityTypeCorrect == Spec => []TypeOK
<1>1. LatestInv => TypeOK
  <2> SUFFICES ASSUME LatestInv, sent # NoAttempt
               PROVE  /\ sent.acct \in Account
                      /\ sent.body \in [ system : Seq(SentBlock), messages : Seq(SentBlock),
                                         user : Derived \cup {NoUser}, prompt : BOOLEAN ]
    BY DEF LatestInv, TypeOK
  <2>1. raw \in RawBody /\ sent.acct \in Account /\ sent = Transform(raw, sent.acct)
    BY DEF LatestInv
  <2>2. SentSystem(raw) \in Seq(SentBlock) /\ SentMessages(raw) \in Seq(SentBlock)
    BY <2>1, Amounts, Removed DEF SentSystem, SentMessages
  <2>3. raw.user \in ClientUser \cup {NoUser} /\ raw.prompt \in BOOLEAN
    BY <2>1, IdentityAssumption DEF Body
  <2>4. ASSUME raw.user \in ClientUser PROVE RewriteUserID(raw.user, sent.acct) \in Derived
    BY <2>1, <2>4, IdentityAssumption
       DEF ClientUser, RewriteUserID, Derived, Source, SessionOf
  <2>5. (IF raw.user = NoUser THEN NoUser ELSE RewriteUserID(raw.user, sent.acct))
          \in Derived \cup {NoUser}
    BY <2>3, <2>4
  <2>6. sent.body = [ system |-> SentSystem(raw), messages |-> SentMessages(raw),
                      user |-> IF raw.user = NoUser THEN NoUser
                               ELSE RewriteUserID(raw.user, sent.acct),
                      prompt |-> raw.prompt ]
    BY <2>1, TransformedBody, Zenon
  <2> QED
    BY <2>1, <2>2, <2>3, <2>5, <2>6
<1> QED
  BY <1>1, LatestInvariant, PTL

(* Every attempt keeps as many cache_control blocks as it may, and the     *)
(* last ones of the request.                                               *)
THEOREM BlocksLimited == Spec => []CacheControlsLimited
<1>1. LatestInv => CacheControlsLimited
  <2> SUFFICES ASSUME LatestInv, sent # NoAttempt PROVE CacheControlsLimited
    BY DEF CacheControlsLimited
  <2> DEFINE asked == raw.messages
             kept == Staying(raw.system)
             ccs == StayingCCs(raw.system)
             s == Filtered(raw.system)
             e == Excess(raw)
             inSystem(i) == { k \in kept : k >= i /\ HasCC(raw.system[k]) }
             inMessages(i) == { k \in i..Len(asked) : HasCC(asked[k]) }
  <2>1. /\ raw \in RawBody /\ sent.acct \in Account
        /\ sent.body.messages = SentMessages(raw) /\ sent.body.system = SentSystem(raw)
    <3>1. raw \in RawBody /\ sent.acct \in Account /\ sent = Transform(raw, sent.acct)
      BY DEF LatestInv
    <3>2. sent.body = [ system |-> SentSystem(raw), messages |-> SentMessages(raw),
                        user |-> IF raw.user = NoUser THEN NoUser
                                 ELSE RewriteUserID(raw.user, sent.acct),
                        prompt |-> raw.prompt ]
      BY <3>1, TransformedBody, Zenon
    <3> QED
      BY <3>1, <3>2
  <2>2. /\ raw.system \in Seq(Block) /\ asked \in Seq(Unbilled) /\ s \in Seq(Unbilled)
        /\ Total(asked) \in Nat /\ Total(s) \in Nat
        /\ e \in Int /\ e - Total(asked) \in Int
        /\ e = Total(s) + Total(asked) - MaxCacheControls
        /\ MaxCacheControls \in Nat
    BY <2>1, Amounts, IdentityAssumption
  <2>3. /\ After(raw.system, Len(raw.system), s)
        /\ Len(s) = Cardinality(kept) /\ Total(s) = Cardinality(ccs)
    BY <2>2, FilteredAll
  <2>4. kept \in SUBSET 1..Len(raw.system) /\ DOMAIN raw.system = 1..Len(raw.system)
    BY <2>2, LenProperties DEF Staying
  <2>5. kept = { i \in DOMAIN raw.system : ~ raw.system[i].billing }
    BY <2>4 DEF Staying
  <2>6. ccs \in SUBSET Nat /\ IsFiniteSet(ccs) /\ ccs \in SUBSET kept
    BY <2>2, StayingType DEF StayingCCs
  <2>7. \A i \in kept : inSystem(i) = From(ccs, i)
    BY DEF From, StayingCCs
  <2>8. inSystem(1) = ccs
    BY <2>2, StayingType, <2>4 DEF StayingCCs
  <2>9. \A i \in 1..Len(asked) : inMessages(i) = From(AllCCs(asked), i)
    BY <2>2, CCsOf
  <2>10. DOMAIN asked = 1..Len(asked)
    BY <2>2, LenProperties
  <2> HIDE DEF asked, kept, ccs, s, e, inSystem, inMessages
  <2>11. /\ Len(sent.body.messages) = Len(asked)
         /\ \A i \in 1..Len(asked) :
               HasCC(sent.body.messages[i])
               <=> HasCC(asked[i]) /\ Cardinality(UpTo(AllCCs(asked), i)) > e
    BY <2>1, <2>2, Removed DEF SentMessages, asked, e
  <2>12. /\ Len(sent.body.system) = Len(s)
         /\ \A i \in 1..Len(s) :
               HasCC(sent.body.system[i])
               <=> HasCC(s[i]) /\ Cardinality(UpTo(AllCCs(s), i)) > e - Total(asked)
    BY <2>1, <2>2, Removed DEF SentSystem, asked, e, s
  <2>13. Total(sent.body.messages) + Total(sent.body.system) <= MaxCacheControls
    <3>1. LET left == Total(sent.body.messages) IN
          /\ left \in Nat /\ left <= Total(asked)
          /\ e >= Total(asked) => left = 0
          /\ left > 0 => left <= Total(asked) - e
      BY <2>1, <2>2, RemovedTotal DEF SentMessages, asked, e
    <3>2. LET left == Total(sent.body.system) IN
          /\ left \in Nat /\ left <= Total(s)
          /\ e - Total(asked) >= Total(s) => left = 0
          /\ left > 0 => left <= Total(s) - (e - Total(asked))
      <4>1. sent.body.system = RemoveCacheControls(StripTTL(s), e - Total(asked))
        BY <2>1, Zenon DEF SentSystem, asked, e, s
      <4>2. \A n \in Int :
               LET left == Total(RemoveCacheControls(StripTTL(s), n)) IN
               /\ left \in Nat /\ left <= Total(s)
               /\ n >= Total(s) => left = 0
               /\ left > 0 => left <= Total(s) - n
        BY <2>2, RemovedTotal, Zenon
      <4> QED
        BY <2>2, <4>1, <4>2
    <3> QED
      BY <2>2, <3>1, <3>2
  <2>14. ASSUME NEW i \in 1..Len(asked)
         PROVE  HasCC(sent.body.messages[i])
                <=> /\ HasCC(asked[i])
                    /\ Cardinality(inMessages(i)) + Cardinality(inSystem(1)) <= MaxCacheControls
    <3>1. CASE ~ HasCC(asked[i])
      BY <2>11, <3>1
    <3>2. CASE HasCC(asked[i])
      <4>1. i \in AllCCs(asked) /\ AllCCs(asked) \in SUBSET 1..Len(asked)
        BY <2>2, <3>2, CCsOf
      <4>2. AllCCs(asked) \in SUBSET Nat /\ IsFiniteSet(AllCCs(asked))
        BY <2>2, <4>1, Counted
      <4>3. Cardinality(UpTo(AllCCs(asked), i)) + Cardinality(From(AllCCs(asked), i))
              = Total(asked) + 1
        BY <2>2, <4>1, <4>2, BothSides, CCsOf
      <4>4. /\ UpTo(AllCCs(asked), i) \in SUBSET AllCCs(asked)
            /\ From(AllCCs(asked), i) \in SUBSET AllCCs(asked)
        BY DEF UpTo, From
      <4>5. /\ Cardinality(UpTo(AllCCs(asked), i)) \in Nat
            /\ Cardinality(From(AllCCs(asked), i)) \in Nat
        BY <4>2, <4>4, FS_Subset, FS_CardinalityType
      <4>6. Cardinality(inMessages(i)) = Cardinality(From(AllCCs(asked), i))
        BY <2>9
      <4>7. Cardinality(inSystem(1)) = Total(s)
        BY <2>3, <2>8
      <4>8. Cardinality(UpTo(AllCCs(asked), i)) > e
            <=> Cardinality(inMessages(i)) + Cardinality(inSystem(1)) <= MaxCacheControls
        BY <2>2, <4>3, <4>5, <4>6, <4>7
      <4> QED
        BY <2>11, <3>2, <4>8
    <3> QED
      BY <3>1, <3>2
  <2>15. ASSUME NEW i \in kept
         PROVE  HasCC(sent.body.system[Place(raw.system, i)])
                <=> HasCC(raw.system[i]) /\ Cardinality(inSystem(i)) <= MaxCacheControls
    <3> DEFINE p == Place(raw.system, i)
    <3>1. /\ p \in 1..Len(s) /\ s[p] = raw.system[i]
          /\ Cardinality(CCs(s, p)) = Cardinality(UpTo(ccs, i))
      <4>1. i \in Staying(raw.system) /\ i <= Len(raw.system)
        BY <2>2, <2>4, LenProperties DEF kept
      <4> QED
        BY <2>3, <4>1 DEF After, ccs
    <3> HIDE DEF p
    <3>2. CCs(s, p) = UpTo(AllCCs(s), p)
      BY <2>2, <3>1, CCsOf, LenProperties
    <3>3. HasCC(sent.body.system[p])
          <=> HasCC(raw.system[i]) /\ Cardinality(UpTo(ccs, i)) > e - Total(asked)
      BY <2>12, <3>1, <3>2
    <3>4. CASE ~ HasCC(raw.system[i])
      BY <3>3, <3>4 DEF p
    <3>5. CASE HasCC(raw.system[i])
      <4>1. i \in ccs
        BY <3>5 DEF ccs, kept, StayingCCs
      <4>2. Cardinality(UpTo(ccs, i)) + Cardinality(From(ccs, i)) = Total(s) + 1
        BY <2>3, <2>6, <4>1, BothSides
      <4>3. UpTo(ccs, i) \in SUBSET ccs /\ From(ccs, i) \in SUBSET ccs
        BY DEF UpTo, From
      <4>4. Cardinality(UpTo(ccs, i)) \in Nat /\ Cardinality(From(ccs, i)) \in Nat
        BY <2>6, <4>3, FS_Subset, FS_CardinalityType
      <4>5. Cardinality(inSystem(i)) = Cardinality(From(ccs, i))
        BY <2>7
      <4>6. Cardinality(UpTo(ccs, i)) > e - Total(asked)
            <=> Cardinality(inSystem(i)) <= MaxCacheControls
        BY <2>2, <4>2, <4>4, <4>5
      <4> QED
        BY <3>3, <3>5, <4>6 DEF p
    <3> QED
      BY <3>4, <3>5
  <2>16. /\ Len(sent.body.system) = Cardinality(kept)
         /\ \A i \in kept : Place(raw.system, i) = Cardinality({ k \in kept : k <= i })
    BY <2>3, <2>12 DEF Place, UpTo, kept
  <2>17. \A i \in kept :
            HasCC(sent.body.system[Cardinality({ k \in kept : k <= i })])
            <=> HasCC(raw.system[i]) /\ Cardinality(inSystem(i)) <= MaxCacheControls
    BY <2>15, <2>16
  <2>18. \A i \in DOMAIN asked :
            HasCC(sent.body.messages[i])
            <=> /\ HasCC(asked[i])
                /\ Cardinality(inMessages(i)) + Cardinality(inSystem(1)) <= MaxCacheControls
    BY <2>10, <2>14
  <2> QED
    BY <2>5, <2>11, <2>13, <2>16, <2>17, <2>18, Zenon
       DEF CacheControlsLimited, asked, inSystem, inMessages
<1> QED
  BY <1>1, LatestInvariant, PTL
=============================================================================
