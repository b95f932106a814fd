----------------------------- MODULE SumLemmas -----------------------------
(***************************************************************************)
(* Sums over finite sets, as the stores compute them: MapThenSumSet takes  *)
(* one element after another, and which is first does not matter.          *)
(*                                                                         *)
(* Induction is over sets: one that holds 0 and with each number the next  *)
(* holds them all.                                                         *)
(***************************************************************************)
EXTENDS FiniteSetsExt, FiniteSetTheorems, WellFoundedInduction, TLAPS

LEMMA LeastNumber ==
    ASSUME NEW T \in SUBSET Nat, T # {}
    PROVE  \E n \in T : \A m \in T : n <= m
<1> DEFINE R == {pair \in Nat \X Nat : pair[1] < pair[2]}
<1>1. IsWellFoundedOn(R, Nat)
  BY NatLessThanWellFounded, Zenon DEF OpToRel
<1> HIDE DEF R
<1>2. PICK n \in T : \A m \in T : ~(<<m, n>> \in R)
  BY <1>1, WFMin
<1>3. ASSUME NEW m \in T PROVE n <= m
  <2>1. m \in Nat /\ n \in Nat /\ <<m, n>> \notin R
    BY <1>2
  <2> QED BY <2>1 DEF R
<1> QED BY <1>3

LEMMA SetInduction ==
    ASSUME NEW T, 0 \in T, \A n \in Nat : n \in T => n + 1 \in T
    PROVE  Nat \subseteq T
<1> SUFFICES ASSUME Nat \ T # {} PROVE FALSE
  OBVIOUS
<1>1. PICK n \in Nat \ T : \A m \in Nat \ T : n <= m
  BY LeastNumber
<1>2. n # 0 /\ n - 1 \in Nat
  BY <1>1
<1>3. n - 1 \in T
  BY <1>1, <1>2
<1> QED BY <1>1, <1>2, <1>3

(* An element of s, and what becomes of the cardinality without it.        *)
Pick(s) == CHOOSE x \in s : TRUE

LEMMA PickOne ==
    ASSUME NEW S, IsFiniteSet(S), NEW s \in SUBSET S, s # {}
    PROVE  /\ Pick(s) \in s /\ s \ {Pick(s)} \in SUBSET S
           /\ Cardinality(s) \in Nat \ {0}
           /\ Cardinality(s \ {Pick(s)}) = Cardinality(s) - 1
<1>1. Pick(s) \in s
  BY DEF Pick
<1>2. IsFiniteSet(s)
  BY FS_Subset
<1> QED BY <1>1, <1>2, FS_CardinalityType, FS_EmptySet, FS_RemoveElement

-----------------------------------------------------------------------------
(* The sum of f over S, and the function by which it is computed.          *)
SumOf(f, S) == MapThenSumSet(LAMBDA x : f[x], S)

Added(h, f, s) == IF s = {} THEN 0 ELSE f[Pick(s)] + h[s \ {Pick(s)}]

Sums(h, f, S) == h = [s \in SUBSET S |-> Added(h, f, s)]

LEMMA NothingElse ==
    ASSUME NEW S, IsFiniteSet(S), NEW s \in SUBSET S, Cardinality(s) = 0
    PROVE  s = {}
  BY FS_Subset, FS_EmptySet

LEMMA SumsExist ==
    ASSUME NEW S, IsFiniteSet(S), NEW f
    PROVE  \E h : Sums(h, f, S)
<1> DEFINE Upto(n) == {s \in SUBSET S : Cardinality(s) <= n}
           T == {n \in Nat : \E h : \A s \in Upto(n) : h[s] = Added(h, f, s)}
<1>1. \A s \in SUBSET S : Cardinality(s) \in Nat /\ Cardinality(s) <= Cardinality(S)
  BY FS_Subset, FS_CardinalityType
<1>2. 0 \in T
  <2>1. ASSUME NEW s \in Upto(0) PROVE s = {}
    BY <1>1, FS_Subset, FS_EmptySet
  <2>2. PICK h : h = [s \in {{}} |-> 0]
    OBVIOUS
  <2>3. \A s \in Upto(0) : h[s] = Added(h, f, s)
    BY <2>1, <2>2 DEF Added
  <2> QED BY <2>3
<1>3. ASSUME NEW n \in Nat, n \in T PROVE n + 1 \in T
  <2>1. PICK h : \A s \in Upto(n) : h[s] = Added(h, f, s)
    BY <1>3
  <2> DEFINE g == [s \in SUBSET S |-> Added(h, f, s)]
  <2>2. \A s \in Upto(n) : g[s] = h[s]
    BY <2>1
  <2>3. ASSUME NEW s \in Upto(n + 1) PROVE g[s] = Added(g, f, s)
    <3>1. CASE s = {}
      BY <3>1 DEF Added
    <3>2. CASE s # {}
      <4>1. s \ {Pick(s)} \in Upto(n)
        BY <3>2, PickOne
      <4> QED BY <2>2, <4>1 DEF Added
    <3> QED BY <3>1, <3>2
  <2> HIDE DEF g
  <2> QED BY <2>3
<1>4. PICK h : \A s \in Upto(Cardinality(S)) : h[s] = Added(h, f, s)
  <2> HIDE DEF T
  <2>1. Nat \subseteq T
    BY <1>2, <1>3, SetInduction
  <2> QED BY <2>1, <1>1 DEF T
<1> DEFINE g == [s \in SUBSET S |-> h[s]]
<1>5. ASSUME NEW s \in SUBSET S PROVE g[s] = Added(g, f, s)
  <2>1. h[s] = Added(h, f, s)
    BY <1>1, <1>4
  <2>2. s # {} => s \ {Pick(s)} \in SUBSET S
    OBVIOUS
  <2> QED BY <2>1, <2>2 DEF Added
<1>6. g = [s \in SUBSET S |-> Added(g, f, s)]
  BY <1>5
<1> HIDE DEF g
<1> QED BY <1>6 DEF Sums

(* Whatever the sets are that two sums are computed in.                    *)
Agree(f, g, A) == \A x \in A : f[x] = g[x]

LEMMA SumsAgree ==
    ASSUME NEW S, NEW U, NEW A, IsFiniteSet(A), A \in SUBSET S, A \in SUBSET U,
           NEW f, NEW g, Agree(f, g, A),
           NEW h, Sums(h, f, S), NEW k, Sums(k, g, U)
    PROVE  h[A] = k[A]
<1> DEFINE T == {n \in Nat : \A s \in SUBSET A : Cardinality(s) = n => h[s] = k[s]}
<1>1. \A s \in SUBSET A : h[s] = Added(h, f, s) /\ k[s] = Added(k, g, s)
  BY DEF Sums
<1>2. 0 \in T
  BY <1>1, PickOne DEF Added
<1>3. ASSUME NEW n \in Nat, n \in T PROVE n + 1 \in T
  <2> SUFFICES ASSUME NEW s \in SUBSET A, Cardinality(s) = n + 1 PROVE h[s] = k[s]
    OBVIOUS
  <2>1. s # {}
    BY FS_EmptySet
  <2>2. Pick(s) \in A /\ h[s \ {Pick(s)}] = k[s \ {Pick(s)}]
    BY <1>3, <2>1, PickOne
  <2> QED BY <1>1, <2>1, <2>2 DEF Added, Agree
<1>4. Cardinality(A) \in T
  <2> HIDE DEF T
  <2> QED BY <1>2, <1>3, SetInduction, FS_CardinalityType
<1> QED BY <1>4

(* MapThenSumSet computes the sum by such a function.                      *)
LEMMA SumIsComputed ==
    ASSUME NEW S, IsFiniteSet(S), NEW f
    PROVE  \E h : Sums(h, f, S) /\ SumOf(f, S) = h[S]
<1> DEFINE h == CHOOSE i : i = [s \in SUBSET S |-> IF s = {} THEN 0
                                 ELSE f[Pick(s)] + i[s \ {Pick(s)}]]
<1>1. SumOf(f, S) = h[S]
  BY DEF SumOf, MapThenSumSet, MapThenFoldSet, Pick
<1>2. PICK g : Sums(g, f, S)
  BY SumsExist
<1>3. h = [s \in SUBSET S |-> IF s = {} THEN 0 ELSE f[Pick(s)] + h[s \ {Pick(s)}]]
  <2>1. g = [s \in SUBSET S |-> IF s = {} THEN 0 ELSE f[Pick(s)] + g[s \ {Pick(s)}]]
    BY <1>2 DEF Sums, Added
  <2> QED BY <2>1
<1> HIDE DEF h
<1> QED BY <1>1, <1>3 DEF Sums, Added

LEMMA SumOfNothing ==
    ASSUME NEW f
    PROVE  SumOf(f, {}) = 0
  BY SumIsComputed, FS_EmptySet DEF Sums, Added

LEMMA SumOfPick ==
    ASSUME NEW S, IsFiniteSet(S), S # {}, NEW f
    PROVE  SumOf(f, S) = f[Pick(S)] + SumOf(f, S \ {Pick(S)})
<1>1. PICK h : Sums(h, f, S) /\ SumOf(f, S) = h[S]
  BY SumIsComputed
<1>2. h[S] = f[Pick(S)] + h[S \ {Pick(S)}]
  BY <1>1 DEF Sums, Added
<1>3. IsFiniteSet(S \ {Pick(S)})
  BY FS_RemoveElement
<1>4. PICK k : Sums(k, f, S \ {Pick(S)}) /\ SumOf(f, S \ {Pick(S)}) = k[S \ {Pick(S)}]
  BY <1>3, SumIsComputed
<1>5. k[S \ {Pick(S)}] = h[S \ {Pick(S)}]
  <2>1. PICK A : A = S \ {Pick(S)}
    OBVIOUS
  <2>2. A \in SUBSET A /\ A \in SUBSET S /\ Agree(f, f, A)
    BY <2>1 DEF Agree
  <2> QED BY <1>1, <1>3, <1>4, <2>1, <2>2, SumsAgree
<1> QED BY <1>1, <1>2, <1>4, <1>5

(* Only what f is on S matters.                                            *)
LEMMA SameSum ==
    ASSUME NEW S, IsFiniteSet(S), NEW f, NEW g, \A x \in S : f[x] = g[x]
    PROVE  SumOf(f, S) = SumOf(g, S)
<1>1. PICK h : Sums(h, f, S) /\ SumOf(f, S) = h[S]
  BY SumIsComputed
<1>2. PICK k : Sums(k, g, S) /\ SumOf(g, S) = k[S]
  BY SumIsComputed
<1>3. S \in SUBSET S /\ Agree(f, g, S)
  BY DEF Agree
<1> QED BY <1>1, <1>2, <1>3, SumsAgree

LEMMA SumIsInteger ==
    ASSUME NEW S, IsFiniteSet(S), NEW f, \A x \in S : f[x] \in Int
    PROVE  SumOf(f, S) \in Int
<1> DEFINE T == {n \in Nat : \A s \in SUBSET S : Cardinality(s) = n => SumOf(f, s) \in Int}
<1>1. 0 \in T
  BY NothingElse, SumOfNothing
<1>2. ASSUME NEW n \in Nat, n \in T PROVE n + 1 \in T
  <2> SUFFICES ASSUME NEW s \in SUBSET S, Cardinality(s) = n + 1 PROVE SumOf(f, s) \in Int
    OBVIOUS
  <2>1. s # {} /\ IsFiniteSet(s)
    BY FS_EmptySet, FS_Subset
  <2>2. /\ Pick(s) \in S /\ s \ {Pick(s)} \in SUBSET S
        /\ Cardinality(s \ {Pick(s)}) = n
    BY <2>1, PickOne
  <2>3. SumOf(f, s \ {Pick(s)}) \in Int
    BY <1>2, <2>2
  <2> QED BY <2>1, <2>2, <2>3, SumOfPick
<1>3. Cardinality(S) \in T
  <2> HIDE DEF T
  <2> QED BY <1>1, <1>2, SetInduction, FS_CardinalityType
<1> QED BY <1>3

(* The order in which elements are taken does not matter.                  *)
LEMMA SumWithOneMore ==
    ASSUME NEW S, IsFiniteSet(S), NEW e, e \notin S,
           NEW f, f[e] \in Int, \A x \in S : f[x] \in Int
    PROVE  SumOf(f, S \union {e}) = f[e] + SumOf(f, S)
<1> DEFINE T == {n \in Nat : \A s \in SUBSET (S \union {e}) : Cardinality(s) = n =>
                  \A x \in s : SumOf(f, s) = f[x] + SumOf(f, s \ {x})}
           W == S \union {e}
<1>1. IsFiniteSet(W) /\ \A x \in W : f[x] \in Int
  BY FS_AddElement
<1>2. \A s \in SUBSET W : IsFiniteSet(s) /\ SumOf(f, s) \in Int
  <2>1. \A s \in SUBSET W : IsFiniteSet(s)
    BY <1>1, FS_Subset
  <2> QED BY <1>1, <2>1, SumIsInteger
<1>3. 0 \in T
  BY <1>1, NothingElse
<1>4. ASSUME NEW n \in Nat, n \in T PROVE n + 1 \in T
  <2> SUFFICES ASSUME NEW s \in SUBSET W, Cardinality(s) = n + 1, NEW x \in s
               PROVE  SumOf(f, s) = f[x] + SumOf(f, s \ {x})
    OBVIOUS
  <2> DEFINE y == Pick(s)
  <2>1. IsFiniteSet(s) /\ y \in s /\ SumOf(f, s) = f[y] + SumOf(f, s \ {y})
    BY <1>2, SumOfPick DEF Pick
  <2> HIDE DEF y
  <2>2. CASE x = y
    BY <2>1, <2>2
  <2>3. CASE x # y
    <3> DEFINE r == s \ {x, y}
    <3>1. /\ s \ {y} \in SUBSET W /\ x \in s \ {y} /\ (s \ {y}) \ {x} = r
          /\ s \ {x} \in SUBSET W /\ y \in s \ {x} /\ (s \ {x}) \ {y} = r
          /\ r \in SUBSET W /\ f[x] \in Int /\ f[y] \in Int
      BY <1>1, <2>1, <2>3
    <3>2. Cardinality(s \ {y}) = n /\ Cardinality(s \ {x}) = n
      <4>1. /\ Cardinality(s \ {y}) = Cardinality(s) - 1
            /\ Cardinality(s \ {x}) = Cardinality(s) - 1
        BY <2>1, FS_RemoveElement
      <4> QED BY <4>1
    <3>3. SumOf(f, s \ {y}) = f[x] + SumOf(f, r)
      BY <1>4, <3>1, <3>2
    <3>4. SumOf(f, s \ {x}) = f[y] + SumOf(f, r)
      BY <1>4, <3>1, <3>2
    <3>5. SumOf(f, r) \in Int
      BY <1>2, <3>1
    <3> HIDE DEF r
    <3> QED BY <2>1, <3>1, <3>3, <3>4, <3>5
  <2> QED BY <2>2, <2>3
<1>5. Cardinality(W) \in T
  <2> HIDE DEF T
  <2> QED BY <1>1, <1>3, <1>4, SetInduction, FS_CardinalityType
<1>6. W \ {e} = S
  OBVIOUS
<1> QED BY <1>5, <1>6

LEMMA SumWithoutOne ==
    ASSUME NEW S, IsFiniteSet(S), NEW e \in S, NEW f, \A x \in S : f[x] \in Int
    PROVE  SumOf(f, S) = f[e] + SumOf(f, S \ {e})
<1>1. IsFiniteSet(S \ {e}) /\ e \notin S \ {e} /\ (S \ {e}) \union {e} = S
  BY FS_RemoveElement
<1>2. f[e] \in Int /\ \A x \in S \ {e} : f[x] \in Int
  OBVIOUS
<1>3. SumOf(f, (S \ {e}) \union {e}) = f[e] + SumOf(f, S \ {e})
  BY <1>1, <1>2, SumWithOneMore
<1> QED BY <1>1, <1>3

(* Of some elements: no more than of all, and as much if the others are 0. *)
LEMMA SumOfSome ==
    ASSUME NEW S, IsFiniteSet(S), NEW f, \A x \in S : f[x] \in Nat, NEW A \in SUBSET S
    PROVE  /\ SumOf(f, S) \in Nat /\ SumOf(f, A) \in Nat
           /\ SumOf(f, A) <= SumOf(f, S)
           /\ (\A x \in S \ A : f[x] = 0) => SumOf(f, A) = SumOf(f, S)
<1> DEFINE Fits(B, C) ==
             /\ SumOf(f, B) <= SumOf(f, C)
             /\ (\A x \in C \ B : f[x] = 0) => SumOf(f, B) = SumOf(f, C)
           T == {n \in Nat : \A C \in SUBSET S : \A B \in SUBSET C :
                   Cardinality(C \ B) = n => Fits(B, C)}
<1>1. ASSUME NEW B \in SUBSET S PROVE IsFiniteSet(B) /\ SumOf(f, B) \in Int
  <2>1. IsFiniteSet(B)
    BY FS_Subset
  <2> QED BY <2>1, SumIsInteger
<1>2. 0 \in T
  <2> SUFFICES ASSUME NEW C \in SUBSET S, NEW B \in SUBSET C, Cardinality(C \ B) = 0
               PROVE  Fits(B, C)
    OBVIOUS
  <2>1. IsFiniteSet(C \ B)
    BY <1>1
  <2>2. C \ B = {}
    BY <2>1, FS_EmptySet
  <2>3. B = C
    BY <2>2
  <2> QED BY <1>1, <2>3
<1>3. ASSUME NEW n \in Nat, n \in T PROVE n + 1 \in T
  <2> SUFFICES ASSUME NEW C \in SUBSET S, NEW B \in SUBSET C, Cardinality(C \ B) = n + 1
               PROVE  Fits(B, C)
    OBVIOUS
  <2>1. IsFiniteSet(C \ B) /\ IsFiniteSet(C)
    BY <1>1
  <2>2. C \ B # {}
    BY FS_EmptySet
  <2>3. PICK e \in C \ B : TRUE
    BY <2>2
  <2>4. Cardinality((C \ B) \ {e}) = n
    <3>1. Cardinality((C \ B) \ {e}) = Cardinality(C \ B) - 1
      BY <2>1, <2>3, FS_RemoveElement
    <3> QED BY <3>1
  <2>5. (C \ {e}) \ B = (C \ B) \ {e} /\ B \in SUBSET (C \ {e}) /\ C \ {e} \in SUBSET S
    BY <2>3
  <2>6. Fits(B, C \ {e})
    BY <1>3, <2>4, <2>5
  <2>7. SumOf(f, C) = f[e] + SumOf(f, C \ {e}) /\ f[e] \in Nat
    BY <2>1, <2>3, SumWithoutOne
  <2>8. /\ SumOf(f, B) \in Int /\ SumOf(f, C \ {e}) \in Int
    BY <1>1, <2>5
  <2> QED BY <2>3, <2>6, <2>7, <2>8
<1>4. ASSUME NEW C \in SUBSET S, NEW B \in SUBSET C PROVE Fits(B, C)
  <2>1. Cardinality(C \ B) \in T
    <3>1. IsFiniteSet(C \ B)
      BY <1>1
    <3> HIDE DEF T
    <3> QED BY <1>2, <1>3, <3>1, SetInduction, FS_CardinalityType
  <2> QED BY <2>1
<1>5. SumOf(f, {}) = 0 /\ Fits({}, S) /\ Fits({}, A) /\ Fits(A, S)
  BY <1>4, SumOfNothing
<1> QED BY <1>1, <1>5

LEMMA SumIsNatural ==
    ASSUME NEW S, IsFiniteSet(S), NEW f, \A x \in S : f[x] \in Nat
    PROVE  SumOf(f, S) \in Nat
  BY SumOfSome
=============================================================================
