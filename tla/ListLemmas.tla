----------------------------- MODULE ListLemmas -----------------------------
(***************************************************************************)
(* Facts about numbers, finite sets of numbers and lists that the proofs   *)
(* of several components cite.  Induction is over a set of naturals, so    *)
(* that no lemma takes an operator.                                        *)
(***************************************************************************)
EXTENDS Integers, Sequences, FiniteSets, FiniteSetTheorems, WellFoundedInduction, TLAPS,
        SequencesExt

\* A set that has zero and with each natural the next one has every natural
LEMMA NatSetInduction ==
    ASSUME NEW S, 0 \in S, \A n \in Nat : n \in S => n + 1 \in S
    PROVE  Nat \subseteq S
  <1> SUFFICES ASSUME Nat \ S # {} PROVE FALSE
    OBVIOUS
  <1>1. PICK m \in Nat \ S : \A y \in Nat \ S : ~(<<y, m>> \in OpToRel(<, Nat))
    BY WFMin, NatLessThanWellFounded
  <1>2. m # 0 /\ m - 1 \in Nat /\ (m - 1) + 1 = m
    OBVIOUS
  <1>3. <<m - 1, m>> \in OpToRel(<, Nat)
    BY <1>1, <1>2 DEF OpToRel
  <1>4. m - 1 \in S
    BY <1>1, <1>2, <1>3
  <1>5. (m - 1) + 1 \in S
    BY <1>2, <1>4
  <1>6. QED
    BY <1>2, <1>5

\* A set of naturals that has one has a least one
LEMMA LeastNatural ==
    ASSUME NEW T, T \subseteq Nat, T # {}
    PROVE  \E m \in T : \A n \in T : m <= n
  <1>1. PICK m \in T : \A y \in T : ~(<<y, m>> \in OpToRel(<, Nat))
    BY WFMin, NatLessThanWellFounded
  <1>2. \A n \in T : m <= n
    <2> SUFFICES ASSUME NEW n \in T, ~(m <= n) PROVE FALSE
      OBVIOUS
    <2>1. <<n, m>> \in OpToRel(<, Nat)
      BY DEF OpToRel
    <2>2. QED
      BY <1>1, <2>1
  <1>3. QED
    BY <1>2

\* A bounded set of naturals that has one has a greatest one
LEMMA GreatestNatural ==
    ASSUME NEW T, T \subseteq Nat, T # {}, NEW N \in Nat, \A n \in T : n <= N
    PROVE  \E m \in T : \A n \in T : m >= n
  <1> DEFINE U == {u \in Nat : \A n \in T : n <= u}
  <1>1. N \in U /\ U \subseteq Nat
    OBVIOUS
  <1>2. PICK m \in U : \A u \in U : m <= u
    BY <1>1, LeastNatural
  <1>3. m \in T
    <2> SUFFICES ASSUME m \notin T PROVE FALSE
      OBVIOUS
    <2>1. \A n \in T : n <= m /\ n # m
      BY <1>2
    <2>2. PICK t \in T : TRUE
      OBVIOUS
    <2>3. m \in Nat /\ t \in Nat /\ t < m
      BY <1>2, <2>1
    <2>4. m - 1 \in U
      BY <2>1, <2>3
    <2>5. m <= m - 1
      BY <1>2, <2>4
    <2>6. QED
      BY <2>3, <2>5
  <1>4. QED
    BY <1>2, <1>3

-----------------------------------------------------------------------------
(* Powers *)

\* The powers that scale decimals of a few places
Scales == {1, 10, 100, 1000}

LEMMA PowersOfTen == \A e \in 0 .. 3 : 10 ^ e \in Scales
  <1>1. 10 ^ 0 \in Scales /\ 10 ^ 1 \in Scales /\ 10 ^ 2 \in Scales /\ 10 ^ 3 \in Scales
    BY DEF Scales
  <1>2. \A e \in 0 .. 3 : e = 0 \/ e = 1 \/ e = 2 \/ e = 3
    OBVIOUS
  <1>3. QED
    BY <1>1, <1>2, Zenon

-----------------------------------------------------------------------------
(* Lists *)

IsList(s) == DOMAIN s = 1 .. Len(s) /\ Len(s) \in Nat

LEMMA EmptyList == IsList(<<>>) /\ Len(<<>>) = 0
  BY DEF IsList

LEMMA AppendedList ==
    ASSUME NEW s, IsList(s), NEW e, NEW t, t = Append(s, e)
    PROVE  /\ IsList(t) /\ Len(t) = Len(s) + 1 /\ t[Len(s) + 1] = e
           /\ \A i \in 1 .. Len(s) : t[i] = s[i]
  BY DEF IsList

\* t is s with the elements of r after its own
Extends(t, s, r) == /\ IsList(t) /\ Len(t) = Len(s) + Len(r)
                    /\ \A i \in 1 .. Len(s) : t[i] = s[i]
                    /\ \A i \in 1 .. Len(r) : t[Len(s) + i] = r[i]

LEMMA JoinedList ==
    ASSUME NEW s, NEW r, IsList(s), IsList(r)
    PROVE  Extends(s \o r, s, r)
  BY DEF IsList, Extends

LEMMA UpdatedList ==
    ASSUME NEW s, IsList(s), NEW k \in 1 .. Len(s), NEW e, NEW t, t = [s EXCEPT ![k] = e]
    PROVE  /\ IsList(t) /\ Len(t) = Len(s) /\ t[k] = e
           /\ \A i \in (1 .. Len(s)) \ {k} : t[i] = s[i]
  BY DEF IsList

LEMMA FunctionList ==
    ASSUME NEW n \in Nat, NEW f, DOMAIN f = 1 .. n, f = [i \in 1 .. n |-> f[i]]
    PROVE  IsList(f) /\ Len(f) = n
  BY DEF IsList

-----------------------------------------------------------------------------
(* Intervals *)

\* The numbers that one more list brings are as many as the list is long.
LEMMA NextInterval ==
    ASSUME NEW m \in Nat, NEW n \in Nat
    PROVE  /\ IsFiniteSet(m + 1 .. m + n)
           /\ Cardinality(m + 1 .. m + n) = n
  <1>1. m + 1 \in Int /\ m + n \in Int
    OBVIOUS
  <1>2. QED
    BY <1>1, FS_Interval

LEMMA FiniteImage ==
    ASSUME NEW S, IsFiniteSet(S), NEW f, DOMAIN f = S, NEW T, T = {f[x] : x \in S}
    PROVE  IsFiniteSet(T)
  <1>1. PICK g : g = [x \in S |-> f[x]]
    OBVIOUS
  <1>2. g \in Surjection(S, T)
    BY <1>1 DEF Surjection
  <1>3. QED
    BY <1>2, FS_Surjection

-----------------------------------------------------------------------------
(* Sums over finite sets: what SumFunctionOnSet computes, whatever order   *)
(* the elements are taken in                                               *)

Some(s) == CHOOSE x \in s : TRUE

LEMMA SomeIsIn == \A s : s # {} => Some(s) \in s
  BY DEF Some

\* g has the sums of f over the subsets of D with up to n elements
SumsUpTo(g, f, D, n) ==
    /\ DOMAIN g = SUBSET D
    /\ \A s \in SUBSET D :
           Cardinality(s) <= n => g[s] = IF s = {} THEN 0 ELSE f[Some(s)] + g[s \ {Some(s)}]

Sums(g, f, D) ==
    g = [s \in SUBSET D |-> IF s = {} THEN 0 ELSE f[Some(s)] + g[s \ {Some(s)}]]

LEMMA Smaller ==
    ASSUME NEW D, IsFiniteSet(D), NEW s \in SUBSET D, NEW x \in s
    PROVE  /\ s \ {x} \in SUBSET D /\ Cardinality(s) \in Nat /\ Cardinality(s) # 0
           /\ IsFiniteSet(s)
           /\ Cardinality(s \ {x}) \in Nat /\ Cardinality(s) = Cardinality(s \ {x}) + 1
  <1>1. IsFiniteSet(s)
    BY FS_Subset
  <1>2. Cardinality(s) \in Nat /\ Cardinality(s \ {x}) \in Nat /\ Cardinality(s \ {x}) = Cardinality(s) - 1
    BY <1>1, FS_CardinalityType, FS_RemoveElement
  <1>3. QED
    BY <1>1, <1>2

LEMMA SumsExistUpTo ==
    ASSUME NEW f, NEW D, IsFiniteSet(D), NEW n \in Nat
    PROVE  \E g : SumsUpTo(g, f, D, n)
  <1> DEFINE T == {k \in Nat : \E g : SumsUpTo(g, f, D, k)}
  <1>1. 0 \in T
    <2>1. PICK g : g = [s \in SUBSET D |-> 0]
      OBVIOUS
    <2>2. \A s \in SUBSET D : Cardinality(s) <= 0 => s = {}
      <3>1. \A s \in SUBSET D : IsFiniteSet(s) /\ Cardinality(s) \in Nat
        BY FS_Subset, FS_CardinalityType
      <3>2. \A s \in SUBSET D : Cardinality(s) <= 0 => Cardinality(s) = 0
        BY <3>1
      <3>3. QED
        BY <3>1, <3>2, FS_EmptySet
    <2>3. SumsUpTo(g, f, D, 0)
      BY <2>1, <2>2 DEF SumsUpTo
    <2>4. QED
      BY <2>3
  <1>2. ASSUME NEW k \in Nat, k \in T PROVE k + 1 \in T
    <2>1. PICK g : SumsUpTo(g, f, D, k)
      BY <1>2
    <2>2. PICK h : h = [s \in SUBSET D |->
                           IF Cardinality(s) <= k THEN g[s]
                           ELSE IF s = {} THEN 0 ELSE f[Some(s)] + g[s \ {Some(s)}]]
      OBVIOUS
    <2>3. ASSUME NEW s \in SUBSET D, Cardinality(s) <= k + 1
          PROVE  h[s] = IF s = {} THEN 0 ELSE f[Some(s)] + h[s \ {Some(s)}]
      <3>1. h[s] = IF s = {} THEN 0 ELSE f[Some(s)] + g[s \ {Some(s)}]
        BY <2>1, <2>2, Zenon DEF SumsUpTo
      <3>2. CASE s = {}
        BY <3>1, <3>2
      <3>3. CASE s # {}
        <4>1. PICK x \in s : x = Some(s)
          BY <3>3, SomeIsIn
        <4>2. s \ {x} \in SUBSET D /\ Cardinality(s \ {x}) <= k
          BY <2>3, Smaller
        <4>3. h[s \ {x}] = g[s \ {x}]
          BY <2>2, <4>2, Zenon
        <4>4. QED
          BY <3>1, <3>3, <4>1, <4>3, Zenon
      <3>4. QED
        BY <3>2, <3>3
    <2>4. SumsUpTo(h, f, D, k + 1)
      BY <2>2, <2>3, Zenon DEF SumsUpTo
    <2>5. QED
      BY <2>4
  <1>3. QED
    BY <1>1, <1>2, NatSetInduction

LEMMA SumsAre ==
    ASSUME NEW f, NEW D, IsFiniteSet(D)
    PROVE  \E g : Sums(g, f, D) /\ SumFunctionOnSet(f, D) = g[D]
  <1>1. \E g : Sums(g, f, D)
    <2>1. Cardinality(D) \in Nat /\ \A s \in SUBSET D : Cardinality(s) <= Cardinality(D)
      BY FS_CardinalityType, FS_Subset
    <2>2. PICK h : SumsUpTo(h, f, D, Cardinality(D))
      BY <2>1, SumsExistUpTo
    <2>3. PICK g : g = [s \in SUBSET D |-> h[s]]
      OBVIOUS
    <2>4. ASSUME NEW s \in SUBSET D
          PROVE  g[s] = IF s = {} THEN 0 ELSE f[Some(s)] + g[s \ {Some(s)}]
      <3>1. h[s] = IF s = {} THEN 0 ELSE f[Some(s)] + h[s \ {Some(s)}]
        BY <2>1, <2>2, Zenon DEF SumsUpTo
      <3>2. g[s] = h[s] /\ s \ {Some(s)} \in SUBSET D
        BY <2>3, Zenon
      <3>3. g[s \ {Some(s)}] = h[s \ {Some(s)}]
        BY <2>3, <3>2, Zenon
      <3>4. QED
        BY <3>1, <3>2, <3>3, Zenon
    <2>5. Sums(g, f, D)
      BY <2>3, <2>4, Zenon DEF Sums
    <2>6. QED
      BY <2>5
  <1>2. PICK g : g = (CHOOSE iter : Sums(iter, f, D))
    OBVIOUS
  <1>3. Sums(g, f, D)
    BY <1>1, <1>2, Zenon
  <1>4. SumFunctionOnSet(f, D) = g[D]
    BY <1>2, Zenon DEF SumFunctionOnSet, FoldFunctionOnSet, MapThenFoldSet, Sums, Some
  <1>5. QED
    BY <1>3, <1>4

\* Sums over the subsets of a set do not depend on what else the set has, nor on
\* the values elsewhere.
LEMMA SumsAgree ==
    ASSUME NEW D, IsFiniteSet(D), NEW B \in SUBSET D, NEW e, NEW f, \A x \in B : e[x] = f[x],
           NEW g, Sums(g, e, B), NEW h, Sums(h, f, D), NEW s \in SUBSET B
    PROVE  g[s] = h[s]
  <1> DEFINE T == {k \in Nat : \A u \in SUBSET B : Cardinality(u) = k => g[u] = h[u]}
  <1>0. IsFiniteSet(B)
    BY FS_Subset
  <1>1. 0 \in T
    <2>1. \A u \in SUBSET B : Cardinality(u) = 0 => u = {}
      BY <1>0, FS_Subset, FS_EmptySet
    <2>2. g[{}] = 0 /\ h[{}] = 0
      BY Zenon DEF Sums
    <2>3. QED
      BY <2>1, <2>2
  <1>2. ASSUME NEW k \in Nat, k \in T PROVE k + 1 \in T
    <2> SUFFICES ASSUME NEW u \in SUBSET B, Cardinality(u) = k + 1 PROVE g[u] = h[u]
      OBVIOUS
    <2>1. u # {}
      BY FS_EmptySet
    <2>2. PICK x \in u : x = Some(u)
      BY <2>1, SomeIsIn
    <2>3. u \ {x} \in SUBSET B /\ Cardinality(u \ {x}) = k
      <3>1. /\ u \ {x} \in SUBSET B /\ Cardinality(u \ {x}) \in Nat
            /\ Cardinality(u) = Cardinality(u \ {x}) + 1
        BY <1>0, <2>2, Smaller
      <3>2. QED
        BY <3>1
    <2>4. g[u \ {x}] = h[u \ {x}]
      BY <1>2, <2>3
    <2>5. g[u] = e[x] + g[u \ {x}]
      BY <2>1, <2>2, Zenon DEF Sums
    <2>6. h[u] = f[x] + h[u \ {x}]
      <3>1. u \in SUBSET D
        OBVIOUS
      <3>2. QED
        BY <2>1, <2>2, <3>1, Zenon DEF Sums
    <2>7. QED
      BY <2>4, <2>5, <2>6
  <1>3. Cardinality(s) \in Nat
    BY <1>0, FS_Subset, FS_CardinalityType
  <1>4. Cardinality(s) \in T
    BY <1>1, <1>2, <1>3, NatSetInduction
  <1>5. QED
    BY <1>4

LEMMA SumsAreIntegers ==
    ASSUME NEW f, NEW D, IsFiniteSet(D), \A x \in D : f[x] \in Int, NEW g, Sums(g, f, D),
           NEW s \in SUBSET D
    PROVE  g[s] \in Int
  <1> DEFINE T == {k \in Nat : \A u \in SUBSET D : Cardinality(u) = k => g[u] \in Int}
  <1>1. 0 \in T
    <2>1. \A u \in SUBSET D : Cardinality(u) = 0 => u = {}
      BY FS_Subset, FS_EmptySet
    <2>2. g[{}] = 0
      BY Zenon DEF Sums
    <2>3. QED
      BY <2>1, <2>2
  <1>2. ASSUME NEW k \in Nat, k \in T PROVE k + 1 \in T
    <2> SUFFICES ASSUME NEW u \in SUBSET D, Cardinality(u) = k + 1 PROVE g[u] \in Int
      OBVIOUS
    <2>1. u # {}
      BY FS_EmptySet
    <2>2. PICK x \in u : x = Some(u)
      BY <2>1, SomeIsIn
    <2>3. u \ {x} \in SUBSET D /\ Cardinality(u \ {x}) = k
      <3>1. /\ u \ {x} \in SUBSET D /\ Cardinality(u \ {x}) \in Nat
            /\ Cardinality(u) = Cardinality(u \ {x}) + 1
        BY <2>2, Smaller
      <3>2. QED
        BY <3>1
    <2>4. g[u \ {x}] \in Int /\ f[x] \in Int
      BY <1>2, <2>3
    <2>5. g[u] = f[x] + g[u \ {x}]
      BY <2>1, <2>2, Zenon DEF Sums
    <2>6. QED
      BY <2>4, <2>5
  <1>3. Cardinality(s) \in Nat
    BY FS_Subset, FS_CardinalityType
  <1>4. Cardinality(s) \in T
    BY <1>1, <1>2, <1>3, NatSetInduction
  <1>5. QED
    BY <1>4

\* Whichever element is taken first, the sum is the same.
LEMMA SumsInAnyOrder ==
    ASSUME NEW f, NEW D, IsFiniteSet(D), \A x \in D : f[x] \in Int, NEW g, Sums(g, f, D),
           NEW s \in SUBSET D, NEW z \in s
    PROVE  g[s] = f[z] + g[s \ {z}]
  <1> DEFINE Law(u) == \A x \in u : g[u] = f[x] + g[u \ {x}]
             T == {k \in Nat : \A u \in SUBSET D : Cardinality(u) = k => Law(u)}
  <1>1. 0 \in T
    <2>1. \A u \in SUBSET D : Cardinality(u) = 0 => u = {}
      BY FS_Subset, FS_EmptySet
    <2>2. QED
      BY <2>1
  <1>2. ASSUME NEW k \in Nat, k \in T PROVE k + 1 \in T
    <2>0. k + 1 \in Nat
      OBVIOUS
    <2> SUFFICES ASSUME NEW u \in SUBSET D, Cardinality(u) = k + 1 PROVE Law(u)
      BY <2>0, Zenon
    <2> SUFFICES ASSUME NEW x \in u PROVE g[u] = f[x] + g[u \ {x}]
      OBVIOUS
    <2>1. u # {}
      OBVIOUS
    <2>2. PICK y \in u : y = Some(u)
      BY <2>1, SomeIsIn
    <2>3. ASSUME NEW v \in u PROVE u \ {v} \in SUBSET D /\ Cardinality(u \ {v}) = k
      <3>1. /\ u \ {v} \in SUBSET D /\ Cardinality(u \ {v}) \in Nat
            /\ Cardinality(u) = Cardinality(u \ {v}) + 1
        BY Smaller, ZenonT(60)
      <3>2. QED
        BY <3>1
    <2>4. g[u] = f[y] + g[u \ {y}]
      BY <2>1, <2>2, Zenon DEF Sums
    <2>5. \A v \in u : Law(u \ {v})
      BY <1>2, <2>3
    <2>6. CASE x = y
      BY <2>4, <2>6
    <2>7. CASE x # y
      <3>1. x \in u \ {y} /\ y \in u \ {x}
        BY <2>7
      <3>2. g[u \ {y}] = f[x] + g[(u \ {y}) \ {x}]
        BY <2>5, <3>1
      <3>3. g[u \ {x}] = f[y] + g[(u \ {x}) \ {y}]
        BY <2>5, <3>1
      <3>4. (u \ {y}) \ {x} = (u \ {x}) \ {y}
        OBVIOUS
      <3>5. PICK rest, a, b : rest = g[(u \ {x}) \ {y}] /\ a = f[x] /\ b = f[y]
        OBVIOUS
      <3>6. rest \in Int /\ a \in Int /\ b \in Int
        <4>1. (u \ {x}) \ {y} \in SUBSET D
          OBVIOUS
        <4>2. rest \in Int
          BY <3>5, <4>1, SumsAreIntegers
        <4>3. QED
          BY <3>5, <4>2
      <3>7. g[u] = b + (a + rest) /\ g[u \ {x}] = b + rest
        BY <2>4, <3>2, <3>3, <3>4, <3>5, Zenon
      <3>8. g[u] = a + (b + rest)
        BY <3>6, <3>7
      <3>9. QED
        BY <3>5, <3>7, <3>8, Zenon
    <2>8. QED
      BY <2>6, <2>7
  <1>3. Cardinality(s) \in Nat
    BY FS_Subset, FS_CardinalityType
  <1>4. Cardinality(s) \in T
    BY <1>1, <1>2, <1>3, NatSetInduction
  <1>5. QED
    BY <1>4

-----------------------------------------------------------------------------
(* The laws of sums *)

LEMMA SumNone == ASSUME NEW f PROVE SumFunctionOnSet(f, {}) = 0
  <1>1. PICK g : Sums(g, f, {}) /\ SumFunctionOnSet(f, {}) = g[{}]
    BY SumsAre, FS_EmptySet
  <1>2. g[{}] = 0
    BY <1>1, Zenon DEF Sums
  <1>3. QED
    BY <1>1, <1>2

LEMMA SumInteger ==
    ASSUME NEW f, NEW D, IsFiniteSet(D), \A x \in D : f[x] \in Int
    PROVE  SumFunctionOnSet(f, D) \in Int
  BY SumsAre, SumsAreIntegers

\* Sums are of values, not of functions
LEMMA SumSame ==
    ASSUME NEW e, NEW f, NEW D, IsFiniteSet(D), \A x \in D : e[x] = f[x]
    PROVE  SumFunctionOnSet(e, D) = SumFunctionOnSet(f, D)
  <1>1. PICK g : Sums(g, e, D) /\ SumFunctionOnSet(e, D) = g[D]
    BY SumsAre
  <1>2. PICK h : Sums(h, f, D) /\ SumFunctionOnSet(f, D) = h[D]
    BY SumsAre
  <1>3. D \in SUBSET D
    OBVIOUS
  <1>4. g[D] = h[D]
    BY <1>1, <1>2, <1>3, SumsAgree
  <1>5. QED
    BY <1>1, <1>2, <1>4

LEMMA SumWith ==
    ASSUME NEW f, NEW D, IsFiniteSet(D), \A x \in D : f[x] \in Int, NEW z \in D
    PROVE  SumFunctionOnSet(f, D) = f[z] + SumFunctionOnSet(f, D \ {z})
  <1>1. PICK g : Sums(g, f, D) /\ SumFunctionOnSet(f, D) = g[D]
    BY SumsAre
  <1> PICK B : B = D \ {z}
    OBVIOUS
  <1>2. B \in SUBSET D /\ IsFiniteSet(B)
    BY FS_Subset
  <1>3. PICK h : Sums(h, f, B) /\ SumFunctionOnSet(f, B) = h[B]
    BY <1>2, SumsAre
  <1>4. h[B] = g[B]
    <2>1. B \in SUBSET B /\ \A x \in B : f[x] = f[x]
      OBVIOUS
    <2>2. QED
      BY <1>1, <1>2, <1>3, <2>1, SumsAgree
  <1>5. D \in SUBSET D
    OBVIOUS
  <1>6. g[D] = f[z] + g[D \ {z}]
    BY <1>1, <1>5, SumsInAnyOrder
  <1>7. QED
    BY <1>1, <1>2, <1>3, <1>4, <1>6

\* What holds of no elements, and of one more whenever it holds of some, holds of all
LEMMA SubsetInduction ==
    ASSUME NEW D, IsFiniteSet(D), NEW P, {} \in P,
           \A s \in SUBSET D : \A x \in D \ s : s \in P => s \cup {x} \in P
    PROVE  D \in P
  <1> DEFINE T == {k \in Nat : \A u \in SUBSET D : Cardinality(u) = k => u \in P}
  <1>1. 0 \in T
    <2>1. \A u \in SUBSET D : Cardinality(u) = 0 => u = {}
      BY FS_Subset, FS_EmptySet
    <2>2. QED
      BY <2>1
  <1>2. ASSUME NEW k \in Nat, k \in T PROVE k + 1 \in T
    <2> SUFFICES ASSUME NEW u \in SUBSET D, Cardinality(u) = k + 1 PROVE u \in P
      OBVIOUS
    <2>1. u # {}
      <3>1. Cardinality({}) = 0 /\ k + 1 # 0
        BY FS_EmptySet
      <3>2. QED
        BY <3>1
    <2>2. PICK x \in u : TRUE
      BY <2>1
    <2>3. u \ {x} \in SUBSET D /\ Cardinality(u \ {x}) = k
      <3>1. /\ u \ {x} \in SUBSET D /\ Cardinality(u \ {x}) \in Nat
            /\ Cardinality(u) = Cardinality(u \ {x}) + 1
        BY <2>2, Smaller
      <3>2. QED
        BY <3>1
    <2>4. u \ {x} \in P
      BY <1>2, <2>3
    <2>5. x \in D \ (u \ {x}) /\ (u \ {x}) \cup {x} = u
      BY <2>2
    <2>6. QED
      BY <2>3, <2>4, <2>5, Zenon
  <1>3. Cardinality(D) \in Nat
    BY FS_CardinalityType
  <1>4. Cardinality(D) \in T
    BY <1>1, <1>2, <1>3, NatSetInduction
  <1>5. D \in SUBSET D
    OBVIOUS
  <1>6. QED
    BY <1>4, <1>5

LEMMA SumAdd ==
    ASSUME NEW f, NEW D, IsFiniteSet(D), \A x \in D : f[x] \in Int,
           NEW s \in SUBSET D, NEW z \in D \ s
    PROVE  SumFunctionOnSet(f, s \cup {z}) = f[z] + SumFunctionOnSet(f, s)
  <1> PICK B : B = s \cup {z}
    OBVIOUS
  <1>1. IsFiniteSet(B) /\ \A x \in B : f[x] \in Int
    BY FS_Subset
  <1>2. z \in B /\ B \ {z} = s
    OBVIOUS
  <1>3. SumFunctionOnSet(f, B) = f[z] + SumFunctionOnSet(f, B \ {z})
    BY <1>1, <1>2, SumWith
  <1>4. QED
    BY <1>2, <1>3

LEMMA SumNatural ==
    ASSUME NEW f, NEW D, IsFiniteSet(D), \A x \in D : f[x] \in Nat
    PROVE  SumFunctionOnSet(f, D) \in Nat
  <1> DEFINE P == {s \in SUBSET D : SumFunctionOnSet(f, s) \in Nat}
  <1>1. {} \in P
    BY SumNone
  <1>2. ASSUME NEW s \in SUBSET D, NEW x \in D \ s, s \in P PROVE s \cup {x} \in P
    <2>1. SumFunctionOnSet(f, s \cup {x}) = f[x] + SumFunctionOnSet(f, s)
      BY SumAdd
    <2>2. f[x] \in Nat /\ SumFunctionOnSet(f, s) \in Nat /\ s \cup {x} \in SUBSET D
      BY <1>2
    <2>3. QED
      BY <2>1, <2>2
  <1>3. D \in P
    <2> HIDE DEF P
    <2>1. QED
      BY <1>1, <1>2, SubsetInduction
  <1>4. QED
    BY <1>3

\* Counting is summing ones
LEMMA SumOnes ==
    ASSUME NEW f, NEW D, IsFiniteSet(D), \A x \in D : f[x] = 1
    PROVE  SumFunctionOnSet(f, D) = Cardinality(D)
  <1> DEFINE P == {s \in SUBSET D : SumFunctionOnSet(f, s) = Cardinality(s)}
  <1>1. {} \in P
    BY SumNone, FS_EmptySet
  <1>2. ASSUME NEW s \in SUBSET D, NEW x \in D \ s, s \in P PROVE s \cup {x} \in P
    <2>1. SumFunctionOnSet(f, s \cup {x}) = 1 + SumFunctionOnSet(f, s)
      BY SumAdd
    <2>2. Cardinality(s \cup {x}) = Cardinality(s) + 1 /\ Cardinality(s) \in Nat
      BY FS_Subset, FS_AddElement, FS_CardinalityType
    <2>3. SumFunctionOnSet(f, s) = Cardinality(s) /\ s \cup {x} \in SUBSET D
      BY <1>2
    <2>4. QED
      BY <2>1, <2>2, <2>3
  <1>3. D \in P
    <2> HIDE DEF P
    <2>1. QED
      BY <1>1, <1>2, SubsetInduction
  <1>4. QED
    BY <1>3

LEMMA SumZeros ==
    ASSUME NEW f, NEW D, IsFiniteSet(D), \A x \in D : f[x] = 0
    PROVE  SumFunctionOnSet(f, D) = 0
  <1> DEFINE P == {s \in SUBSET D : SumFunctionOnSet(f, s) = 0}
  <1>1. {} \in P
    BY SumNone
  <1>2. ASSUME NEW s \in SUBSET D, NEW x \in D \ s, s \in P PROVE s \cup {x} \in P
    <2>1. SumFunctionOnSet(f, s \cup {x}) = 0 + SumFunctionOnSet(f, s)
      BY SumAdd
    <2>2. SumFunctionOnSet(f, s) = 0 /\ s \cup {x} \in SUBSET D
      BY <1>2
    <2>3. QED
      BY <2>1, <2>2
  <1>3. D \in P
    <2> HIDE DEF P
    <2>1. QED
      BY <1>1, <1>2, SubsetInduction
  <1>4. QED
    BY <1>3

\* One value more, the sum so much more
LEMMA SumRaised ==
    ASSUME NEW e, NEW f, NEW D, IsFiniteSet(D), \A x \in D : e[x] \in Int /\ f[x] \in Int,
           NEW z \in D, \A x \in D \ {z} : e[x] = f[x], NEW by \in Int, e[z] = by + f[z]
    PROVE  SumFunctionOnSet(e, D) = by + SumFunctionOnSet(f, D)
  <1> PICK B : B = D \ {z}
    OBVIOUS
  <1>1. IsFiniteSet(B)
    BY FS_Subset
  <1>2. /\ SumFunctionOnSet(e, D) = e[z] + SumFunctionOnSet(e, B)
        /\ SumFunctionOnSet(f, D) = f[z] + SumFunctionOnSet(f, B)
    BY SumWith
  <1>3. SumFunctionOnSet(e, B) = SumFunctionOnSet(f, B)
    BY <1>1, SumSame
  <1>4. SumFunctionOnSet(f, B) \in Int
    BY <1>1, SumInteger
  <1>5. f[z] \in Int
    OBVIOUS
  <1>6. QED
    BY <1>2, <1>3, <1>4, <1>5

\* GROUP BY: the sums of the groups are together the sum of all
LEMMA SumOfGroups ==
    ASSUME NEW f, NEW D, IsFiniteSet(D), \A x \in D : f[x] \in Int,
           NEW K, IsFiniteSet(K), NEW h, \A x \in D : h[x] \in K,
           NEW part, \A k \in K : /\ part[k] \subseteq D
                                   /\ \A x \in D : x \in part[k] <=> h[x] = k,
           NEW g, \A k \in K : g[k] = SumFunctionOnSet(f, part[k])
    PROVE  SumFunctionOnSet(g, K) = SumFunctionOnSet(f, D)
  <1> DEFINE Group(s, k) == {x \in s : h[x] = k}
             Groups(s) == [k \in K |-> SumFunctionOnSet(f, Group(s, k))]
             P == {s \in SUBSET D : SumFunctionOnSet(Groups(s), K) = SumFunctionOnSet(f, s)}
  <1>1. {} \in P
    <2>1. \A k \in K : Group({}, k) = {}
      OBVIOUS
    <2>2. \A k \in K : Groups({})[k] = 0
      BY <2>1, SumNone
    <2>3. SumFunctionOnSet(Groups({}), K) = 0
      BY <2>2, SumZeros
    <2>4. QED
      BY <2>3, SumNone
  <1>2. ASSUME NEW s \in SUBSET D, NEW x \in D \ s, s \in P PROVE s \cup {x} \in P
    <2> PICK t : t = s \cup {x}
      OBVIOUS
    <2>1. t \in SUBSET D /\ h[x] \in K /\ f[x] \in Int
      OBVIOUS
    <2>2. ASSUME NEW u \in SUBSET D, NEW k \in K PROVE Groups(u)[k] \in Int
      <3>1. Group(u, k) \in SUBSET D
        OBVIOUS
      <3>2. IsFiniteSet(Group(u, k)) /\ \A y \in Group(u, k) : f[y] \in Int
        BY <3>1, FS_Subset
      <3> HIDE DEF Group
      <3>3. SumFunctionOnSet(f, Group(u, k)) \in Int
        BY <3>2, SumInteger
      <3>4. QED
        BY <3>3
    <2>3. ASSUME NEW k \in K \ {h[x]} PROVE Groups(t)[k] = Groups(s)[k]
      <3>1. Group(t, k) = Group(s, k)
        OBVIOUS
      <3> HIDE DEF Group
      <3>2. QED
        BY <3>1
    <2>4. Groups(t)[h[x]] = f[x] + Groups(s)[h[x]]
      <3>1. Group(t, h[x]) = Group(s, h[x]) \cup {x} /\ Group(s, h[x]) \in SUBSET D
            /\ x \in D \ Group(s, h[x])
        OBVIOUS
      <3> HIDE DEF Group
      <3>2. PICK group : group = Group(s, h[x])
        OBVIOUS
      <3>3. group \in SUBSET D /\ x \in D \ group
        BY <3>1, <3>2
      <3>4. SumFunctionOnSet(f, group \cup {x}) = f[x] + SumFunctionOnSet(f, group)
        BY <3>3, SumAdd
      <3>5. QED
        BY <2>1, <3>1, <3>2, <3>4
    <2> HIDE DEF Groups
    <2>5. SumFunctionOnSet(Groups(t), K) = f[x] + SumFunctionOnSet(Groups(s), K)
      <3>1. PICK e, d : e = Groups(t) /\ d = Groups(s)
        OBVIOUS
      <3>2. \A k \in K : e[k] \in Int /\ d[k] \in Int
        BY <2>1, <2>2, <3>1
      <3>3. (\A k \in K \ {h[x]} : e[k] = d[k]) /\ e[h[x]] = f[x] + d[h[x]]
        BY <2>3, <2>4, <3>1
      <3>4. SumFunctionOnSet(e, K) = f[x] + SumFunctionOnSet(d, K)
        BY <2>1, <3>2, <3>3, SumRaised
      <3>5. QED
        BY <3>1, <3>4
    <2>6. SumFunctionOnSet(f, t) = f[x] + SumFunctionOnSet(f, s)
      BY SumAdd
    <2>7. QED
      BY <1>2, <2>1, <2>5, <2>6
  <1>3. D \in P
    <2> HIDE DEF P
    <2>1. QED
      BY <1>1, <1>2, SubsetInduction
  <1>4. SumFunctionOnSet(Groups(D), K) = SumFunctionOnSet(f, D)
    BY <1>3
  <1>5. ASSUME NEW k \in K PROVE g[k] = Groups(D)[k]
    <2>1. Group(D, k) = part[k]
      OBVIOUS
    <2> HIDE DEF Group
    <2>2. QED
      BY <2>1
  <1>6. QED
    <2> HIDE DEF Groups
    <2>1. SumFunctionOnSet(g, K) = SumFunctionOnSet(Groups(D), K)
      BY <1>5, SumSame
    <2>2. QED
      BY <1>4, <2>1

LEMMA SumIs ==
    ASSUME NEW f, NEW D, DOMAIN f = D
    PROVE  SumFunction(f) = SumFunctionOnSet(f, D)
  BY Zenon DEF SumFunction

\* What is counted by kind is counted.
LEMMA CountByKind ==
    ASSUME NEW S, IsFiniteSet(S), NEW K, IsFiniteSet(K), NEW kind, \A x \in S : kind[x] \in K,
           NEW part, \A k \in K : /\ part[k] \subseteq S
                                  /\ \A x \in S : x \in part[k] <=> kind[x] = k,
           NEW counts, \A k \in K : counts[k] = Cardinality(part[k])
    PROVE  SumFunctionOnSet(counts, K) = Cardinality(S)
  <1>1. PICK one : one = [x \in S |-> 1]
    OBVIOUS
  <1>4. ASSUME NEW k \in K PROVE counts[k] = SumFunctionOnSet(one, part[k])
    <2>1. IsFiniteSet(part[k]) /\ \A x \in part[k] : one[x] = 1
      BY <1>1, FS_Subset
    <2>2. SumFunctionOnSet(one, part[k]) = Cardinality(part[k])
      BY <2>1, SumOnes
    <2>3. QED
      BY <2>2
  <1>7. \A x \in S : one[x] \in Int
    BY <1>1
  <1>8. SumFunctionOnSet(counts, K) = SumFunctionOnSet(one, S)
    BY <1>4, <1>7, SumOfGroups
  <1>5. SumFunctionOnSet(one, S) = Cardinality(S)
    BY <1>1, SumOnes
  <1>6. QED
    BY <1>5, <1>8

-----------------------------------------------------------------------------
(* Rows in order *)

\* before[x] are the rows that come before row x: a strict total order
OrdersRows(before, rows) ==
    /\ \A x \in rows : before[x] \subseteq rows /\ x \notin before[x]
    /\ \A x, y \in rows : x = y \/ x \in before[y] \/ y \in before[x]
    /\ \A x \in rows : \A y \in before[x] : before[y] \subseteq before[x]

LEMMA EveryPlaceIsTaken ==
    ASSUME NEW rows, IsFiniteSet(rows), NEW before, OrdersRows(before, rows),
           NEW n \in 1 .. Cardinality(rows)
    PROVE  \E x \in rows : Cardinality(before[x]) = n - 1
  <1> PICK N \in Nat : N = Cardinality(rows)
    BY FS_CardinalityType
  <1>1. ASSUME NEW x \in rows PROVE IsFiniteSet(before[x]) /\ Cardinality(before[x]) \in 0 .. N - 1
    <2>1. before[x] \in SUBSET rows /\ before[x] # rows
      BY DEF OrdersRows
    <2>2. IsFiniteSet(before[x]) /\ Cardinality(before[x]) <= N /\ Cardinality(before[x]) # N
      BY <2>1, FS_Subset
    <2>3. Cardinality(before[x]) \in Nat
      BY <2>2, FS_CardinalityType
    <2>4. QED
      BY <2>2, <2>3
  <1>2. ASSUME NEW x \in rows, NEW y \in before[x]
        PROVE  Cardinality(before[y]) # Cardinality(before[x])
    <2>1. y \in rows /\ before[y] \in SUBSET before[x] /\ y \notin before[y]
      BY DEF OrdersRows
    <2>2. before[y] # before[x]
      BY <2>1
    <2>3. QED
      BY <1>1, <2>1, <2>2, FS_Subset
  <1> PICK rank : rank = [x \in rows |-> Cardinality(before[x])]
    OBVIOUS
  <1>3. rank \in Injection(rows, 0 .. N - 1)
    <2>1. rank \in [rows -> 0 .. N - 1]
      BY <1>1
    <2>2. \A x, y \in rows : rank[x] = rank[y] => x = y
      BY <1>2 DEF OrdersRows
    <2>3. QED
      BY <2>1, <2>2 DEF Injection, IsInjective
  <1>4. IsFiniteSet(0 .. N - 1) /\ Cardinality(0 .. N - 1) = N
    <2>1. 0 \in Int /\ N - 1 \in Int
      OBVIOUS
    <2>2. QED
      BY <2>1, FS_Interval
  <1>5. rank \in Surjection(rows, 0 .. N - 1)
    BY <1>3, <1>4, FS_Injection
  <1>6. n - 1 \in 0 .. N - 1
    OBVIOUS
  <1>7. QED
    BY <1>5, <1>6 DEF Surjection

\* A list of rows, each at the place that the rows before it leave to it
RanksRows(s, before, rows) ==
    /\ IsList(s) /\ Len(s) = Cardinality(rows)
    /\ \A n \in 1 .. Len(s) : s[n] \in rows /\ Cardinality(before[s[n]]) = n - 1

\* Every row is in the list once, after those that come before it.
LEMMA RankedRows ==
    ASSUME NEW rows, IsFiniteSet(rows), NEW before, OrdersRows(before, rows),
           NEW s, RanksRows(s, before, rows)
    PROVE  /\ \A m, n \in 1 .. Len(s) : s[m] = s[n] => m = n
           /\ \A x \in rows : \E n \in 1 .. Len(s) : s[n] = x
           /\ \A m, n \in 1 .. Len(s) : m < n <=> s[m] \in before[s[n]]
  <1> PICK N \in Nat : N = Len(s) /\ N = Cardinality(rows)
    BY DEF RanksRows, IsList
  <1>1. \A m, n \in 1 .. N : s[m] = s[n] => m = n
    <2> SUFFICES ASSUME NEW m \in 1 .. N, NEW n \in 1 .. N, s[m] = s[n] PROVE m = n
      OBVIOUS
    <2>1. m - 1 = n - 1
      BY DEF RanksRows
    <2>2. QED
      BY <2>1
  <1>2. \A x \in rows : \E n \in 1 .. N : s[n] = x
    <2> PICK f : f = [n \in 1 .. N |-> s[n]]
      OBVIOUS
    <2>1. f \in Injection(1 .. N, rows)
      BY <1>1 DEF RanksRows, Injection, IsInjective
    <2>2. Cardinality(1 .. N) = N
      <3>1. 1 \in Int /\ N \in Int
        OBVIOUS
      <3>2. Cardinality(1 .. N) = IF 1 > N THEN 0 ELSE N - 1 + 1
        BY <3>1, FS_Interval, Zenon
      <3>3. QED
        BY <3>2
    <2>3. f \in Surjection(1 .. N, rows)
      BY <2>1, <2>2, FS_Injection
    <2>4. QED
      BY <2>3 DEF Surjection
  <1>3. ASSUME NEW m \in 1 .. N, NEW n \in 1 .. N, s[m] \in before[s[n]] PROVE m < n
    <2>1. s[m] \in rows /\ s[n] \in rows /\ Cardinality(before[s[m]]) = m - 1
          /\ Cardinality(before[s[n]]) = n - 1
      BY DEF RanksRows
    <2>2. before[s[m]] \in SUBSET before[s[n]] /\ before[s[n]] \in SUBSET rows
          /\ s[m] \notin before[s[m]]
      BY <1>3, <2>1 DEF OrdersRows
    <2>3. IsFiniteSet(before[s[n]])
      BY <2>2, FS_Subset
    <2>4. m - 1 <= n - 1 /\ m # n
      BY <1>3, <2>1, <2>2, <2>3, FS_Subset
    <2>5. QED
      BY <2>4
  <1>4. ASSUME NEW m \in 1 .. N, NEW n \in 1 .. N, m < n PROVE s[m] \in before[s[n]]
    <2>1. s[m] # s[n] /\ s[m] \in rows /\ s[n] \in rows
      BY <1>1, <1>4 DEF RanksRows
    <2>2. ~(s[n] \in before[s[m]])
      BY <1>3, <1>4
    <2>3. QED
      BY <2>1, <2>2 DEF OrdersRows
  <1>5. QED
    BY <1>1, <1>2, <1>3, <1>4

LEMMA RowsByRank ==
    ASSUME NEW rows, IsFiniteSet(rows), NEW before, OrdersRows(before, rows),
           NEW s, s = [n \in 1 .. Cardinality(rows) |->
                          CHOOSE x \in rows : Cardinality(before[x]) = n - 1]
    PROVE  RanksRows(s, before, rows)
  <1>1. PICK N \in Nat : N = Cardinality(rows)
    BY FS_CardinalityType
  <1>2. IsList(s) /\ Len(s) = N
    BY <1>1 DEF IsList
  <1>3. ASSUME NEW n \in 1 .. N PROVE s[n] \in rows /\ Cardinality(before[s[n]]) = n - 1
    <2>1. \E x \in rows : Cardinality(before[x]) = n - 1
      BY <1>1, EveryPlaceIsTaken
    <2>2. s[n] = CHOOSE x \in rows : Cardinality(before[x]) = n - 1
      BY <1>1
    <2>3. QED
      BY <2>1, <2>2, Zenon
  <1>4. QED
    BY <1>1, <1>2, <1>3 DEF RanksRows

\* However ties are broken, the quantities by which rows are ordered come in one order.
LEMMA SameQuantities ==
    ASSUME NEW rows, IsFiniteSet(rows), NEW quantity, \A x \in rows : quantity[x] \in Int,
           NEW before, OrdersRows(before, rows),
           \A x \in rows : \A y \in before[x] : quantity[y] >= quantity[x],
           NEW s, RanksRows(s, before, rows),
           NEW prior, OrdersRows(prior, rows),
           \A x \in rows : \A y \in prior[x] : quantity[y] >= quantity[x],
           NEW t, RanksRows(t, prior, rows),
           NEW n \in 1 .. Len(s)
    PROVE  quantity[s[n]] <= quantity[t[n]]
  <1> SUFFICES ASSUME ~(quantity[s[n]] <= quantity[t[n]]) PROVE FALSE
    OBVIOUS
  <1>1. /\ s[n] \in rows /\ Cardinality(before[s[n]]) = n - 1
        /\ t[n] \in rows /\ Cardinality(prior[t[n]]) = n - 1
    BY DEF RanksRows
  <1>2. PICK x, y : x = s[n] /\ y = t[n]
    OBVIOUS
  <1>3. x \in rows /\ y \in rows /\ quantity[x] > quantity[y] /\ n \in Int
    <2>1. quantity[x] \in Int /\ quantity[y] \in Int
      BY <1>1, <1>2
    <2>2. n \in Int
      BY DEF RanksRows, IsList
    <2>3. QED
      BY <1>1, <1>2, <2>1, <2>2
  <1>4. before[x] \cup {x} \in SUBSET prior[y]
    <2>1. ASSUME NEW z \in before[x] \cup {x} PROVE z \in prior[y]
      <3>1. z \in rows /\ quantity[z] >= quantity[x]
        BY <1>3, <2>1 DEF OrdersRows
      <3>2. quantity[z] > quantity[y] /\ z # y
        BY <1>3, <3>1
      <3>3. ~(y \in prior[z])
        BY <1>3, <3>1, <3>2
      <3>4. QED
        BY <1>3, <3>1, <3>2, <3>3 DEF OrdersRows
    <2>2. QED
      BY <2>1
  <1>5. IsFiniteSet(prior[y]) /\ IsFiniteSet(before[x]) /\ x \notin before[x]
    BY <1>3, FS_Subset DEF OrdersRows
  <1>6. Cardinality(before[x] \cup {x}) = n
    <2>1. Cardinality(before[x] \cup {x}) = Cardinality(before[x]) + 1
      BY <1>5, FS_AddElement
    <2>2. Cardinality(before[x]) = n - 1
      BY <1>1, <1>2
    <2>3. QED
      BY <1>3, <2>1, <2>2
  <1>7. Cardinality(before[x] \cup {x}) <= Cardinality(prior[y])
    BY <1>4, <1>5, FS_Subset
  <1>8. QED
    BY <1>1, <1>2, <1>3, <1>6, <1>7

-----------------------------------------------------------------------------
(* Pages of a list *)

LEMMA JoinedParts ==
    ASSUME NEW T, NEW s \in Seq(T), NEW a \in 0 .. Len(s), NEW b \in a .. Len(s)
    PROVE  SubSeq(s, 1, a) \o SubSeq(s, a + 1, b) = SubSeq(s, 1, b)
  <1>1. SubSeq(s, 1, a) = [i \in 1 .. a |-> s[i]] /\ SubSeq(s, 1, b) = [i \in 1 .. b |-> s[i]]
    OBVIOUS
  <1>2. SubSeq(s, a + 1, b) = [i \in 1 .. b - a |-> s[a + i]]
    OBVIOUS
  <1>3. QED
    BY <1>1, <1>2

\* Where page n of a list of N rows ends
PageEnd(N, limit, n) == IF n * limit < N THEN n * limit ELSE N

LEMMA PageCount ==
    ASSUME NEW N \in Nat, NEW limit \in Nat \ {0}, NEW pages, pages = (N + limit - 1) \div limit
    PROVE  /\ pages \in Nat /\ (pages = 0 <=> N = 0)
           /\ N <= pages * limit /\ (pages # 0 => (pages - 1) * limit < N)
  <1>1. PICK a : a = N + limit - 1
    OBVIOUS
  <1>2. a \in Nat
    BY <1>1
  <1>3. PICK r : r = a % limit
    OBVIOUS
  <1>4. pages \in Nat /\ r \in 0 .. limit - 1 /\ a = limit * pages + r
    BY <1>1, <1>2, <1>3
  <1>5. limit * pages = pages * limit /\ (pages - 1) * limit = pages * limit - limit
    BY <1>4
  <1>6. PICK c \in Int : c = pages * limit
    BY <1>4
  <1>7. N <= c /\ c - limit < N
    BY <1>1, <1>4, <1>5, <1>6
  <1>8. pages = 0 <=> N = 0
    <2>1. CASE pages = 0
      BY <1>6, <1>7, <2>1
    <2>2. CASE pages # 0
      <3>1. c >= limit
        BY <1>4, <1>6, <2>2
      <3>2. QED
        BY <1>1, <1>4, <1>5, <1>6, <2>2, <3>1
    <2>3. QED
      BY <2>1, <2>2
  <1>9. QED
    BY <1>4, <1>5, <1>6, <1>7, <1>8

LEMMA Multiples ==
    ASSUME NEW a \in Nat, NEW b \in Nat, a <= b, NEW limit \in Nat
    PROVE  a * limit >= 0 /\ a * limit <= b * limit
  <1>1. PICK d \in Nat : b = a + d
    <2>1. b - a \in Nat /\ b = a + (b - a)
      OBVIOUS
    <2>2. QED
      BY <2>1
  <1>2. b * limit = a * limit + d * limit
    BY <1>1
  <1>3. a * limit \in Nat /\ d * limit \in Nat
    OBVIOUS
  <1>4. QED
    BY <1>2, <1>3

\* Pages that follow each other without a gap are together the list.
LEMMA JoinedPages ==
    ASSUME NEW T, NEW s \in Seq(T), NEW limit \in Nat \ {0},
           NEW pages, pages = (Len(s) + limit - 1) \div limit,
           NEW read, DOMAIN read = 1 .. pages, read = [n \in 1 .. pages |-> read[n]],
           \A n \in 1 .. pages :
               read[n] = SubSeq(s, (n - 1) * limit + 1, PageEnd(Len(s), limit, n))
    PROVE  FlattenSeq(read) = s
  <1> PICK N \in Nat : N = Len(s)
    OBVIOUS
  <1>1. /\ pages \in Nat /\ (pages = 0 <=> N = 0)
        /\ N <= pages * limit /\ (pages # 0 => (pages - 1) * limit < N)
    BY PageCount
  <1>0. pages \in Nat
    BY <1>1
  <1>2. Len(read) = pages
    BY <1>1
  <1>3. CASE pages = 0
    <2>1. read = <<>>
      <3>1. 1 .. pages = {}
        BY <1>3
      <3>2. QED
        BY <3>1
    <2>3. s = <<>>
      BY <1>1, <1>3
    <2>2. QED
      BY <1>2, <1>3, <2>1, <2>3 DEF FlattenSeq
  <1>4. CASE pages # 0
    <2> DEFINE Joins(f) == f = [i \in 1 .. Len(read) |->
                                   IF i = 1 THEN read[i] ELSE f[i - 1] \o read[i]]
               Upto(i) == SubSeq(s, 1, PageEnd(N, limit, i))
    <2>1. ASSUME NEW n \in 1 .. pages
          PROVE  /\ PageEnd(N, limit, n) \in 0 .. N
                 /\ n # 1 => PageEnd(N, limit, n - 1) = (n - 1) * limit
                             /\ PageEnd(N, limit, n) \in PageEnd(N, limit, n - 1) .. N
      <3>1. PICK c \in Int : c = (n - 1) * limit
        BY <1>1
      <3>2. n * limit = c + limit
        BY <1>1, <3>1
      <3>3. (n - 1) * limit >= 0 /\ (n - 1) * limit <= (pages - 1) * limit
        <4>1. n - 1 \in Nat /\ pages - 1 \in Nat /\ n - 1 <= pages - 1
          BY <1>0, <1>4
        <4>2. QED
          BY <4>1, Multiples
      <3>4. c >= 0 /\ c < N
        BY <1>1, <1>4, <3>1, <3>3
      <3>5. QED
        BY <3>1, <3>2, <3>4 DEF PageEnd
    <2>2. ASSUME NEW n \in 1 .. pages, n # 1 PROVE Upto(n) = Upto(n - 1) \o read[n]
      <3>1. PICK a, b : a = PageEnd(N, limit, n - 1) /\ b = PageEnd(N, limit, n)
        OBVIOUS
      <3>2. a \in 0 .. N /\ b \in a .. N /\ a = (n - 1) * limit
        <4>1. n - 1 \in 1 .. pages
          BY ONLY pages \in Nat, n \in 1 .. pages, n # 1
        <4>2. QED
          BY <2>1, <2>2, <3>1, <4>1
      <3>3. read[n] = SubSeq(s, a + 1, b)
        BY <3>1, <3>2
      <3>4. SubSeq(s, 1, a) \o SubSeq(s, a + 1, b) = SubSeq(s, 1, b)
        BY <3>2, JoinedParts
      <3>5. QED
        BY <3>1, <3>3, <3>4, Zenon
    <2>3. Upto(1) = read[1]
      <3>1. 1 \in 1 .. pages /\ (1 - 1) * limit + 1 = 1
        BY <1>1, <1>4, SMTT(40)
      <3>2. QED
        BY <3>1
    <2>4. PICK g : g = [i \in 1 .. pages |-> Upto(i)]
      OBVIOUS
    <2>5. Joins(g)
      <3> HIDE DEF Upto
      <3>1. ASSUME NEW i \in 1 .. pages
            PROVE  g[i] = IF i = 1 THEN read[i] ELSE g[i - 1] \o read[i]
        <4>1. CASE i = 1
          BY <2>3, <2>4, <4>1
        <4>2. CASE i # 1
          <5>1. i - 1 \in 1 .. pages
            BY ONLY pages \in Nat, i \in 1 .. pages, i # 1
          <5>2. g[i] = Upto(i) /\ g[i - 1] = Upto(i - 1)
            BY <2>4, <5>1, Zenon
          <5>3. QED
            BY <2>2, <4>2, <5>2, Zenon
        <4>3. QED
          BY <4>1, <4>2
      <3>2. QED
        BY <1>2, <2>4, <3>1, ZenonT(60)
    <2>6. PICK f : Joins(f) /\ FlattenSeq(read) = f[Len(read)]
      <3>1. PICK f : f = (CHOOSE h : Joins(h))
        OBVIOUS
      <3>2. Joins(f)
        <4> HIDE DEF Joins
        <4>1. QED
          BY <2>5, <3>1, Zenon
      <3>3. FlattenSeq(read) = f[Len(read)]
        BY <1>2, <1>4, <3>1, Zenon DEF FlattenSeq
      <3>4. QED
        BY <3>2, <3>3, Zenon
    <2>7. ASSUME NEW i \in 1 .. pages
          PROVE  f[i] = IF i = 1 THEN read[i] ELSE f[i - 1] \o read[i]
      BY <1>2, <2>6, Zenon
    <2> HIDE DEF Joins
    <2> DEFINE S == {i \in Nat : i + 1 \in 1 .. pages => f[i + 1] = Upto(i + 1)}
    <2>8. 0 \in S
      <3> HIDE DEF Upto
      <3>1. 1 \in 1 .. pages
        BY <1>1, <1>4
      <3>2. f[1] = read[1]
        BY <2>7, <3>1, Zenon
      <3>3. f[1] = Upto(1)
        BY <2>3, <3>2
      <3>4. QED
        BY <3>3
    <2>9. ASSUME NEW i \in Nat, i \in S PROVE i + 1 \in S
      <3> HIDE DEF Upto
      <3> SUFFICES ASSUME i + 1 + 1 \in 1 .. pages PROVE f[i + 1 + 1] = Upto(i + 1 + 1)
        OBVIOUS
      <3>1. PICK n : n = i + 1 + 1
        OBVIOUS
      <3>2. n \in 1 .. pages /\ n # 1 /\ n - 1 = i + 1 /\ n - 1 \in 1 .. pages
        BY <1>0, <3>1
      <3>3. f[n - 1] = Upto(n - 1)
        BY <2>9, <3>2
      <3>4. f[n] = f[n - 1] \o read[n]
        BY <2>7, <3>2, Zenon
      <3>5. Upto(n) = Upto(n - 1) \o read[n]
        BY <2>2, <3>2
      <3>6. QED
        BY <3>1, <3>3, <3>4, <3>5, Zenon
    <2>10. f[pages] = Upto(pages)
      <3> HIDE DEF Upto
      <3>1. pages - 1 \in Nat /\ pages - 1 + 1 = pages /\ pages \in 1 .. pages
        BY <1>0, <1>4
      <3>2. pages - 1 \in S
        <4> HIDE DEF S
        <4>1. QED
          BY <2>8, <2>9, <3>1, NatSetInduction
      <3>3. QED
        BY <3>1, <3>2
    <2>11. PageEnd(N, limit, pages) = N
      BY <1>1 DEF PageEnd
    <2>12. Upto(pages) = s
      BY <2>11
    <2>13. QED
      BY <1>2, <2>6, <2>10, <2>12, Zenon
  <1>5. QED
    BY <1>3, <1>4

\* Rows by rank, and their list read page by page
InOrder(s, before, rows) ==
    s = [n \in 1 .. Cardinality(rows) |-> CHOOSE x \in rows : Cardinality(before[x]) = n - 1]

ReadInPages(read, s, limit) ==
    read = [n \in 1 .. ((Len(s) + limit - 1) \div limit) |->
               SubSeq(s, (n - 1) * limit + 1, PageEnd(Len(s), limit, n))]

\* Whoever reads the pages one after the other has every row once.
LEMMA PagesOfRanks ==
    ASSUME NEW rows, IsFiniteSet(rows), NEW before, OrdersRows(before, rows),
           NEW s, InOrder(s, before, rows),
           NEW limit \in Nat \ {0}, NEW read, ReadInPages(read, s, limit)
    PROVE  /\ Len(s) = Cardinality(rows) /\ ToSet(s) = rows
           /\ FlattenSeq(read) = s
  <1>1. PICK N \in Nat : N = Cardinality(rows)
    BY FS_CardinalityType
  <1>2. /\ s = [n \in 1 .. N |-> CHOOSE x \in rows : Cardinality(before[x]) = n - 1]
        /\ IsList(s) /\ Len(s) = N
    BY <1>1 DEF InOrder, IsList
  <1>3. RanksRows(s, before, rows)
    BY ONLY IsFiniteSet(rows), OrdersRows(before, rows), <1>1, <1>2, RowsByRank
  <1>4. /\ \A n \in 1 .. N : s[n] \in rows
        /\ \A x \in rows : \E n \in 1 .. N : s[n] = x
    <2>1. \A x \in rows : \E n \in 1 .. Len(s) : s[n] = x
      BY ONLY IsFiniteSet(rows), OrdersRows(before, rows), <1>3, RankedRows, SMT
    <2>2. QED
      BY <1>2, <1>3, <2>1 DEF RanksRows
  <1>5. s \in Seq(rows) /\ ToSet(s) = rows
    <2>1. DOMAIN s = 1 .. N /\ s = [n \in 1 .. N |-> s[n]]
      BY <1>1, <1>2
    <2>2. s \in Seq(rows)
      BY ONLY <1>1, <1>4, <2>1
    <2>3. {s[i] : i \in DOMAIN s} = rows
      BY ONLY <1>4, <2>1, Zenon
    <2>4. QED
      BY <2>2, <2>3 DEF ToSet
  <1>6. PICK pages : pages = (Len(s) + limit - 1) \div limit
    OBVIOUS
  <1>7. /\ DOMAIN read = 1 .. pages /\ read = [n \in 1 .. pages |-> read[n]]
        /\ \A n \in 1 .. pages :
               read[n] = SubSeq(s, (n - 1) * limit + 1, PageEnd(Len(s), limit, n))
    BY <1>6 DEF ReadInPages
  <1>8. FlattenSeq(read) = s
    BY ONLY limit \in Nat \ {0}, <1>5, <1>6, <1>7, JoinedPages, Zenon
  <1>9. QED
    BY <1>1, <1>2, <1>5, <1>8

-----------------------------------------------------------------------------
(* The latest of some events *)

\* shown are n of the events, or all of them, and none left out is later
IsCut(shown, events, at, n) ==
    /\ shown \in SUBSET events
    /\ Cardinality(shown) = IF n < Cardinality(events) THEN n ELSE Cardinality(events)
    /\ \A x \in shown, y \in events \ shown : ~(at[y] > at[x])

LEMMA CutsExist ==
    ASSUME NEW events, IsFiniteSet(events), NEW N \in Nat, NEW at, \A x \in events : at[x] \in 0 .. N,
           NEW n \in Nat
    PROVE  \E shown : IsCut(shown, events, at, n)
  <1> PICK E \in Nat : E = Cardinality(events)
    BY FS_CardinalityType
  <1> DEFINE S == {k \in Nat : \E shown : IsCut(shown, events, at, k)}
  <1>1. 0 \in S
    <2>1. Cardinality({}) = 0
      BY FS_EmptySet
    <2>2. IsCut({}, events, at, 0)
      BY <2>1 DEF IsCut
    <2>3. QED
      BY <2>2
  <1>2. ASSUME NEW k \in Nat, k \in S PROVE k + 1 \in S
    <2>1. PICK shown : IsCut(shown, events, at, k)
      BY <1>2
    <2>2. shown \in SUBSET events /\ IsFiniteSet(shown) /\ Cardinality(shown) = IF k < E THEN k ELSE E
      BY <2>1, FS_Subset DEF IsCut
    <2>3. CASE k < E
      <3>1. events \ shown # {}
        <4>1. shown # events
          BY <2>2, <2>3
        <4>2. QED
          BY <2>2, <4>1
      <3>2. PICK y \in events \ shown : \A z \in events \ shown : at[y] >= at[z]
        <4>1. PICK T : T = {at[z] : z \in events \ shown}
          OBVIOUS
        <4>2. T \subseteq Nat /\ T # {} /\ \A t \in T : t <= N
          BY <3>1, <4>1
        <4>3. PICK m \in T : \A t \in T : m >= t
          BY <4>2, GreatestNatural
        <4>4. QED
          BY <4>1, <4>3
      <3>3. PICK more : more = shown \cup {y}
        OBVIOUS
      <3>4. Cardinality(more) = k + 1
        BY <2>2, <2>3, <3>2, <3>3, FS_AddElement
      <3>5. \A x \in shown, z \in events \ shown : ~(at[z] > at[x])
        BY <2>1 DEF IsCut
      <3>6. more \in SUBSET events /\ \A x \in more, z \in events \ more : ~(at[z] > at[x])
        BY <2>2, <3>2, <3>3, <3>5
      <3>7. k + 1 = IF k + 1 < E THEN k + 1 ELSE E
        BY <2>3
      <3>8. IsCut(more, events, at, k + 1)
        BY <3>4, <3>6, <3>7 DEF IsCut
      <3>9. QED
        BY <3>8
    <2>4. CASE ~(k < E)
      <3>1. IsCut(shown, events, at, k + 1)
        BY <2>1, <2>2, <2>4 DEF IsCut
      <3>2. QED
        BY <3>1
    <2>5. QED
      BY <2>3, <2>4
  <1> HIDE DEF S
  <1>3. n \in S
    BY <1>1, <1>2, NatSetInduction
  <1>4. QED
    BY <1>3 DEF S

\* Cutting first what is merged: right if for every event that was left out
\* as many others are at hand that are not earlier.
LEMMA CutOfCuts ==
    ASSUME NEW all, IsFiniteSet(all), NEW at, \A x \in all : at[x] \in Nat, NEW n \in Nat,
           NEW events \in SUBSET all, NEW shown, IsCut(shown, events, at, n),
           \A y \in all \ events : \E a \in SUBSET events :
               Cardinality(a) >= n /\ \A e \in a : ~(at[y] > at[e])
    PROVE  IsCut(shown, all, at, n)
  <1>1. /\ IsFiniteSet(events) /\ Cardinality(events) \in Nat /\ Cardinality(all) \in Nat
        /\ Cardinality(events) <= Cardinality(all)
    BY FS_Subset, FS_CardinalityType
  <1>2. /\ shown \in SUBSET events /\ IsFiniteSet(shown) /\ Cardinality(shown) \in Nat
        /\ Cardinality(shown) = IF n < Cardinality(events) THEN n ELSE Cardinality(events)
    <2>1. shown \in SUBSET events
      BY DEF IsCut
    <2>2. IsFiniteSet(shown)
      BY <1>1, <2>1, FS_Subset
    <2>3. QED
      BY <2>1, <2>2, FS_CardinalityType DEF IsCut
  <1>3. Cardinality(shown) = IF n < Cardinality(all) THEN n ELSE Cardinality(all)
    <2>1. CASE events = all
      BY <1>2, <2>1
    <2>2. CASE events # all
      <3>1. PICK y \in all \ events : TRUE
        BY <2>2
      <3>2. PICK a \in SUBSET events : Cardinality(a) >= n
        BY <3>1
      <3>3. Cardinality(a) \in Nat /\ Cardinality(a) <= Cardinality(events)
        BY <1>1, FS_Subset, FS_CardinalityType
      <3>4. QED
        BY <1>1, <1>2, <3>2, <3>3
    <2>3. QED
      BY <2>1, <2>2
  <1>4. ASSUME NEW x \in shown, NEW y \in all \ shown, at[y] > at[x] PROVE FALSE
    <2>1. y \notin events
      BY <1>4 DEF IsCut
    <2>2. PICK a \in SUBSET events : Cardinality(a) >= n /\ \A e \in a : ~(at[y] > at[e])
      BY <2>1
    <2>3. \A e \in a : at[e] \in Nat /\ at[x] \in Nat /\ at[y] \in Nat
      BY <1>2
    <2>4. x \notin a /\ a \subseteq shown
      <3>1. ASSUME NEW e \in a, e \notin shown PROVE FALSE
        <4>1. ~(at[e] > at[x])
          BY <3>1 DEF IsCut
        <4>2. QED
          BY <1>4, <2>2, <2>3, <4>1
      <3>2. QED
        BY <1>4, <2>2, <3>1
    <2>5. a \in SUBSET (shown \ {x}) /\ IsFiniteSet(shown \ {x})
          /\ Cardinality(shown \ {x}) = Cardinality(shown) - 1
      BY <1>2, <2>4, FS_RemoveElement
    <2>6. Cardinality(a) \in Nat /\ Cardinality(a) <= Cardinality(shown) - 1
      BY <2>5, FS_Subset, FS_CardinalityType
    <2>7. Cardinality(shown) <= n
      BY <1>1, <1>2
    <2>8. QED
      BY <1>2, <2>2, <2>6, <2>7
  <1>5. QED
    BY <1>2, <1>3, <1>4 DEF IsCut
=============================================================================
