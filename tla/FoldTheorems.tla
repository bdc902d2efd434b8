---------------------------- MODULE FoldTheorems ----------------------------
(***************************************************************************)
(* What the folds of the community modules compute: FoldLeft over a        *)
(* sequence, for any operator, and SumFunctionOnSet over a finite set.     *)
(* The provers cannot use an induction theorem that takes an operator, so  *)
(* induction is stated here of sets: what holds is a set, and the set      *)
(* contains everything.  A module that folds an operator of its own        *)
(* instantiates this one with it.                                          *)
(***************************************************************************)
EXTENDS SequencesExt, SequenceTheorems, FiniteSetTheorems, WellFoundedInduction, TLAPS

CONSTANT Op(_, _)

----------------------------------------------------------------------------
(* Induction.                                                              *)

Less == {pair \in Nat \X Nat : pair[1] < pair[2]}

LEMMA LessIsWellFounded == IsWellFoundedOn(Less, Nat)
  BY NatLessThanWellFounded DEF OpToRel, Less

\* A set of naturals with zero and the successor of each of its members has them all.
LEMMA NaturalInduction ==
    ASSUME NEW T, 0 \in T, \A n \in Nat : n \in T => n + 1 \in T
    PROVE  Nat \subseteq T
  <1> DEFINE U == Nat \ T
  <1> SUFFICES ASSUME U # {} PROVE FALSE
    OBVIOUS
  <1>1. U \subseteq Nat
    OBVIOUS
  <1> HIDE DEF U
  <1>2. PICK x \in U : \A y \in U : <<y, x>> \notin Less
    BY <1>1, LessIsWellFounded, WFMin
  <1>3. x \in Nat /\ x # 0 /\ x \notin T
    BY DEF U
  <1>4. x - 1 \in Nat /\ x - 1 < x /\ (x - 1) + 1 = x
    BY <1>3
  <1>5. <<x - 1, x>> \in Less
    BY <1>3, <1>4 DEF Less
  <1>6. x - 1 \in T
    BY <1>2, <1>4, <1>5 DEF U
  <1> QED
    BY <1>3, <1>4, <1>6

\* A set of subsets of a finite set with the empty one, and every member with one more element, has them all.
LEMMA SubsetInduction ==
    ASSUME NEW S, IsFiniteSet(S), NEW T, {} \in T,
           \A A \in SUBSET S, x \in S : A \in T /\ x \notin A => A \cup {x} \in T
    PROVE  SUBSET S \subseteq T
  <1> DEFINE OfSize == {n \in Nat : \A A \in SUBSET S : Cardinality(A) = n => A \in T}
  <1>1. 0 \in OfSize
    <2>1. \A A \in SUBSET S : Cardinality(A) = 0 => A = {}
      BY FS_Subset, FS_EmptySet
    <2> QED
      BY <2>1
  <1>2. ASSUME NEW n \in Nat, n \in OfSize
        PROVE  n + 1 \in OfSize
    <2> SUFFICES ASSUME NEW A \in SUBSET S, Cardinality(A) = n + 1
                 PROVE  A \in T
      OBVIOUS
    <2>1. IsFiniteSet(A)
      BY FS_Subset
    <2>2. A # {}
      <3>1. n + 1 # 0 /\ Cardinality({}) = 0
        BY FS_EmptySet
      <3> QED
        BY <3>1
    <2>3. PICK x \in A : TRUE
      BY <2>2
    <2>4. Cardinality(A \ {x}) = n
      <3>1. Cardinality(A \ {x}) = Cardinality(A) - 1
        BY <2>1, <2>3, FS_RemoveElement
      <3>2. (n + 1) - 1 = n
        OBVIOUS
      <3> QED
        BY <3>1, <3>2
    <2>5. A \ {x} \in T
      BY <1>2, <2>4
    <2>6. A = (A \ {x}) \cup {x}
      BY <2>3
    <2> QED
      BY <2>5, <2>6
  <1> HIDE DEF OfSize
  <1>3. Nat \subseteq OfSize
    BY <1>1, <1>2, NaturalInduction
  <1>4. ASSUME NEW A \in SUBSET S
        PROVE  A \in T
    <2>1. Cardinality(A) \in Nat
      BY FS_Subset, FS_CardinalityType
    <2> QED
      BY <1>3, <2>1 DEF OfSize
  <1> QED
    BY <1>4

----------------------------------------------------------------------------
(* FoldLeft.                                                               *)

Folded(base, seq) == FoldLeft(Op, base, seq)

\* A finite set of naturals that is not empty has a greatest element.
LEMMA GreatestIn ==
    ASSUME NEW D \in SUBSET Nat, IsFiniteSet(D), NEW A \in SUBSET D, A # {}
    PROVE  Max(A) \in A /\ \A n \in A : n <= Max(A)
  <1> DEFINE T == {B \in SUBSET D : B = {} \/ \E m \in B : \A n \in B : m >= n}
  <1>1. ASSUME NEW B \in SUBSET D, NEW x \in D, B \in T, x \notin B
        PROVE  B \cup {x} \in T
    <2>1. CASE B = {}
      BY <2>1
    <2>2. CASE B # {}
      <3>1. PICK m \in B : \A n \in B : m >= n
        BY <1>1, <2>2
      <3>2. CASE m >= x
        BY <3>1, <3>2
      <3>3. CASE ~(m >= x)
        <4>1. \A n \in B \cup {x} : x >= n
          BY <3>1, <3>3
        <4> QED
          BY <4>1
      <3> QED
        BY <3>2, <3>3
    <2> QED
      BY <2>1, <2>2
  <1> HIDE DEF T
  <1>2. {} \in T
    BY DEF T
  <1>3. A \in T
    BY <1>1, <1>2, SubsetInduction
  <1>4. \E m \in A : \A n \in A : m >= n
    BY <1>3 DEF T
  <1>5. Max(A) \in A /\ \A n \in A : Max(A) >= n
    BY <1>4 DEF Max
  <1> QED
    BY <1>5

\* The function by which FoldLeft is defined, on the sets of indices in `sets`.
Iterates(f, sets, base, seq) ==
    /\ f = [A \in sets |-> f[A]]
    /\ f[{}] = base
    /\ \A A \in sets \ {{}} : f[A] = Op(f[A \ {Max(A)}], seq[Max(A)])

LEMMA IterationExists ==
    ASSUME NEW D \in SUBSET Nat, IsFiniteSet(D), NEW base, NEW seq
    PROVE  \E f : Iterates(f, SUBSET D, base, seq)
  <1> DEFINE UpTo(n) == {A \in SUBSET D : Cardinality(A) <= n}
             T       == {n \in Nat : \E f : Iterates(f, UpTo(n), base, seq)}
  <1>1. 0 \in T
    <2> DEFINE f == [A \in UpTo(0) |-> base]
    <2>1. UpTo(0) = {{}}
      <3>1. {} \in UpTo(0)
        BY FS_EmptySet
      <3>2. ASSUME NEW A \in UpTo(0)
            PROVE  A = {}
        <4>1. IsFiniteSet(A) /\ Cardinality(A) \in Nat /\ Cardinality(A) <= 0
          BY FS_Subset, FS_CardinalityType
        <4>2. Cardinality(A) = 0
          BY <4>1
        <4> QED
          BY <4>1, <4>2, FS_EmptySet
      <3> QED
        BY <3>1, <3>2
    <2>2. Iterates(f, UpTo(0), base, seq)
      BY <2>1 DEF Iterates
    <2> QED
      BY <2>2
  <1>2. ASSUME NEW n \in Nat, n \in T
        PROVE  n + 1 \in T
    <2>1. PICK f : Iterates(f, UpTo(n), base, seq)
      BY <1>2
    <2> DEFINE g == [A \in UpTo(n + 1) |-> IF A = {} THEN base ELSE Op(f[A \ {Max(A)}], seq[Max(A)])]
    <2>2. ASSUME NEW A \in UpTo(n + 1), A # {}
          PROVE  A \ {Max(A)} \in UpTo(n)
      <3>1. Max(A) \in A /\ IsFiniteSet(A)
        BY <2>2, GreatestIn, FS_Subset
      <3>2. Cardinality(A \ {Max(A)}) = Cardinality(A) - 1 /\ Cardinality(A) \in Nat /\ Cardinality(A) <= n + 1
        BY <3>1, FS_RemoveElement, FS_CardinalityType
      <3>3. Cardinality(A \ {Max(A)}) <= n
        BY <3>2
      <3> QED
        BY <3>3
    <2>3. UpTo(n) \subseteq UpTo(n + 1)
      <3> SUFFICES ASSUME NEW A \in UpTo(n) PROVE Cardinality(A) <= n + 1
        OBVIOUS
      <3>1. Cardinality(A) \in Nat /\ Cardinality(A) <= n
        BY FS_Subset, FS_CardinalityType
      <3> QED
        BY <3>1
    <2>4. {} \in UpTo(n)
      BY FS_EmptySet
    <2> HIDE DEF UpTo
    <2>5. \A A \in UpTo(n) : g[A] = f[A]
      BY <2>1, <2>3, <2>4 DEF Iterates
    <2>6. \A A \in UpTo(n + 1) \ {{}} : g[A] = Op(g[A \ {Max(A)}], seq[Max(A)])
      BY <2>2, <2>5
    <2>7. Iterates(g, UpTo(n + 1), base, seq)
      BY <2>3, <2>4, <2>6 DEF Iterates
    <2> HIDE DEF g
    <2> QED
      BY <2>7
  <1> HIDE DEF T
  <1>3. Cardinality(D) \in Nat /\ Nat \subseteq T
    BY <1>1, <1>2, NaturalInduction, FS_CardinalityType
  <1>4. Cardinality(D) \in T
    BY <1>3
  <1>5. UpTo(Cardinality(D)) = SUBSET D
    BY FS_Subset
  <1> QED
    BY <1>4, <1>5 DEF T

\* f[n] is what the first n elements of the sequence make of the base.
Steps(f, base, seq) == f[0] = base /\ \A n \in 1..Len(seq) : f[n] = Op(f[n - 1], seq[n])

\* FoldLeft goes through the sequence from its first element to its last.
LEMMA FoldLeftIs ==
    ASSUME NEW S, NEW seq \in Seq(S), NEW base, NEW f, Steps(f, base, seq)
    PROVE  Folded(base, seq) = f[Len(seq)]
  <1>0. f[0] = base /\ \A n \in 1..Len(seq) : f[n] = Op(f[n - 1], seq[n])
    BY DEF Steps
  <1> DEFINE D == DOMAIN seq
  <1>1. D = 1..Len(seq) /\ Len(seq) \in Nat /\ D \in SUBSET Nat /\ IsFiniteSet(D)
    <2>1. D = 1..Len(seq) /\ Len(seq) \in Nat
      OBVIOUS
    <2> HIDE DEF D
    <2>2. IsFiniteSet(D)
      BY <2>1, FS_Interval
    <2> QED
      BY <2>1, <2>2
  <1> HIDE DEF D
  <1> DEFINE Body(g) == [A \in SUBSET D |-> IF A = {} THEN base ELSE Op(g[A \ {Max(A)}], seq[Max(A)])]
             iter    == CHOOSE g : g = Body(g)
  <1>2. Folded(base, seq) = iter[D]
    BY DEF Folded, FoldLeft, MapThenFoldSet, D
  <1>3. PICK g : Iterates(g, SUBSET D, base, seq)
    BY <1>1, IterationExists
  <1>4. \E h : h = Body(h)
    <2>1. Body(g) = [A \in SUBSET D |-> g[A]]
      BY <1>3 DEF Iterates
    <2>2. g = [A \in SUBSET D |-> g[A]]
      BY <1>3 DEF Iterates
    <2> QED
      BY <2>1, <2>2
  <1>5. iter = Body(iter)
    BY <1>4
  <1> HIDE DEF iter
  <1> DEFINE T == {n \in Nat : n <= Len(seq) => iter[1..n] = f[n]}
  <1>6. 0 \in T
    <2>1. 1..0 = {} /\ {} \in SUBSET D
      OBVIOUS
    <2> QED
      BY <1>0, <1>5, <2>1
  <1>7. ASSUME NEW n \in Nat, n \in T
        PROVE  n + 1 \in T
    <2> SUFFICES ASSUME n + 1 <= Len(seq)
                 PROVE  iter[1..(n + 1)] = f[n + 1]
      OBVIOUS
    <2> DEFINE A == 1..(n + 1)
    <2>1. A \in SUBSET D /\ A # {} /\ n + 1 \in A
      BY <1>1
    <2>2. Max(A) = n + 1
      <3>1. Max(A) \in A /\ \A k \in A : k <= Max(A)
        BY <1>1, <2>1, GreatestIn
      <3> QED
        BY <2>1, <3>1
    <2>3. A \ {n + 1} = 1..n
      OBVIOUS
    <2> HIDE DEF A
    <2>4. iter[A] = Op(iter[A \ {Max(A)}], seq[Max(A)])
      BY <1>5, <2>1
    <2>5. iter[A] = Op(iter[1..n], seq[n + 1])
      BY <2>2, <2>3, <2>4
    <2>6. iter[1..n] = f[n] /\ f[n + 1] = Op(f[n], seq[n + 1])
      <3>1. n <= Len(seq) /\ n + 1 \in 1..Len(seq) /\ (n + 1) - 1 = n
        BY <1>1
      <3> QED
        BY <1>0, <1>7, <3>1
    <2> QED
      BY <2>5, <2>6 DEF A
  <1> HIDE DEF T
  <1>8. Len(seq) \in T
    BY <1>1, <1>6, <1>7, NaturalInduction
  <1>9. Len(seq) <= Len(seq)
    BY <1>1
  <1> QED
    BY <1>1, <1>2, <1>8, <1>9 DEF T

\* The values FoldLeft goes through.
LEMMA FoldLeftSteps ==
    ASSUME NEW S, NEW seq \in Seq(S), NEW base
    PROVE  \E f : Steps(f, base, seq)
  <1> DEFINE T == {m \in Nat : \E f : /\ DOMAIN f = 0..m
                                     /\ f[0] = base
                                     /\ \A n \in 1..m : f[n] = Op(f[n - 1], seq[n])}
  <1>1. 0 \in T
    <2> DEFINE f == [n \in 0..0 |-> base]
    <2>1. DOMAIN f = 0..0 /\ f[0] = base /\ \A n \in 1..0 : f[n] = Op(f[n - 1], seq[n])
      OBVIOUS
    <2> QED
      BY <2>1
  <1>2. ASSUME NEW m \in Nat, m \in T
        PROVE  m + 1 \in T
    <2>1. PICK f : DOMAIN f = 0..m /\ f[0] = base /\ \A n \in 1..m : f[n] = Op(f[n - 1], seq[n])
      BY <1>2
    <2> DEFINE g == [n \in 0..(m + 1) |-> IF n = m + 1 THEN Op(f[m], seq[m + 1]) ELSE f[n]]
    <2>2. DOMAIN g = 0..(m + 1) /\ g[0] = base
      BY <2>1
    <2>3. ASSUME NEW n \in 1..(m + 1)
          PROVE  g[n] = Op(g[n - 1], seq[n])
      <3>1. n - 1 \in 0..(m + 1) /\ n - 1 # m + 1 /\ g[n - 1] = f[n - 1]
        OBVIOUS
      <3>2. CASE n = m + 1
        <4>1. n - 1 = m /\ g[n] = Op(f[m], seq[m + 1])
          BY <3>2
        <4> QED
          BY <3>1, <3>2, <4>1
      <3>3. CASE n # m + 1
        <4>1. n \in 1..m /\ g[n] = f[n]
          BY <3>3
        <4> QED
          BY <2>1, <3>1, <4>1
      <3> QED
        BY <3>2, <3>3
    <2> HIDE DEF g
    <2> QED
      BY <2>2, <2>3
  <1> HIDE DEF T
  <1>3. Len(seq) \in T
    BY <1>1, <1>2, NaturalInduction
  <1> QED
    BY <1>3 DEF T, Steps

\* Nothing to fold.
LEMMA FoldLeftEmpty ==
    ASSUME NEW base
    PROVE  Folded(base, <<>>) = base
  <1>1. <<>> \in Seq({}) /\ Len(<<>>) = 0
    OBVIOUS
  <1>2. PICK f : Steps(f, base, <<>>)
    BY <1>1, FoldLeftSteps
  <1>3. f[0] = base
    BY <1>2 DEF Steps
  <1> QED
    BY <1>1, <1>2, <1>3, FoldLeftIs

\* The last element comes last.
LEMMA FoldLeftAppend ==
    ASSUME NEW S, NEW seq \in Seq(S), NEW last \in S, NEW base
    PROVE  Folded(base, Append(seq, last)) = Op(Folded(base, seq), last)
  <1> DEFINE all == Append(seq, last)
  <1>1. /\ all \in Seq(S) /\ Len(seq) \in Nat /\ Len(all) = Len(seq) + 1 /\ all[Len(seq) + 1] = last
        /\ \A n \in 1..Len(seq) : all[n] = seq[n]
    BY AppendProperties
  <1> HIDE DEF all
  <1>2. PICK f : Steps(f, base, all)
    BY <1>1, FoldLeftSteps
  <1>3. Steps(f, base, seq)
    <2>1. \A n \in 1..Len(seq) : n \in 1..Len(all)
      BY <1>1
    <2> QED
      BY <1>1, <1>2, <2>1 DEF Steps
  <1>4. Folded(base, all) = f[Len(all)] /\ Folded(base, seq) = f[Len(seq)]
    BY <1>1, <1>2, <1>3, FoldLeftIs
  <1>5. f[Len(seq) + 1] = Op(f[Len(seq)], last)
    <2>1. Len(seq) + 1 \in 1..Len(all) /\ (Len(seq) + 1) - 1 = Len(seq)
      BY <1>1
    <2> QED
      BY <1>1, <1>2, <2>1 DEF Steps
  <1> QED
    BY <1>1, <1>4, <1>5 DEF all

\* The first element comes first.
LEMMA FoldLeftFirst ==
    ASSUME NEW S, NEW seq \in Seq(S), seq # <<>>, NEW base
    PROVE  Folded(base, seq) = Folded(Op(base, Head(seq)), Tail(seq))
  <1> DEFINE rest == Tail(seq)
  <1>1. /\ rest \in Seq(S) /\ Len(seq) \in Nat /\ Len(seq) >= 1 /\ Len(rest) = Len(seq) - 1
        /\ Head(seq) = seq[1] /\ \A n \in 1..Len(rest) : rest[n] = seq[n + 1]
    BY HeadTailProperties, EmptySeq
  <1> HIDE DEF rest
  <1>2. PICK f : Steps(f, base, seq)
    BY FoldLeftSteps
  <1> DEFINE g == [n \in 0..Len(rest) |-> f[n + 1]]
  <1>3. g[0] = Op(base, Head(seq)) /\ g[Len(rest)] = f[Len(seq)]
    <2>1. 1 \in 1..Len(seq) /\ 1 - 1 = 0 /\ 0 + 1 = 1 /\ 0 \in 0..Len(rest) /\ Len(rest) \in 0..Len(rest)
      BY <1>1
    <2>2. Len(rest) + 1 = Len(seq)
      BY <1>1
    <2> QED
      BY <1>1, <1>2, <2>1, <2>2 DEF Steps
  <1>4. ASSUME NEW n \in 1..Len(rest)
        PROVE  g[n] = Op(g[n - 1], rest[n])
    <2>1. n + 1 \in 1..Len(seq) /\ (n + 1) - 1 = n /\ (n - 1) + 1 = n /\ n - 1 \in 0..Len(rest) /\ n \in 0..Len(rest)
      BY <1>1
    <2>2. f[n + 1] = Op(f[(n + 1) - 1], seq[n + 1])
      BY <1>2, <2>1 DEF Steps
    <2> QED
      BY <1>1, <2>1, <2>2
  <1> HIDE DEF g
  <1> DEFINE first == Op(base, Head(seq))
  <1>5. Steps(g, first, rest)
    BY <1>3, <1>4 DEF Steps
  <1> HIDE DEF first
  <1>6. Folded(first, rest) = g[Len(rest)]
    BY <1>1, <1>5, FoldLeftIs
  <1>7. Folded(base, seq) = f[Len(seq)]
    BY <1>2, FoldLeftIs
  <1> QED
    BY <1>3, <1>6, <1>7 DEF rest, first

\* What holds of the base, and which every step keeps, holds of the result.
LEMMA FoldLeftKeeps ==
    ASSUME NEW S, NEW seq \in Seq(S), NEW I, NEW base \in I,
           \A acc \in I, n \in 1..Len(seq) : Op(acc, seq[n]) \in I
    PROVE  Folded(base, seq) \in I
  <1>1. PICK f : Steps(f, base, seq)
    BY FoldLeftSteps
  <1> DEFINE T == {n \in Nat : n <= Len(seq) => f[n] \in I}
  <1>2. 0 \in T
    BY <1>1 DEF Steps
  <1>3. ASSUME NEW n \in Nat, n \in T
        PROVE  n + 1 \in T
    <2> SUFFICES ASSUME n + 1 <= Len(seq) PROVE f[n + 1] \in I
      OBVIOUS
    <2>1. Len(seq) \in Nat /\ n <= Len(seq) /\ n + 1 \in 1..Len(seq) /\ (n + 1) - 1 = n
      OBVIOUS
    <2>2. f[n] \in I /\ f[n + 1] = Op(f[n], seq[n + 1])
      BY <1>1, <1>3, <2>1 DEF Steps
    <2> QED
      BY <2>1, <2>2
  <1> HIDE DEF T
  <1>4. Len(seq) \in Nat /\ Len(seq) <= Len(seq) /\ Len(seq) \in T
    BY <1>2, <1>3, NaturalInduction
  <1>5. f[Len(seq)] \in I
    BY <1>4 DEF T
  <1> QED
    BY <1>1, <1>5, FoldLeftIs

----------------------------------------------------------------------------
(* Sums.                                                                   *)

AnyOf(A) == CHOOSE x \in A : TRUE

\* g[A] is the sum over A as SumFunctionOnSet goes through it, for every subset A of S.
Sums(g, f, S) ==
    /\ g = [A \in SUBSET S |-> g[A]]
    /\ g[{}] = 0
    /\ \A A \in (SUBSET S) \ {{}} : g[A] = f[AnyOf(A)] + g[A \ {AnyOf(A)}]

LEMMA SumsExist ==
    ASSUME NEW S, IsFiniteSet(S), NEW f
    PROVE  \E g : Sums(g, f, S)
  <1> DEFINE UpTo(n) == {A \in SUBSET S : Cardinality(A) <= n}
             Part(g, n) == /\ g[{}] = 0
                           /\ \A A \in UpTo(n) \ {{}} : g[A] = f[AnyOf(A)] + g[A \ {AnyOf(A)}]
             T       == {n \in Nat : \E g : Part(g, n)}
  <1>1. 0 \in T
    <2> DEFINE g == [A \in {{}} |-> 0]
    <2>1. ASSUME NEW A \in UpTo(0)
          PROVE  A = {}
      <3>1. IsFiniteSet(A) /\ Cardinality(A) \in Nat /\ Cardinality(A) <= 0
        BY FS_Subset, FS_CardinalityType
      <3>2. Cardinality(A) = 0
        BY <3>1
      <3> QED
        BY <3>1, <3>2, FS_EmptySet
    <2> HIDE DEF UpTo
    <2>2. Part(g, 0)
      BY <2>1
    <2> QED
      BY <2>2
  <1>2. ASSUME NEW n \in Nat, n \in T
        PROVE  n + 1 \in T
    <2>1. PICK g : Part(g, n)
      BY <1>2
    <2> DEFINE h == [A \in UpTo(n + 1) |-> IF A = {} THEN 0 ELSE f[AnyOf(A)] + g[A \ {AnyOf(A)}]]
    <2>2. ASSUME NEW A \in UpTo(n + 1), A # {}
          PROVE  A \ {AnyOf(A)} \in UpTo(n)
      <3>1. AnyOf(A) \in A /\ IsFiniteSet(A)
        BY <2>2, FS_Subset DEF AnyOf
      <3>2. Cardinality(A \ {AnyOf(A)}) = Cardinality(A) - 1 /\ Cardinality(A) \in Nat /\ Cardinality(A) <= n + 1
        BY <3>1, FS_RemoveElement, FS_CardinalityType
      <3>3. Cardinality(A \ {AnyOf(A)}) <= n
        BY <3>2
      <3> QED
        BY <3>3
    <2>3. UpTo(n) \subseteq UpTo(n + 1)
      <3> SUFFICES ASSUME NEW A \in UpTo(n) PROVE Cardinality(A) <= n + 1
        OBVIOUS
      <3>1. Cardinality(A) \in Nat /\ Cardinality(A) <= n
        BY FS_Subset, FS_CardinalityType
      <3> QED
        BY <3>1
    <2>4. {} \in UpTo(n)
      BY FS_EmptySet
    <2> HIDE DEF UpTo
    <2>5. \A A \in UpTo(n) : h[A] = g[A]
      BY <2>1, <2>3, <2>4
    <2>6. \A A \in UpTo(n + 1) \ {{}} : h[A] = f[AnyOf(A)] + h[A \ {AnyOf(A)}]
      BY <2>2, <2>5
    <2>7. Part(h, n + 1)
      BY <2>3, <2>4, <2>6
    <2> HIDE DEF h, Part
    <2> QED
      BY <2>7
  <1> HIDE DEF T
  <1>3. Cardinality(S) \in Nat /\ Nat \subseteq T
    BY <1>1, <1>2, NaturalInduction, FS_CardinalityType
  <1>4. Cardinality(S) \in T
    BY <1>3
  <1>5. UpTo(Cardinality(S)) = SUBSET S
    BY FS_Subset
  <1>6. PICK g : Part(g, Cardinality(S))
    BY <1>4 DEF T
  <1> DEFINE h == [A \in SUBSET S |-> g[A]]
  <1>7. Sums(h, f, S)
    <2> HIDE DEF UpTo
    <2>1. \A A \in (SUBSET S) \ {{}} : h[A] = f[AnyOf(A)] + h[A \ {AnyOf(A)}]
      BY <1>5, <1>6
    <2>2. h[{}] = 0
      BY <1>6
    <2> QED
      BY <2>1, <2>2 DEF Sums
  <1> QED
    BY <1>7

\* f has integers on S.
IntegersOn(f, S) == \A x \in S : f[x] \in Int

InAnyOrder(g, f, S) == \A A \in SUBSET S : g[A] \in Int /\ \A x \in A : g[A] = f[x] + g[A \ {x}]

\* Any element of a set may be the last one of the sum.
LEMMA SumsInAnyOrder ==
    ASSUME NEW S, IsFiniteSet(S), NEW f, IntegersOn(f, S), NEW g, Sums(g, f, S)
    PROVE  InAnyOrder(g, f, S)
  <1> USE DEF IntegersOn
  <1> DEFINE Good(A) == g[A] \in Int /\ \A x \in A : g[A] = f[x] + g[A \ {x}]
             T == {n \in Nat : \A A \in SUBSET S : Cardinality(A) <= n => Good(A)}
  <1>0. Good({})
    BY DEF Sums
  <1>1. 0 \in T
    <2>1. ASSUME NEW A \in SUBSET S, Cardinality(A) <= 0
          PROVE  A = {}
      <3>1. IsFiniteSet(A) /\ Cardinality(A) \in Nat
        BY FS_Subset, FS_CardinalityType
      <3>2. Cardinality(A) = 0
        BY <2>1, <3>1
      <3> QED
        BY <3>1, <3>2, FS_EmptySet
    <2> HIDE DEF Good
    <2> QED
      BY <1>0, <2>1
  <1>2. ASSUME NEW n \in Nat, n \in T
        PROVE  n + 1 \in T
    <2> SUFFICES ASSUME NEW A \in SUBSET S, Cardinality(A) <= n + 1, A # {}
                 PROVE  Good(A)
      <3> HIDE DEF Good
      <3> QED
        BY <1>0
    <2>1. IsFiniteSet(A) /\ AnyOf(A) \in A
      BY FS_Subset DEF AnyOf
    <2>2. PICK c \in A : c = AnyOf(A)
      BY <2>1
    <2>3. ASSUME NEW x \in A, NEW B \in SUBSET (A \ {x})
          PROVE  Good(B)
      <3>1. Cardinality(A \ {x}) = Cardinality(A) - 1 /\ Cardinality(A) \in Nat
        BY <2>1, FS_RemoveElement, FS_CardinalityType
      <3>2. Cardinality(B) \in Nat /\ Cardinality(B) <= Cardinality(A \ {x})
        BY <2>1, FS_Subset, FS_CardinalityType
      <3>3. Cardinality(B) <= n
        BY <3>1, <3>2
      <3> HIDE DEF Good
      <3> QED
        BY <1>2, <3>3
    <2>4. g[A] = f[c] + g[A \ {c}]
      BY <2>2 DEF Sums
    <2>5. ASSUME NEW x \in A, x # c
          PROVE  g[A] = f[x] + g[A \ {x}]
      <3> DEFINE B == A \ {x, c}
      <3>1. (A \ {c}) \ {x} = B /\ (A \ {x}) \ {c} = B /\ x \in A \ {c} /\ c \in A \ {x}
        BY <2>5
      <3>0. Good(A \ {c}) /\ Good(A \ {x}) /\ Good(B)
        <4> HIDE DEF Good
        <4> QED
          BY <2>3
      <3>2. g[A \ {c}] = f[x] + g[B]
        BY <3>0, <3>1
      <3>3. g[A \ {x}] = f[c] + g[B]
        BY <3>0, <3>1
      <3>4. f[x] \in Int /\ f[c] \in Int
        OBVIOUS
      <3>5. g[B] \in Int
        BY <3>0
      <3> HIDE DEF B
      <3> QED
        BY <2>4, <3>2, <3>3, <3>4, <3>5
    <2>6. g[A] \in Int
      <3>1. f[c] \in Int /\ g[A \ {c}] \in Int
        BY <2>3
      <3> QED
        BY <2>4, <3>1
    <2> QED
      BY <2>4, <2>5, <2>6
  <1> HIDE DEF T, Good
  <1>3. Nat \subseteq T
    BY <1>1, <1>2, NaturalInduction
  <1>4. ASSUME NEW A \in SUBSET S
        PROVE  Good(A)
    <2>1. Cardinality(A) \in Nat /\ Cardinality(A) <= Cardinality(A)
      BY FS_Subset, FS_CardinalityType
    <2> QED
      BY <1>3, <2>1 DEF T
  <1> QED
    BY <1>4 DEF Good, InAnyOrder

\* A sum over a set is what any way of going through its subsets gives.
LEMMA SumIs ==
    ASSUME NEW S, IsFiniteSet(S), NEW f, IntegersOn(f, S), NEW g, Sums(g, f, S),
           NEW A \in SUBSET S
    PROVE  SumFunctionOnSet(f, A) = g[A]
  <1> DEFINE Body(h) == [B \in SUBSET A |-> IF B = {} THEN 0 ELSE f[AnyOf(B)] + h[B \ {AnyOf(B)}]]
             iter == CHOOSE h : h = Body(h)
  <1>1. SumFunctionOnSet(f, A) = iter[A]
    BY DEF SumFunctionOnSet, FoldFunctionOnSet, MapThenFoldSet, AnyOf
  <1>2. IsFiniteSet(A) /\ IntegersOn(f, A)
    BY FS_Subset DEF IntegersOn
  <1>3. PICK h : Sums(h, f, A)
    BY <1>2, SumsExist
  <1>4. \E k : k = Body(k)
    <2>1. h = [B \in SUBSET A |-> h[B]]
      BY <1>3 DEF Sums
    <2>2. \A B \in SUBSET A : h[B] = IF B = {} THEN 0 ELSE f[AnyOf(B)] + h[B \ {AnyOf(B)}]
      BY <1>3 DEF Sums
    <2> QED
      BY <2>1, <2>2
  <1>5. iter = Body(iter)
    BY <1>4
  <1> HIDE DEF iter
  <1>6. Sums(iter, f, A)
    <2>1. iter = [B \in SUBSET A |-> iter[B]]
      BY <1>5
    <2>2. \A B \in SUBSET A : iter[B] = IF B = {} THEN 0 ELSE f[AnyOf(B)] + iter[B \ {AnyOf(B)}]
      BY <1>5
    <2>3. iter[{}] = 0
      BY <2>2
    <2>4. \A B \in (SUBSET A) \ {{}} : iter[B] = f[AnyOf(B)] + iter[B \ {AnyOf(B)}]
      BY <2>2
    <2> QED
      BY <2>1, <2>3, <2>4 DEF Sums
  <1> DEFINE T == {B \in SUBSET A : iter[B] = g[B]}
  <1>7. {} \in T
    BY <1>6 DEF Sums
  <1>8. ASSUME NEW B \in SUBSET A, NEW x \in A, B \in T, x \notin B
        PROVE  B \cup {x} \in T
    <2>1. (B \cup {x}) \ {x} = B /\ x \in B \cup {x} /\ B \cup {x} \in SUBSET A /\ B \cup {x} \in SUBSET S
      BY <1>8
    <2>2. iter[B \cup {x}] = f[x] + iter[B]
      <3>1. \A C \in SUBSET A : iter[C] \in Int /\ \A y \in C : iter[C] = f[y] + iter[C \ {y}]
        BY <1>2, <1>6, SumsInAnyOrder DEF InAnyOrder
      <3> QED
        BY <2>1, <3>1
    <2>3. g[B \cup {x}] = f[x] + g[B]
      <3>1. \A C \in SUBSET S : g[C] \in Int /\ \A y \in C : g[C] = f[y] + g[C \ {y}]
        BY SumsInAnyOrder DEF InAnyOrder
      <3> QED
        BY <2>1, <3>1
    <2> QED
      BY <1>8, <2>1, <2>2, <2>3
  <1> HIDE DEF T
  <1>9. A \in T
    BY <1>2, <1>7, <1>8, SubsetInduction
  <1> QED
    BY <1>1, <1>9 DEF T

\* The sum over no element.
LEMMA SumOfNone ==
    ASSUME NEW f
    PROVE  SumFunctionOnSet(f, {}) = 0
  <1>1. IsFiniteSet({}) /\ IntegersOn(f, {})
    BY FS_EmptySet DEF IntegersOn
  <1>2. PICK g : Sums(g, f, {})
    BY <1>1, SumsExist
  <1>3. SumFunctionOnSet(f, {}) = g[{}]
    BY <1>1, <1>2, SumIs
  <1> QED
    BY <1>2, <1>3 DEF Sums

\* A sum of integers is an integer, and each element adds its own.
LEMMA SumWithOneMore ==
    ASSUME NEW S, IsFiniteSet(S), NEW x, x \notin S, NEW f, IntegersOn(f, S), f[x] \in Int
    PROVE  SumFunctionOnSet(f, S \cup {x}) = SumFunctionOnSet(f, S) + f[x]
  <1> DEFINE A == S \cup {x}
  <1>1. /\ IsFiniteSet(A) /\ IntegersOn(f, A)
        /\ S \in SUBSET A /\ A \in SUBSET A /\ x \in A /\ A \ {x} = S
    BY FS_AddElement DEF IntegersOn
  <1> HIDE DEF A
  <1>2. PICK g : Sums(g, f, A)
    BY <1>1, SumsExist
  <1>3. SumFunctionOnSet(f, S) = g[S] /\ SumFunctionOnSet(f, A) = g[A]
    BY <1>1, <1>2, SumIs
  <1>4. g[S] \in Int /\ g[A] = f[x] + g[S]
    BY <1>1, <1>2, SumsInAnyOrder DEF InAnyOrder
  <1> QED
    BY <1>3, <1>4 DEF A

\* A sum of integers is an integer.
LEMMA SumIsInteger ==
    ASSUME NEW S, IsFiniteSet(S), NEW f, IntegersOn(f, S)
    PROVE  SumFunctionOnSet(f, S) \in Int
  <1>1. PICK g : Sums(g, f, S)
    BY SumsExist
  <1>2. SumFunctionOnSet(f, S) = g[S] /\ g[S] \in Int
    BY <1>1, SumIs, SumsInAnyOrder DEF InAnyOrder
  <1> QED
    BY <1>2

\* The sum over two sets that share nothing.
LEMMA SumOfUnion ==
    ASSUME NEW S, IsFiniteSet(S), NEW R, IsFiniteSet(R), S \cap R = {},
           NEW f, IntegersOn(f, S), IntegersOn(f, R)
    PROVE  SumFunctionOnSet(f, S \cup R) = SumFunctionOnSet(f, S) + SumFunctionOnSet(f, R)
  <1> DEFINE T == {A \in SUBSET R : SumFunctionOnSet(f, S \cup A) =
                                       SumFunctionOnSet(f, S) + SumFunctionOnSet(f, A)}
  <1>1. {} \in T
    <2>1. SumFunctionOnSet(f, S) \in Int /\ SumFunctionOnSet(f, {}) = 0 /\ S \cup {} = S
      BY SumIsInteger, SumOfNone
    <2> QED
      BY <2>1
  <1>2. ASSUME NEW A \in SUBSET R, NEW x \in R, A \in T, x \notin A
        PROVE  A \cup {x} \in T
    <2>1. /\ IsFiniteSet(A) /\ IsFiniteSet(S \cup A) /\ IntegersOn(f, A) /\ IntegersOn(f, S \cup A)
          /\ x \notin S \cup A /\ f[x] \in Int
      BY <1>2, FS_Subset, FS_Union DEF IntegersOn
    <2>2. SumFunctionOnSet(f, (S \cup A) \cup {x}) = SumFunctionOnSet(f, S \cup A) + f[x]
      BY <2>1, SumWithOneMore
    <2>3. SumFunctionOnSet(f, A \cup {x}) = SumFunctionOnSet(f, A) + f[x]
      BY <1>2, <2>1, SumWithOneMore
    <2>4. SumFunctionOnSet(f, S) \in Int /\ SumFunctionOnSet(f, A) \in Int
      BY <2>1, SumIsInteger
    <2>5. (S \cup A) \cup {x} = S \cup (A \cup {x}) /\ A \cup {x} \in SUBSET R
      OBVIOUS
    <2>6. SumFunctionOnSet(f, S \cup A) = SumFunctionOnSet(f, S) + SumFunctionOnSet(f, A)
      BY <1>2
    <2>7. SumFunctionOnSet(f, S \cup (A \cup {x})) =
             SumFunctionOnSet(f, S) + SumFunctionOnSet(f, A \cup {x})
      <3>1. SumFunctionOnSet(f, S \cup (A \cup {x})) = SumFunctionOnSet(f, S \cup A) + f[x]
        BY <2>2, <2>5
      <3>2. f[x] \in Int
        BY <2>1
      <3> QED
        BY <2>3, <2>4, <2>6, <3>1, <3>2
    <2> QED
      BY <2>5, <2>7
  <1> HIDE DEF T
  <1>3. \A A \in SUBSET R, x \in R : A \in T /\ x \notin A => A \cup {x} \in T
    BY <1>2
  <1>4. SUBSET R \subseteq T
    <2>1. ASSUME NEW U, {} \in U, \A A \in SUBSET R, x \in R : A \in U /\ x \notin A => A \cup {x} \in U
          PROVE  SUBSET R \subseteq U
      BY <2>1, SubsetInduction
    <2> QED
      BY <1>1, <1>3, <2>1
  <1> QED
    BY <1>4 DEF T

\* Two functions that agree on the set have one sum.
LEMMA SumsAgree ==
    ASSUME NEW S, IsFiniteSet(S), NEW f, NEW g, IntegersOn(f, S), \A x \in S : g[x] = f[x]
    PROVE  SumFunctionOnSet(g, S) = SumFunctionOnSet(f, S)
  <1> DEFINE T == {A \in SUBSET S : SumFunctionOnSet(g, A) = SumFunctionOnSet(f, A)}
  <1>1. {} \in T
    BY SumOfNone
  <1>2. ASSUME NEW A \in SUBSET S, NEW x \in S, A \in T, x \notin A
        PROVE  A \cup {x} \in T
    <2>1. IsFiniteSet(A) /\ IntegersOn(f, A) /\ IntegersOn(g, A) /\ f[x] \in Int /\ g[x] \in Int
      BY FS_Subset DEF IntegersOn
    <2>2. SumFunctionOnSet(f, A \cup {x}) = SumFunctionOnSet(f, A) + f[x]
      BY <1>2, <2>1, SumWithOneMore
    <2>3. SumFunctionOnSet(g, A \cup {x}) = SumFunctionOnSet(g, A) + g[x]
      BY <1>2, <2>1, SumWithOneMore
    <2>4. SumFunctionOnSet(g, A) = SumFunctionOnSet(f, A) /\ g[x] = f[x]
      BY <1>2
    <2> QED
      BY <2>2, <2>3, <2>4
  <1> HIDE DEF T
  <1>3. S \in T
    BY <1>1, <1>2, SubsetInduction
  <1> QED
    BY <1>3 DEF T

\* What the sum changes by when one element does.
LEMMA SumWithOneChanged ==
    ASSUME NEW S, IsFiniteSet(S), NEW x \in S, NEW f, NEW g, IntegersOn(f, S), g[x] \in Int,
           \A y \in S \ {x} : g[y] = f[y]
    PROVE  SumFunctionOnSet(g, S) = SumFunctionOnSet(f, S) - f[x] + g[x]
  <1> DEFINE R == S \ {x}
  <1>1. IsFiniteSet(R) /\ S = R \cup {x} /\ x \notin R /\ IntegersOn(f, R) /\ IntegersOn(g, R) /\ f[x] \in Int
    BY FS_RemoveElement DEF IntegersOn
  <1>2. \A y \in R : g[y] = f[y]
    OBVIOUS
  <1> HIDE DEF R
  <1>3. SumFunctionOnSet(f, R \cup {x}) = SumFunctionOnSet(f, R) + f[x]
    BY <1>1, SumWithOneMore
  <1>4. SumFunctionOnSet(g, R \cup {x}) = SumFunctionOnSet(g, R) + g[x]
    BY <1>1, SumWithOneMore
  <1>5. SumFunctionOnSet(g, R) = SumFunctionOnSet(f, R) /\ SumFunctionOnSet(f, R) \in Int
    BY <1>1, <1>2, SumsAgree, SumIsInteger
  <1> QED
    BY <1>1, <1>3, <1>4, <1>5

\* The sum of nothing but zeros.
LEMMA SumOfZeros ==
    ASSUME NEW S, IsFiniteSet(S), NEW f, \A x \in S : f[x] = 0
    PROVE  SumFunctionOnSet(f, S) = 0
  <1> DEFINE T == {A \in SUBSET S : SumFunctionOnSet(f, A) = 0}
  <1>1. {} \in T
    BY SumOfNone
  <1>2. ASSUME NEW A \in SUBSET S, NEW x \in S, A \in T, x \notin A
        PROVE  A \cup {x} \in T
    <2>1. IsFiniteSet(A) /\ IntegersOn(f, A) /\ f[x] = 0
      BY FS_Subset DEF IntegersOn
    <2>2. SumFunctionOnSet(f, A \cup {x}) = SumFunctionOnSet(f, A) + f[x]
      BY <1>2, <2>1, SumWithOneMore
    <2> QED
      BY <1>2, <2>1, <2>2
  <1> HIDE DEF T
  <1>3. S \in T
    BY <1>1, <1>2, SubsetInduction
  <1> QED
    BY <1>3 DEF T

\* A sum without negative elements is not negative, and no element exceeds it.
LEMMA SumOfNaturals ==
    ASSUME NEW S, IsFiniteSet(S), NEW f, \A x \in S : f[x] \in Nat
    PROVE  SumFunctionOnSet(f, S) \in Nat /\ \A x \in S : f[x] <= SumFunctionOnSet(f, S)
  <1> DEFINE T == {A \in SUBSET S : SumFunctionOnSet(f, A) \in Nat}
  <1>1. {} \in T
    BY SumOfNone
  <1>2. ASSUME NEW A \in SUBSET S, NEW x \in S, A \in T, x \notin A
        PROVE  A \cup {x} \in T
    <2>1. IsFiniteSet(A) /\ IntegersOn(f, A) /\ f[x] \in Int /\ f[x] \in Nat
      BY FS_Subset DEF IntegersOn
    <2>2. SumFunctionOnSet(f, A \cup {x}) = SumFunctionOnSet(f, A) + f[x]
      BY <1>2, <2>1, SumWithOneMore
    <2> QED
      BY <1>2, <2>1, <2>2
  <1> HIDE DEF T
  <1>3. SUBSET S \subseteq T
    BY <1>1, <1>2, SubsetInduction
  <1>4. ASSUME NEW x \in S
        PROVE  f[x] <= SumFunctionOnSet(f, S)
    <2> DEFINE R == S \ {x}
    <2>1. IsFiniteSet(R) /\ S = R \cup {x} /\ x \notin R /\ R \in SUBSET S
      BY FS_RemoveElement
    <2>2. IntegersOn(f, R) /\ f[x] \in Int
      BY DEF IntegersOn
    <2> HIDE DEF R
    <2>3. SumFunctionOnSet(f, R \cup {x}) = SumFunctionOnSet(f, R) + f[x]
      BY <2>1, <2>2, SumWithOneMore
    <2>4. SumFunctionOnSet(f, R) \in Nat
      BY <1>3, <2>1 DEF T
    <2> QED
      BY <2>1, <2>2, <2>3, <2>4
  <1> QED
    BY <1>3, <1>4 DEF T

\* The elements of a finite set in some order, none of them twice.
LEMMA SetToSeqIs ==
    ASSUME NEW S, IsFiniteSet(S)
    PROVE  /\ SetToSeq(S) \in Seq(S) /\ Len(SetToSeq(S)) = Cardinality(S)
           /\ \A x \in S : \E n \in 1..Len(SetToSeq(S)) : SetToSeq(S)[n] = x
           /\ \A m, n \in 1..Len(SetToSeq(S)) : SetToSeq(S)[m] = SetToSeq(S)[n] => m = n
  <1> DEFINE N == Cardinality(S)
             seq == CHOOSE f \in [1..N -> S] : IsInjective(f)
  <1>1. N \in Nat /\ ExistsBijection(1..N, S) /\ IsFiniteSet(1..N) /\ Cardinality(1..N) = N
    <2>1. N \in Nat /\ ExistsBijection(1..N, S)
      BY FS_CardinalityType
    <2>2. 1 \in Int /\ N \in Int
      BY <2>1
    <2>3. IsFiniteSet(1..N) /\ Cardinality(1..N) = IF 1 > N THEN 0 ELSE N - 1 + 1
      BY <2>2, FS_Interval
    <2>4. Cardinality(1..N) = N
      BY <2>1, <2>3
    <2> QED
      BY <2>1, <2>3, <2>4
  <1>2. PICK f : f \in Bijection(1..N, S)
    BY <1>1 DEF ExistsBijection
  <1>3. f \in [1..N -> S] /\ IsInjective(f)
    BY <1>2 DEF Bijection, Injection, IsInjective
  <1>4. seq \in [1..N -> S] /\ IsInjective(seq)
    BY <1>3
  <1>5. SetToSeq(S) = seq
    BY DEF SetToSeq
  <1> HIDE DEF seq
  <1>6. seq \in Injection(1..N, S)
    BY <1>4 DEF Injection
  <1>7. seq \in Surjection(1..N, S)
    BY <1>1, <1>6, FS_Injection
  <1>8. seq \in Seq(S) /\ Len(seq) = N
    BY <1>1, <1>4
  <1>9. \A x \in S : \E n \in 1..N : seq[n] = x
    BY <1>7 DEF Surjection
  <1>10. \A m, n \in 1..N : seq[m] = seq[n] => m = n
    BY <1>4 DEF IsInjective
  <1> QED
    BY <1>5, <1>8, <1>9, <1>10

\* What is summed over a part of a set is summed over the set where the rest counts for nothing.
LEMMA SumOfSelected ==
    ASSUME NEW S, IsFiniteSet(S), NEW R \in SUBSET S, NEW f, NEW g, IntegersOn(f, R),
           \A x \in R : g[x] = f[x], \A x \in S \ R : g[x] = 0
    PROVE  SumFunctionOnSet(g, S) = SumFunctionOnSet(f, R)
  <1>1. IsFiniteSet(R) /\ IsFiniteSet(S \ R) /\ R \cap (S \ R) = {} /\ R \cup (S \ R) = S
    BY FS_Subset
  <1>2. IntegersOn(g, R) /\ IntegersOn(g, S \ R)
    BY DEF IntegersOn
  <1>3. SumFunctionOnSet(g, R \cup (S \ R)) = SumFunctionOnSet(g, R) + SumFunctionOnSet(g, S \ R)
    BY <1>1, <1>2, SumOfUnion
  <1>4. SumFunctionOnSet(g, S \ R) = 0
    BY <1>1, SumOfZeros
  <1>5. SumFunctionOnSet(g, R) = SumFunctionOnSet(f, R) /\ SumFunctionOnSet(f, R) \in Int
    BY <1>1, SumsAgree, SumIsInteger
  <1>6. SumFunctionOnSet(g, R \cup (S \ R)) = SumFunctionOnSet(g, S)
    BY <1>1
  <1> QED
    BY <1>3, <1>4, <1>5, <1>6

\* Where one function is nowhere greater than another, neither is its sum.
LEMMA SumsCompare ==
    ASSUME NEW S, IsFiniteSet(S), NEW f, NEW g, IntegersOn(f, S), IntegersOn(g, S), \A x \in S : f[x] <= g[x]
    PROVE  SumFunctionOnSet(f, S) <= SumFunctionOnSet(g, S)
  <1> DEFINE T == {A \in SUBSET S : SumFunctionOnSet(f, A) <= SumFunctionOnSet(g, A)}
  <1>1. {} \in T
    BY SumOfNone
  <1>2. ASSUME NEW A \in SUBSET S, NEW x \in S, A \in T, x \notin A
        PROVE  A \cup {x} \in T
    <2>1. IsFiniteSet(A) /\ IntegersOn(f, A) /\ IntegersOn(g, A) /\ f[x] \in Int /\ g[x] \in Int /\ f[x] <= g[x]
      BY FS_Subset DEF IntegersOn
    <2>2. SumFunctionOnSet(f, A \cup {x}) = SumFunctionOnSet(f, A) + f[x]
      BY <1>2, <2>1, SumWithOneMore
    <2>3. SumFunctionOnSet(g, A \cup {x}) = SumFunctionOnSet(g, A) + g[x]
      BY <1>2, <2>1, SumWithOneMore
    <2>4. SumFunctionOnSet(f, A) \in Int /\ SumFunctionOnSet(g, A) \in Int
      BY <2>1, SumIsInteger
    <2>5. SumFunctionOnSet(f, A) <= SumFunctionOnSet(g, A)
      BY <1>2
    <2>6. SumFunctionOnSet(f, A \cup {x}) <= SumFunctionOnSet(g, A \cup {x})
      BY <2>1, <2>2, <2>3, <2>4, <2>5
    <2> QED
      BY <2>6
  <1> HIDE DEF T
  <1>3. S \in T
    BY <1>1, <1>2, SubsetInduction
  <1> QED
    BY <1>3 DEF T

\* A sum over sets that share nothing, one for each element of an index set, is the sum of their sums.
LEMMA SumOfFamily ==
    ASSUME NEW I, IsFiniteSet(I), NEW F, NEW f, NEW g,
           \A i \in I : /\ IsFiniteSet(F[i]) /\ IntegersOn(f, F[i])
                        /\ g[i] = SumFunctionOnSet(f, F[i]),
           \A i, j \in I : F[i] \cap F[j] # {} => i = j
    PROVE  SumFunctionOnSet(f, UNION {F[i] : i \in I}) = SumFunctionOnSet(g, I)
  <1> DEFINE All(A) == UNION {F[i] : i \in A}
             T == {A \in SUBSET I : /\ IsFiniteSet(All(A)) /\ IntegersOn(f, All(A))
                                    /\ SumFunctionOnSet(f, All(A)) = SumFunctionOnSet(g, A)}
  <1>1. {} \in T
    <2>1. All({}) = {} /\ IsFiniteSet({})
      BY FS_EmptySet
    <2>2. SumFunctionOnSet(f, All({})) = SumFunctionOnSet(g, {}) /\ IntegersOn(f, All({}))
      BY <2>1, SumOfNone DEF IntegersOn
    <2> QED
      BY <2>1, <2>2
  <1>2. ASSUME NEW A \in SUBSET I, NEW x \in I, A \in T, x \notin A
        PROVE  A \cup {x} \in T
    <2>1. All(A \cup {x}) = All(A) \cup F[x] /\ All(A) \cap F[x] = {}
      BY <1>2
    <2>2. IsFiniteSet(All(A)) /\ IntegersOn(f, All(A)) /\ SumFunctionOnSet(f, All(A)) = SumFunctionOnSet(g, A)
      BY <1>2
    <2> HIDE DEF All
    <2>3. IsFiniteSet(F[x]) /\ IntegersOn(f, F[x]) /\ g[x] = SumFunctionOnSet(f, F[x])
      OBVIOUS
    <2>4. SumFunctionOnSet(f, All(A) \cup F[x]) = SumFunctionOnSet(f, All(A)) + SumFunctionOnSet(f, F[x])
      BY <2>1, <2>2, <2>3, SumOfUnion
    <2>5. IsFiniteSet(A) /\ IntegersOn(g, A) /\ g[x] \in Int
      BY FS_Subset, SumIsInteger DEF IntegersOn
    <2>6. SumFunctionOnSet(g, A \cup {x}) = SumFunctionOnSet(g, A) + g[x]
      BY <1>2, <2>5, SumWithOneMore
    <2>7. IsFiniteSet(All(A \cup {x}))
      <3>1. IsFiniteSet(All(A) \cup F[x])
        BY <2>2, <2>3, FS_Union
      <3> QED
        BY <2>1, <3>1
    <2>8. IntegersOn(f, All(A \cup {x}))
      BY <2>1, <2>2, <2>3 DEF IntegersOn
    <2> QED
      BY <2>1, <2>2, <2>3, <2>4, <2>6, <2>7, <2>8
  <1> HIDE DEF T
  <1>3. I \in T
    BY <1>1, <1>2, SubsetInduction
  <1> QED
    BY <1>3 DEF T

\* The sum of the opposites is the opposite of the sum.
LEMMA SumOfOpposites ==
    ASSUME NEW S, IsFiniteSet(S), NEW f, NEW g, IntegersOn(f, S), \A x \in S : g[x] = -f[x]
    PROVE  SumFunctionOnSet(g, S) = -SumFunctionOnSet(f, S)
  <1> DEFINE T == {A \in SUBSET S : SumFunctionOnSet(g, A) = -SumFunctionOnSet(f, A)}
  <1>1. {} \in T
    BY SumOfNone
  <1>2. ASSUME NEW A \in SUBSET S, NEW x \in S, A \in T, x \notin A
        PROVE  A \cup {x} \in T
    <2>1. /\ IsFiniteSet(A) /\ IntegersOn(f, A) /\ IntegersOn(g, A)
          /\ f[x] \in Int /\ g[x] \in Int /\ g[x] = -f[x]
      BY FS_Subset DEF IntegersOn
    <2>2. SumFunctionOnSet(f, A \cup {x}) = SumFunctionOnSet(f, A) + f[x]
      BY <1>2, <2>1, SumWithOneMore
    <2>3. SumFunctionOnSet(g, A \cup {x}) = SumFunctionOnSet(g, A) + g[x]
      BY <1>2, <2>1, SumWithOneMore
    <2>4. SumFunctionOnSet(f, A) \in Int /\ SumFunctionOnSet(g, A) \in Int
      BY <2>1, SumIsInteger
    <2>5. SumFunctionOnSet(g, A) = -SumFunctionOnSet(f, A)
      BY <1>2
    <2>6. SumFunctionOnSet(g, A \cup {x}) = -SumFunctionOnSet(f, A \cup {x})
      BY <2>1, <2>2, <2>3, <2>4, <2>5
    <2> QED
      BY <2>6
  <1> HIDE DEF T
  <1>3. S \in T
    BY <1>1, <1>2, SubsetInduction
  <1> QED
    BY <1>3 DEF T

\* An element that may be there or not, and what it adds.
Optionally(x, c) == {y \in {x} : c}
Adds(c, n) == IF c THEN n ELSE 0

\* An element that may be there or not adds its own or nothing.
LEMMA SumWithOption ==
    ASSUME NEW S, IsFiniteSet(S), NEW x, x \notin S, NEW f, IntegersOn(f, S), NEW c \in BOOLEAN, c => f[x] \in Int
    PROVE  /\ IsFiniteSet(S \cup Optionally(x, c)) /\ IntegersOn(f, S \cup Optionally(x, c))
           /\ SumFunctionOnSet(f, S \cup Optionally(x, c)) = SumFunctionOnSet(f, S) + Adds(c, f[x])
  <1>1. CASE c
    <2>1. S \cup Optionally(x, c) = S \cup {x} /\ Adds(c, f[x]) = f[x]
      BY <1>1 DEF Optionally, Adds
    <2>2. IsFiniteSet(S \cup {x}) /\ IntegersOn(f, S \cup {x})
      BY <1>1, FS_AddElement DEF IntegersOn
    <2>3. SumFunctionOnSet(f, S \cup {x}) = SumFunctionOnSet(f, S) + f[x]
      BY <1>1, SumWithOneMore
    <2> QED
      BY <1>1, <2>1, <2>2, <2>3
  <1>2. CASE ~c
    <2>1. S \cup Optionally(x, c) = S /\ Adds(c, f[x]) = 0
      BY <1>2 DEF Optionally, Adds
    <2>2. SumFunctionOnSet(f, S) \in Int
      BY SumIsInteger
    <2>3. SumFunctionOnSet(f, S) + 0 = SumFunctionOnSet(f, S)
      BY <2>2
    <2> QED
      BY <2>1, <2>3
  <1> QED
    BY <1>1, <1>2

\* An element that joins the set or not, and a function that agrees on what was there.
LEMMA SumMayGrow ==
    ASSUME NEW S, IsFiniteSet(S), NEW x, x \notin S, NEW c \in BOOLEAN, NEW R, R = (IF c THEN S \cup {x} ELSE S),
           NEW f, IntegersOn(f, S), NEW g, \A y \in S : g[y] = f[y], c => g[x] \in Int
    PROVE  /\ IsFiniteSet(R) /\ SumFunctionOnSet(f, S) \in Int
           /\ SumFunctionOnSet(g, R) = SumFunctionOnSet(f, S) + Adds(c, g[x])
  <1>1. IntegersOn(g, S)
    BY DEF IntegersOn
  <1>2. SumFunctionOnSet(g, S) = SumFunctionOnSet(f, S) /\ SumFunctionOnSet(f, S) \in Int
    BY SumsAgree, SumIsInteger
  <1>3. CASE c
    <2>1. R = S \cup {x} /\ Adds(c, g[x]) = g[x] /\ g[x] \in Int
      BY <1>3 DEF Adds
    <2>2. SumFunctionOnSet(g, S \cup {x}) = SumFunctionOnSet(g, S) + g[x] /\ IsFiniteSet(S \cup {x})
      BY <1>1, <2>1, SumWithOneMore, FS_AddElement
    <2> QED
      BY <1>2, <2>1, <2>2
  <1>4. CASE ~c
    <2>1. R = S /\ Adds(c, g[x]) = 0
      BY <1>4 DEF Adds
    <2> QED
      BY <1>2, <2>1
  <1> QED
    BY <1>3, <1>4
=============================================================================
