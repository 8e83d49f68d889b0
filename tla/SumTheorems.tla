---------------------------- MODULE SumTheorems ----------------------------
(***************************************************************************)
(* Sums of integers over finite sets, as FoldFunctionOnSet computes them   *)
(* (Functions, Folds), numbers and places in their order (Ranked), and the *)
(* inductions their facts rest on.                                         *)
(***************************************************************************)
EXTENDS Integers, FiniteSets, Sequences, Functions, Ranked, SequenceTheorems,
        FiniteSetTheorems, WellFoundedInduction, TLAPS

-----------------------------------------------------------------------------
(* Induction.                                                              *)

\* A nonempty set of numbers has a least one.
LEMMA LeastNat ==
    ASSUME NEW T \in SUBSET Nat, T # {}
    PROVE  \E n \in T : \A m \in T : n <= m
<1> DEFINE R == { p \in Nat \X Nat : p[1] < p[2] }
<1>1. OpToRel(<, Nat) = R
  BY DEF OpToRel
<1>2. IsWellFoundedOn(R, Nat)
  BY <1>1, NatLessThanWellFounded
<1>3. \A m, n \in Nat : m < n => <<m, n>> \in R
  OBVIOUS
<1> HIDE DEF R
<1>4. PICK n \in T : \A m \in T : ~(<<m, n>> \in R)
  BY <1>2, WFMin
<1>5. ASSUME NEW m \in T PROVE n <= m
  <2>1. m \in Nat /\ n \in Nat /\ ~(m < n)
    BY <1>3, <1>4
  <2> QED
    BY <2>1
<1> QED
  BY <1>5

\* What holds of 0, and of a number whenever it holds of the one before, holds of all.
LEMMA NatsAll ==
    ASSUME NEW B \in SUBSET Nat, 0 \in B, \A n \in Nat \ {0} : n - 1 \in B => n \in B
    PROVE  B = Nat
<1>1. ASSUME Nat \ B # {} PROVE FALSE
  <2>1. PICK n \in Nat \ B : \A m \in Nat \ B : n <= m
    BY <1>1, LeastNat
  <2>2. n \in Nat \ {0} /\ n - 1 \in Nat /\ ~(n <= n - 1)
    BY <2>1
  <2>3. n - 1 \in B
    BY <2>1, <2>2
  <2> QED
    BY <2>1, <2>2, <2>3
<1> QED
  BY <1>1

\* What holds of a finite set whenever it holds of those with fewer elements holds of all.
LEMMA SmallerSetsFirst ==
    ASSUME NEW S, IsFiniteSet(S), NEW B \in SUBSET SUBSET S,
           \A s \in SUBSET S :
               (\A t \in SUBSET S : Cardinality(t) < Cardinality(s) => t \in B) => s \in B
    PROVE  B = SUBSET S
<1>1. ASSUME NEW s0 \in SUBSET S, s0 \notin B PROVE FALSE
  <2> DEFINE T == { Cardinality(s) : s \in { t \in SUBSET S : t \notin B } }
  <2>1. \A s \in SUBSET S : Cardinality(s) \in Nat
    BY FS_Subset, FS_CardinalityType
  <2>2. T \in SUBSET Nat /\ T # {}
    BY <1>1, <2>1
  <2>3. PICK n \in T : \A m \in T : n <= m
    BY <2>2, LeastNat
  <2>4. PICK s \in SUBSET S : s \notin B /\ Cardinality(s) = n
    BY <2>3
  <2>5. ASSUME NEW t \in SUBSET S, Cardinality(t) < Cardinality(s), t \notin B PROVE FALSE
    <3>1. Cardinality(t) \in T
      BY <2>5
    <3>2. Cardinality(t) \in Nat /\ n \in Nat /\ n <= Cardinality(t)
      BY <2>1, <2>2, <2>3, <3>1
    <3> QED
      BY <2>4, <2>5, <3>2
  <2> QED
    BY <2>4, <2>5
<1> QED
  BY <1>1

\* A finite set but for one of its elements has one element less.
LEMMA OneLess ==
    ASSUME NEW S, IsFiniteSet(S), NEW s \in SUBSET S, NEW x \in s
    PROVE  /\ s \ {x} \in SUBSET S
           /\ Cardinality(s) \in Nat /\ Cardinality(s \ {x}) \in Nat
           /\ Cardinality(s \ {x}) = Cardinality(s) - 1
<1>1. IsFiniteSet(s)
  BY FS_Subset
<1>2. Cardinality(s) \in Nat /\ Cardinality(s \ {x}) = Cardinality(s) - 1 /\ IsFiniteSet(s \ {x})
  BY <1>1, FS_CardinalityType, FS_RemoveElement
<1> QED
  BY <1>2, FS_CardinalityType

-----------------------------------------------------------------------------
(* Sums.                                                                   *)

\* b and what f is on S, added up in the order Folds takes the elements.
SumFrom(b, f, S) == FoldFunctionOnSet(+, b, f, S)
SumOn(f, S)      == SumFrom(0, f, S)

First(s) == CHOOSE x \in s : TRUE

\* What g computes for every subset of S, step by step.
Adds(b, f, S, g) ==
    g = [s \in SUBSET S |-> IF s = {} THEN b ELSE f[First(s)] + g[s \ {First(s)}]]

Adder(b, f, S) == CHOOSE g : Adds(b, f, S, g)

LEMMA SumIsAdded == ASSUME NEW b, NEW f, NEW S PROVE SumFrom(b, f, S) = Adder(b, f, S)[S]
BY DEF SumFrom, Adder, Adds, First, FoldFunctionOnSet, MapThenFoldSet

\* The recursion of MapThenFoldSet defines a function on the subsets of a finite set.
LEMMA AdderAdds ==
    ASSUME NEW b, NEW f, NEW S, IsFiniteSet(S)
    PROVE  Adds(b, f, S, Adder(b, f, S))
<1> DEFINE Upto(n) == { s \in SUBSET S : Cardinality(s) <= n }
           Next(s, g) == IF s = {} THEN b ELSE f[First(s)] + g[s \ {First(s)}]
           B == { n \in Nat : \E g : g = [s \in Upto(n) |-> Next(s, g)] }
<1>1. \A s \in SUBSET S : Cardinality(s) \in Nat /\ (Cardinality(s) = 0 <=> s = {})
  BY FS_Subset, FS_CardinalityType, FS_EmptySet
<1>2. \A s \in SUBSET S : s # {} => /\ s \ {First(s)} \in SUBSET S
                                   /\ Cardinality(s \ {First(s)}) = Cardinality(s) - 1
  BY OneLess DEF First
<1>3. 0 \in B
  <2> DEFINE g == [s \in Upto(0) |-> b]
  <2>1. \A s \in Upto(0) : s = {}
    BY <1>1
  <2>2. g = [s \in Upto(0) |-> Next(s, g)]
    BY <2>1
  <2> HIDE DEF g, Upto, Next
  <2> QED
    BY <2>2
<1>4. ASSUME NEW n \in Nat \ {0}, n - 1 \in B PROVE n \in B
  <2>1. PICK g : g = [s \in Upto(n - 1) |-> Next(s, g)]
    BY <1>4
  <2> DEFINE h == [s \in Upto(n) |-> Next(s, g)]
  <2>2. ASSUME NEW s \in Upto(n), s # {} PROVE s \ {First(s)} \in Upto(n - 1) /\ s \ {First(s)} \in Upto(n)
    BY <1>1, <1>2, <2>2
  <2>3. ASSUME NEW s \in Upto(n - 1) PROVE s \in Upto(n) /\ h[s] = g[s]
    <3>1. s \in Upto(n)
      BY <1>1, <2>3
    <3>2. g[s] = Next(s, g)
      BY <2>1, <2>3
    <3> QED
      BY <3>1, <3>2
  <2>4. ASSUME NEW s \in Upto(n) PROVE Next(s, g) = Next(s, h)
    <3>1. CASE s = {}
      BY <3>1
    <3>2. CASE s # {}
      <4>1. h[s \ {First(s)}] = g[s \ {First(s)}]
        BY <2>2, <2>3, <3>2
      <4> QED
        BY <4>1
    <3> QED
      BY <3>1, <3>2
  <2> HIDE DEF Upto, Next
  <2>5. h = [s \in Upto(n) |-> Next(s, h)]
    BY <2>4
  <2> HIDE DEF h
  <2> QED
    BY <2>5
<1> HIDE DEF B
<1>5. B \in SUBSET Nat
  BY DEF B
<1>6. B = Nat
  BY <1>3, <1>4, <1>5, NatsAll
<1>7. Cardinality(S) \in Nat /\ Upto(Cardinality(S)) = SUBSET S
  BY FS_CardinalityType, FS_Subset
<1>8. \E g : g = [s \in Upto(Cardinality(S)) |-> Next(s, g)]
  BY <1>6, <1>7 DEF B
<1>9. \E g : Adds(b, f, S, g)
  BY <1>7, <1>8 DEF Adds
<1> QED
  BY <1>9 DEF Adder

\* The steps of the recursion, spelled out.
LEMMA AdderSteps ==
    ASSUME NEW b, NEW f, NEW S, IsFiniteSet(S)
    PROVE  /\ Adder(b, f, S)[{}] = b
           /\ \A s \in SUBSET S :
                  s # {} => /\ First(s) \in s
                            /\ Adder(b, f, S)[s] = f[First(s)] + Adder(b, f, S)[s \ {First(s)}]
<1> DEFINE g == Adder(b, f, S)
<1>0. Adds(b, f, S, g)
  BY AdderAdds
<1> HIDE DEF g
<1>1. g = [s \in SUBSET S |-> IF s = {} THEN b ELSE f[First(s)] + g[s \ {First(s)}]]
  BY <1>0 DEF Adds
<1>2. \A s \in SUBSET S : s # {} => First(s) \in s
  BY DEF First
<1>3. \A s \in SUBSET S : g[s] = IF s = {} THEN b ELSE f[First(s)] + g[s \ {First(s)}]
  BY <1>1
<1>4. {} \in SUBSET S
  OBVIOUS
<1> QED
  BY <1>2, <1>3, <1>4 DEF g

\* What holds of the empty set, and of a set once it holds of that but for its first
\* element, holds of all the subsets of a finite set.
LEMMA SetsByFirst ==
    ASSUME NEW S, IsFiniteSet(S), NEW B \in SUBSET SUBSET S, {} \in B,
           \A s \in SUBSET S : s # {} /\ s \ {First(s)} \in B => s \in B
    PROVE  B = SUBSET S
<1>1. ASSUME NEW s \in SUBSET S, \A t \in SUBSET S : Cardinality(t) < Cardinality(s) => t \in B
      PROVE  s \in B
  <2>1. CASE s = {}
    BY <2>1
  <2>2. CASE s # {}
    <3>1. First(s) \in s
      BY <2>2 DEF First
    <3>2. /\ s \ {First(s)} \in SUBSET S /\ Cardinality(s) \in Nat
          /\ Cardinality(s \ {First(s)}) = Cardinality(s) - 1
      BY <3>1, OneLess
    <3>3. s \ {First(s)} \in B
      BY <1>1, <3>2
    <3> QED
      BY <2>2, <3>3
  <2> QED
    BY <2>1, <2>2
<1> QED
  BY <1>1, SmallerSetsFirst

\* A sum of integers is one.
LEMMA AdderInt ==
    ASSUME NEW b \in Int, NEW f, NEW S, IsFiniteSet(S), \A x \in S : f[x] \in Int
    PROVE  \A s \in SUBSET S : Adder(b, f, S)[s] \in Int
<1> DEFINE B == { s \in SUBSET S : Adder(b, f, S)[s] \in Int }
<1>1. {} \in B
  BY AdderSteps
<1>2. ASSUME NEW s \in SUBSET S, s # {}, s \ {First(s)} \in B PROVE s \in B
  <2>1. First(s) \in S /\ Adder(b, f, S)[s] = f[First(s)] + Adder(b, f, S)[s \ {First(s)}]
    BY <1>2, AdderSteps
  <2>2. f[First(s)] \in Int /\ Adder(b, f, S)[s \ {First(s)}] \in Int
    BY <1>2, <2>1
  <2> QED
    BY <2>1, <2>2
<1>3. B \in SUBSET SUBSET S
  OBVIOUS
<1> HIDE DEF B
<1>4. B = SUBSET S
  BY <1>1, <1>2, <1>3, SetsByFirst
<1> QED
  BY <1>4 DEF B

\* Sums of the same values are the same, and so are those of a part on its own.
LEMMA AdderSame ==
    ASSUME NEW b, NEW f, NEW g, NEW S, NEW T \in SUBSET S, IsFiniteSet(S), \A x \in T : f[x] = g[x]
    PROVE  \A s \in SUBSET T : Adder(b, f, S)[s] = Adder(b, g, T)[s]
<1> DEFINE B == { s \in SUBSET T : Adder(b, f, S)[s] = Adder(b, g, T)[s] }
<1>0. IsFiniteSet(T)
  BY FS_Subset
<1>1. {} \in B
  BY <1>0, AdderSteps
<1>2. ASSUME NEW s \in SUBSET T, s # {}, s \ {First(s)} \in B PROVE s \in B
  <2>1. First(s) \in T /\ Adder(b, g, T)[s] = g[First(s)] + Adder(b, g, T)[s \ {First(s)}]
    BY <1>0, <1>2, AdderSteps
  <2>2. Adder(b, f, S)[s] = f[First(s)] + Adder(b, f, S)[s \ {First(s)}]
    <3>1. s \in SUBSET S
      OBVIOUS
    <3> QED
      BY <1>2, <3>1, AdderSteps
  <2>3. f[First(s)] = g[First(s)]
    BY <2>1
  <2>4. Adder(b, f, S)[s \ {First(s)}] = Adder(b, g, T)[s \ {First(s)}]
    BY <1>2
  <2> QED
    BY <2>1, <2>2, <2>3, <2>4
<1>3. B \in SUBSET SUBSET T
  OBVIOUS
<1> HIDE DEF B
<1>4. B = SUBSET T
  BY <1>0, <1>1, <1>2, <1>3, SetsByFirst
<1> QED
  BY <1>4 DEF B

\* Whichever element is taken off a set, the rest adds up to what is left.
LEMMA AdderTakes ==
    ASSUME NEW b \in Int, NEW f, NEW S, IsFiniteSet(S), \A x \in S : f[x] \in Int
    PROVE  \A s \in SUBSET S : \A x \in s : Adder(b, f, S)[s] = f[x] + Adder(b, f, S)[s \ {x}]
<1>0. \A s \in SUBSET S :
          s # {} => /\ First(s) \in s
                    /\ Adder(b, f, S)[s] = f[First(s)] + Adder(b, f, S)[s \ {First(s)}]
  BY ONLY AdderSteps, IsFiniteSet(S)
<1> DEFINE g == Adder(b, f, S)
           B == { s \in SUBSET S : \A x \in s : g[s] = f[x] + g[s \ {x}] }
<1>1. \A s \in SUBSET S : g[s] \in Int
  BY AdderInt
<1>2. ASSUME NEW s \in SUBSET S, s # {} PROVE First(s) \in s /\ g[s] = f[First(s)] + g[s \ {First(s)}]
  BY <1>0, <1>2
<1> HIDE DEF g
<1>3. ASSUME NEW s \in SUBSET S, \A t \in SUBSET S : Cardinality(t) < Cardinality(s) => t \in B,
             NEW x \in s
      PROVE  g[s] = f[x] + g[s \ {x}]
  <2> DEFINE c == First(s)
  <2>1. c \in s /\ g[s] = f[c] + g[s \ {c}]
    BY <1>2
  <2> HIDE DEF c
  <2>2. CASE x = c
    BY <2>1, <2>2
  <2>3. CASE x # c
    <3>1. /\ s \ {c} \in SUBSET S /\ s \ {x} \in SUBSET S
          /\ Cardinality(s \ {c}) < Cardinality(s) /\ Cardinality(s \ {x}) < Cardinality(s)
      BY <2>1, OneLess
    <3>2. g[s \ {c}] = f[x] + g[(s \ {c}) \ {x}]
      BY <1>3, <2>3, <3>1
    <3>3. g[s \ {x}] = f[c] + g[(s \ {x}) \ {c}]
      BY <1>3, <2>1, <2>3, <3>1
    <3>4. (s \ {c}) \ {x} = (s \ {x}) \ {c} /\ (s \ {c}) \ {x} \in SUBSET S
      OBVIOUS
    <3>5. PICK r \in SUBSET S : r = (s \ {c}) \ {x} /\ r = (s \ {x}) \ {c}
      BY <3>4
    <3>6. g[s \ {c}] = f[x] + g[r] /\ g[s \ {x}] = f[c] + g[r]
      BY <3>2, <3>3, <3>5
    <3>7. g[r] \in Int /\ f[x] \in Int /\ f[c] \in Int
      BY <1>1, <2>1
    <3> QED
      BY <2>1, <3>6, <3>7
  <2> QED
    BY <2>2, <2>3
<1>4. B \in SUBSET SUBSET S
  OBVIOUS
<1>5. \A s \in SUBSET S : (\A t \in SUBSET S : Cardinality(t) < Cardinality(s) => t \in B) => s \in B
  BY <1>3
<1> HIDE DEF B
<1>6. B = SUBSET S
  BY <1>4, <1>5, SmallerSetsFirst
<1> QED
  BY <1>6 DEF B, g

\* Nothing adds nothing.
LEMMA SumEmpty == ASSUME NEW b, NEW f PROVE SumFrom(b, f, {}) = b
<1>1. IsFiniteSet({})
  BY FS_EmptySet
<1>2. Adder(b, f, {})[{}] = b
  BY <1>1, AdderSteps
<1> QED
  BY <1>2, SumIsAdded

LEMMA SumInt ==
    ASSUME NEW b \in Int, NEW f, NEW S, IsFiniteSet(S), \A x \in S : f[x] \in Int
    PROVE  SumFrom(b, f, S) \in Int
<1>1. Adder(b, f, S)[S] \in Int
  BY AdderInt
<1> QED
  BY <1>1, SumIsAdded

\* A sum depends on the values on its set only.
LEMMA SumSame ==
    ASSUME NEW b, NEW f, NEW g, NEW S, IsFiniteSet(S), \A x \in S : f[x] = g[x]
    PROVE  SumFrom(b, f, S) = SumFrom(b, g, S)
<1>1. Adder(b, f, S)[S] = Adder(b, g, S)[S]
  BY AdderSame
<1> QED
  BY <1>1, SumIsAdded

\* Any element may be taken first.
LEMMA SumTake ==
    ASSUME NEW b \in Int, NEW f, NEW S, IsFiniteSet(S), \A x \in S : f[x] \in Int, NEW x \in S
    PROVE  SumFrom(b, f, S) = f[x] + SumFrom(b, f, S \ {x})
<1> DEFINE T == S \ {x}
<1>1. Adder(b, f, S)[S] = f[x] + Adder(b, f, S)[T]
  BY AdderTakes
<1>2. T \in SUBSET S /\ T \in SUBSET T
  OBVIOUS
<1>3. Adder(b, f, S)[T] = Adder(b, f, T)[T]
  BY <1>2, AdderSame
<1>4. SumFrom(b, f, S) = Adder(b, f, S)[S] /\ SumFrom(b, f, T) = Adder(b, f, T)[T]
  BY SumIsAdded
<1> HIDE DEF T
<1>5. SumFrom(b, f, S) = f[x] + SumFrom(b, f, T)
  BY <1>1, <1>3, <1>4
<1> QED
  BY <1>5 DEF T

\* The sums of two functions that differ at one element differ by what they differ there.
LEMMA SumAt ==
    ASSUME NEW b \in Int, NEW f, NEW g, NEW S, IsFiniteSet(S), NEW x \in S,
           \A y \in S : f[y] \in Int, g[x] \in Int,
           \A y \in S \ {x} : g[y] = f[y]
    PROVE  SumFrom(b, g, S) = SumFrom(b, f, S) + (g[x] - f[x])
<1> DEFINE T == S \ {x}
<1>1. IsFiniteSet(T)
  BY FS_Subset
<1>2. SumFrom(b, f, T) = SumFrom(b, g, T)
  BY <1>1, SumSame
<1>3. \A y \in S : g[y] \in Int
  OBVIOUS
<1>4. SumFrom(b, f, S) = f[x] + SumFrom(b, f, T)
  BY SumTake
<1>5. SumFrom(b, g, S) = g[x] + SumFrom(b, g, T)
  BY <1>3, SumTake
<1>6. SumFrom(b, f, T) \in Int
  BY <1>1, SumInt
<1> HIDE DEF T
<1>7. f[x] \in Int /\ g[x] \in Int
  BY <1>3
<1> QED
  BY <1>2, <1>4, <1>5, <1>6, <1>7

\* Facts about the sums over all the subsets of a set, one element at a time.
LEMMA SetsByOne ==
    ASSUME NEW S, IsFiniteSet(S), NEW B \in SUBSET SUBSET S, {} \in B,
           \A s \in SUBSET S : \A x \in s : s \ {x} \in B => s \in B
    PROVE  S \in B
<1>1. ASSUME NEW s \in SUBSET S, s # {}, s \ {First(s)} \in B PROVE s \in B
  BY <1>1 DEF First
<1>2. B = SUBSET S
  BY <1>1, SetsByFirst
<1> QED
  BY <1>2

\* What a sum starts from is added once.
LEMMA SumBase ==
    ASSUME NEW b \in Int, NEW f, NEW S, IsFiniteSet(S), \A x \in S : f[x] \in Int
    PROVE  SumFrom(b, f, S) = b + SumOn(f, S)
<1> DEFINE B == { s \in SUBSET S : SumFrom(b, f, s) = b + SumFrom(0, f, s) }
<1>1. {} \in B
  BY SumEmpty
<1>2. ASSUME NEW s \in SUBSET S, NEW x \in s, s \ {x} \in B PROVE s \in B
  <2> DEFINE t == s \ {x}
  <2>1. IsFiniteSet(s) /\ IsFiniteSet(t)
    BY FS_Subset
  <2>2. SumFrom(b, f, s) = f[x] + SumFrom(b, f, t)
    BY <2>1, SumTake
  <2>3. SumFrom(0, f, s) = f[x] + SumFrom(0, f, t)
    BY <2>1, SumTake
  <2>4. SumFrom(0, f, t) \in Int
    BY <2>1, SumInt
  <2>5. SumFrom(b, f, t) = b + SumFrom(0, f, t)
    BY <1>2
  <2> HIDE DEF t
  <2>6. f[x] \in Int
    OBVIOUS
  <2>7. SumFrom(b, f, s) = b + SumFrom(0, f, s)
    BY <2>2, <2>3, <2>4, <2>5, <2>6
  <2> QED
    BY <2>7
<1>3. B \in SUBSET SUBSET S
  OBVIOUS
<1> HIDE DEF B
<1>4. S \in B
  BY <1>1, <1>2, <1>3, SetsByOne
<1> QED
  BY <1>4 DEF B, SumOn

\* Two equal sums stay equal when one share of each grows by one.
LEMMA SumsGrow ==
    ASSUME NEW W, NEW x \in W, NEW S \in SUBSET W, IsFiniteSet(S),
           NEW T, NEW y \in T, IsFiniteSet(T), NEW f, NEW g, NEW h, NEW k,
           \A s \in S : f[s] \in Int,
           \A s \in S : s # x => g[s] = f[s],
           x \in S => g[x] = f[x] + 1,
           \A t \in T : h[t] \in Int,
           x \notin S => \A t \in T : k[t] = h[t],
           x \in S => \A t \in T \ {y} : k[t] = h[t],
           x \in S => k[y] = h[y] + 1,
           SumOn(f, S) = SumOn(h, T)
    PROVE  SumOn(g, S) = SumOn(k, T)
<1>1. CASE x \in S
  <2>1. /\ 0 \in Int /\ g[x] \in Int /\ g[x] - f[x] = 1 /\ \A s \in S \ {x} : g[s] = f[s]
        /\ k[y] \in Int /\ k[y] - h[y] = 1 /\ \A t \in T \ {y} : k[t] = h[t]
    BY <1>1
  <2>2. SumFrom(0, g, S) = SumFrom(0, f, S) + (g[x] - f[x])
    BY <1>1, <2>1, SumAt
  <2>3. SumFrom(0, k, T) = SumFrom(0, h, T) + (k[y] - h[y])
    BY <1>1, <2>1, SumAt
  <2> QED  BY <2>1, <2>2, <2>3 DEF SumOn
<1>2. CASE x \notin S
  <2>1. (\A s \in S : f[s] = g[s]) /\ (\A t \in T : h[t] = k[t])
    BY <1>2
  <2>2. SumOn(f, S) = SumOn(g, S) /\ SumOn(h, T) = SumOn(k, T)
    BY <2>1, SumSame DEF SumOn
  <2> QED  BY <2>2
<1> QED  BY <1>1, <1>2

\* Sums add up.
LEMMA SumAdd ==
    ASSUME NEW S, IsFiniteSet(S), NEW f, NEW g, NEW h,
           \A x \in S : f[x] \in Int /\ g[x] \in Int /\ h[x] = f[x] + g[x]
    PROVE  SumOn(h, S) = SumOn(f, S) + SumOn(g, S)
<1> DEFINE B == { s \in SUBSET S : SumFrom(0, h, s) = SumFrom(0, f, s) + SumFrom(0, g, s) }
<1>1. {} \in B
  BY SumEmpty
<1>2. ASSUME NEW s \in SUBSET S, NEW x \in s, s \ {x} \in B PROVE s \in B
  <2> DEFINE t == s \ {x}
  <2>1. IsFiniteSet(s) /\ IsFiniteSet(t) /\ \A y \in s : f[y] \in Int /\ g[y] \in Int /\ h[y] \in Int
    BY FS_Subset
  <2>2. SumFrom(0, f, s) = f[x] + SumFrom(0, f, t)
    BY <2>1, SumTake
  <2>3. SumFrom(0, g, s) = g[x] + SumFrom(0, g, t)
    BY <2>1, SumTake
  <2>4. SumFrom(0, h, s) = h[x] + SumFrom(0, h, t)
    BY <2>1, SumTake
  <2>5. SumFrom(0, f, t) \in Int /\ SumFrom(0, g, t) \in Int
    BY <2>1, SumInt
  <2>6. SumFrom(0, h, t) = SumFrom(0, f, t) + SumFrom(0, g, t)
    BY <1>2
  <2> HIDE DEF t
  <2>7. f[x] \in Int /\ g[x] \in Int /\ h[x] = f[x] + g[x]
    OBVIOUS
  <2>8. SumFrom(0, h, s) = SumFrom(0, f, s) + SumFrom(0, g, s)
    BY <2>2, <2>3, <2>4, <2>5, <2>6, <2>7
  <2> QED
    BY <2>8
<1>3. B \in SUBSET SUBSET S
  OBVIOUS
<1> HIDE DEF B
<1>4. S \in B
  BY <1>1, <1>2, <1>3, SetsByOne
<1> QED
  BY <1>4 DEF B, SumOn

-----------------------------------------------------------------------------
(* Sums of sequences.                                                      *)

\* The last of the elements 1 to n is taken off.
LEMMA SumLast ==
    ASSUME NEW b \in Int, NEW f, NEW n \in Nat \ {0}, \A i \in 1..n : f[i] \in Int
    PROVE  SumFrom(b, f, 1..n) = f[n] + SumFrom(b, f, 1..(n - 1)) /\ SumFrom(b, f, 1..(n - 1)) \in Int
<1>1. IsFiniteSet(1..n) /\ IsFiniteSet(1..(n - 1))
  BY FS_Interval
<1>2. n \in 1..n /\ (1..n) \ {n} = 1..(n - 1)
  OBVIOUS
<1>3. SumFrom(b, f, 1..n) = f[n] + SumFrom(b, f, (1..n) \ {n})
  BY <1>1, <1>2, SumTake
<1>4. SumFrom(b, f, 1..(n - 1)) \in Int
  BY <1>1, SumInt
<1> QED
  BY <1>2, <1>3, <1>4

\* A sequence that grows adds its new element.
LEMMA SumAppend ==
    ASSUME NEW b \in Int, NEW d \in Seq(Int), NEW x \in Int
    PROVE  SumFrom(b, Append(d, x), DOMAIN Append(d, x)) = SumFrom(b, d, DOMAIN d) + x
<1> DEFINE e == Append(d, x)
           n == Len(d) + 1
<1>1. /\ n \in Nat \ {0} /\ DOMAIN e = 1..n /\ DOMAIN d = 1..(n - 1) /\ e[n] = x
      /\ \A i \in 1..(n - 1) : e[i] = d[i]
      /\ \A i \in 1..n : e[i] \in Int
  OBVIOUS
<1> HIDE DEF e, n
<1>2. SumFrom(b, e, 1..n) = e[n] + SumFrom(b, e, 1..(n - 1)) /\ SumFrom(b, e, 1..(n - 1)) \in Int
  BY <1>1, SumLast
<1>3. IsFiniteSet(1..(n - 1))
  BY <1>1, FS_Interval
<1>4. SumFrom(b, e, 1..(n - 1)) = SumFrom(b, d, 1..(n - 1))
  BY <1>1, <1>3, SumSame
<1>5. SumFrom(b, e, DOMAIN e) = SumFrom(b, d, DOMAIN d) + x
  BY <1>1, <1>2, <1>4
<1> QED
  BY <1>5 DEF e

\* Adding up pairs first adds up the same.
LEMMA SumPairs ==
    ASSUME NEW n \in Nat, NEW d, \A i \in 1..(2 * n) : d[i] \in Int,
           NEW h, \A i \in 1..n : h[i] = d[2 * i - 1] + d[2 * i]
    PROVE  SumOn(h, 1..n) = SumOn(d, 1..(2 * n))
<1> DEFINE B == { m \in Nat : m <= n => SumOn(h, 1..m) = SumOn(d, 1..(2 * m)) }
<1>1. 0 \in B
  <2>1. SumOn(h, {}) = SumOn(d, {}) /\ 1..0 = {} /\ 1..(2 * 0) = {}
    BY SumEmpty DEF SumOn
  <2> QED
    BY <2>1
<1>2. ASSUME NEW m \in Nat \ {0}, m - 1 \in B PROVE m \in B
  <2> SUFFICES ASSUME m <= n PROVE SumOn(h, 1..m) = SumOn(d, 1..(2 * m))
    OBVIOUS
  <2>1. SumOn(h, 1..(m - 1)) = SumOn(d, 1..(2 * (m - 1)))
    BY <1>2
  <2>2. \A i \in 1..(2 * m) : d[i] \in Int
    OBVIOUS
  <2>3. \A i \in 1..m : h[i] \in Int
    <3> SUFFICES ASSUME NEW i \in 1..m PROVE h[i] \in Int
      OBVIOUS
    <3>1. 2 * i \in 1..(2 * m) /\ 2 * i - 1 \in 1..(2 * m) /\ i \in 1..n
      OBVIOUS
    <3> QED
      BY <2>2, <3>1
  <2>4. SumOn(h, 1..m) = h[m] + SumOn(h, 1..(m - 1))
    BY <2>3, SumLast DEF SumOn
  <2> DEFINE k == 2 * m
  <2>5. k \in Nat \ {0} /\ k - 1 \in Nat \ {0} /\ (k - 1) - 1 = 2 * (m - 1) /\ 2 * m - 1 = k - 1
    OBVIOUS
  <2>6. h[m] = d[k - 1] + d[k] /\ d[k - 1] \in Int /\ d[k] \in Int
    BY <2>2, <2>5
  <2>7. \A i \in 1..k : d[i] \in Int
    BY <2>2
  <2> HIDE DEF k
  <2>8. SumOn(d, 1..k) = d[k] + SumOn(d, 1..(k - 1))
    BY <2>5, <2>7, SumLast DEF SumOn
  <2>9. /\ SumOn(d, 1..(k - 1)) = d[k - 1] + SumOn(d, 1..((k - 1) - 1))
        /\ SumOn(d, 1..((k - 1) - 1)) \in Int
    <3>1. PICK j \in Nat \ {0} : j = k - 1
      BY <2>5
    <3>2. \A i \in 1..j : d[i] \in Int
      BY <2>5, <2>7, <3>1
    <3>3. /\ SumFrom(0, d, 1..j) = d[j] + SumFrom(0, d, 1..(j - 1))
          /\ SumFrom(0, d, 1..(j - 1)) \in Int
      BY <3>2, SumLast
    <3> QED
      BY <3>1, <3>3 DEF SumOn
  <2>10. SumOn(h, 1..m) = SumOn(d, 1..k)
    BY <2>1, <2>4, <2>5, <2>6, <2>8, <2>9
  <2> QED
    BY <2>10 DEF k
<1>3. B \in SUBSET Nat
  OBVIOUS
<1> HIDE DEF B
<1>4. n \in B
  BY <1>1, <1>2, <1>3, NatsAll
<1> QED
  BY <1>4 DEF B

-----------------------------------------------------------------------------
(* Numbers in order (Ranked).                                              *)

\* How many of Q come before i.
Rank(Q, i) == Cardinality({j \in Q : j < i})

LEMMA UpTo == ASSUME NEW n \in Nat PROVE IsFiniteSet(1 .. n) /\ Cardinality(1 .. n) = n
<1>1. IsFiniteSet(1 .. n) /\ Cardinality(1 .. n) = IF 1 > n THEN 0 ELSE n - 1 + 1
  BY FS_Interval
<1> QED  BY <1>1

\* Ranks are below the number of elements, and grow with them.
LEMMA RanksGrow ==
  ASSUME NEW Q \in SUBSET Int, IsFiniteSet(Q)
  PROVE  /\ Cardinality(Q) \in Nat
         /\ \A i \in Q : Rank(Q, i) \in Nat /\ Rank(Q, i) < Cardinality(Q)
         /\ \A i, l \in Q : i < l => Rank(Q, i) < Rank(Q, l)
<1>1. Cardinality(Q) \in Nat
  BY FS_CardinalityType
<1>2. \A i \in Q : /\ IsFiniteSet({j \in Q : j < i})
                   /\ Rank(Q, i) \in Nat /\ Rank(Q, i) < Cardinality(Q)
  <2> SUFFICES ASSUME NEW i \in Q
               PROVE  /\ IsFiniteSet({j \in Q : j < i})
                      /\ Rank(Q, i) \in Nat /\ Rank(Q, i) < Cardinality(Q)
    OBVIOUS
  <2> DEFINE X == {j \in Q : j < i}
  <2>1. X \subseteq Q /\ X # Q
    OBVIOUS
  <2> HIDE DEF X
  <2>2. IsFiniteSet(X) /\ Cardinality(X) <= Cardinality(Q) /\ Cardinality(X) # Cardinality(Q)
    BY <2>1, FS_Subset
  <2>3. Cardinality(X) \in Nat
    BY <2>2, FS_CardinalityType
  <2>4. Cardinality(X) < Cardinality(Q)
    BY <1>1, <2>2, <2>3
  <2> QED  BY <2>2, <2>3, <2>4 DEF Rank, X
<1>3. ASSUME NEW i \in Q, NEW l \in Q, i < l PROVE Rank(Q, i) < Rank(Q, l)
  <2> DEFINE X == {j \in Q : j < i}
             Y == {j \in Q : j < l}
  <2>0. \A j \in Q : j < i => j < l
    BY <1>3
  <2>a. ~(i < i)
    OBVIOUS
  <2>1. X \subseteq Y /\ i \in Y /\ i \notin X
    BY <1>3, <2>0, <2>a
  <2>2. IsFiniteSet(Y) /\ Cardinality(X) \in Nat /\ Cardinality(Y) \in Nat
    BY <1>2 DEF Rank
  <2> HIDE DEF X, Y
  <2>3. Cardinality(X) <= Cardinality(Y) /\ Cardinality(X) # Cardinality(Y)
    BY <2>1, <2>2, FS_Subset
  <2>4. Cardinality(X) < Cardinality(Y)
    BY <2>2, <2>3
  <2> QED  BY <2>4 DEF Rank, X, Y
<1> QED  BY <1>1, <1>2, <1>3

\* Two numbers of one rank are one.
LEMMA RankTells ==
  ASSUME NEW Q \in SUBSET Int, IsFiniteSet(Q), NEW i \in Q, NEW l \in Q, Rank(Q, i) = Rank(Q, l)
  PROVE  i = l
<1>1. Rank(Q, i) \in Nat /\ Rank(Q, l) \in Nat /\ i \in Int /\ l \in Int
  BY RanksGrow
<1>2. (i < l => Rank(Q, i) < Rank(Q, l)) /\ (l < i => Rank(Q, l) < Rank(Q, i))
  BY RanksGrow
<1> QED  BY <1>1, <1>2

\* Each place in the order is taken.
LEMMA RankTaken ==
  ASSUME NEW Q \in SUBSET Int, IsFiniteSet(Q), NEW k \in 1 .. Cardinality(Q)
  PROVE  \E i \in Q : Rank(Q, i) = k - 1
<1> DEFINE n == Cardinality(Q)
           f == [i \in Q |-> Rank(Q, i) + 1]
<1>1. n \in Nat /\ \A i \in Q : Rank(Q, i) \in Nat /\ Rank(Q, i) < n
  BY RanksGrow
<1> HIDE DEF n
<1>2. f \in [Q -> 1 .. n]
  BY <1>1
<1>3. \A i, l \in Q : f[i] = f[l] => i = l
  <2> SUFFICES ASSUME NEW i \in Q, NEW l \in Q, f[i] = f[l] PROVE i = l
    OBVIOUS
  <2>1. Rank(Q, i) = Rank(Q, l)
    BY <1>1
  <2> QED  BY <2>1, RankTells
<1> HIDE DEF f
<1>4. f \in Injection(Q, 1 .. n)
  BY <1>2, <1>3 DEF Injection, IsInjective
<1>5. f \in Surjection(Q, 1 .. n)
  BY <1>1, <1>4, UpTo, FS_Injection DEF n
<1>6. PICK i \in Q : f[i] = k
  BY <1>5 DEF Surjection, n
<1>7. Rank(Q, i) + 1 = k /\ Rank(Q, i) \in Nat
  BY <1>1, <1>6 DEF f
<1>8. Rank(Q, i) = k - 1
  BY <1>7
<1> QED  BY <1>8

\* The numbers in their order: all of them, each after the smaller ones.
LEMMA NthOK ==
  ASSUME NEW Q \in SUBSET Int, IsFiniteSet(Q)
  PROVE  /\ Cardinality(Q) \in Nat
         /\ \A k \in 1 .. Cardinality(Q) : Nth(Q, k) \in Q /\ Rank(Q, Nth(Q, k)) = k - 1
         /\ \A k, l \in 1 .. Cardinality(Q) : k < l => Nth(Q, k) < Nth(Q, l)
         /\ \A i \in Q : Rank(Q, i) + 1 \in 1 .. Cardinality(Q) /\ Nth(Q, Rank(Q, i) + 1) = i
<1>1. Cardinality(Q) \in Nat
  BY FS_CardinalityType
<1>2. \A k \in 1 .. Cardinality(Q) : Nth(Q, k) \in Q /\ Rank(Q, Nth(Q, k)) = k - 1
  BY RankTaken DEF Nth, Rank
<1>3. ASSUME NEW k \in 1 .. Cardinality(Q), NEW l \in 1 .. Cardinality(Q), k < l
      PROVE  Nth(Q, k) < Nth(Q, l)
  <2>1. Nth(Q, k) \in Q /\ Nth(Q, l) \in Q /\ Rank(Q, Nth(Q, k)) = k - 1 /\ Rank(Q, Nth(Q, l)) = l - 1
    BY <1>2
  <2>2. Nth(Q, k) \in Int /\ Nth(Q, l) \in Int
    BY <2>1
  <2>3. Nth(Q, l) < Nth(Q, k) => Rank(Q, Nth(Q, l)) < Rank(Q, Nth(Q, k))
    BY <2>1, RanksGrow
  <2>4. Nth(Q, l) = Nth(Q, k) => k - 1 = l - 1
    BY <2>1
  <2>5. ~(l - 1 < k - 1) /\ k - 1 # l - 1
    BY <1>1, <1>3
  <2>6. ~(Nth(Q, l) < Nth(Q, k)) /\ Nth(Q, l) # Nth(Q, k)
    BY <2>1, <2>3, <2>4, <2>5
  <2> QED  BY <2>2, <2>6
<1>4. ASSUME NEW i \in Q PROVE Rank(Q, i) + 1 \in 1 .. Cardinality(Q) /\ Nth(Q, Rank(Q, i) + 1) = i
  <2>1. Rank(Q, i) \in Nat /\ Rank(Q, i) < Cardinality(Q)
    BY RanksGrow
  <2>2. Rank(Q, i) + 1 \in 1 .. Cardinality(Q) /\ (Rank(Q, i) + 1) - 1 = Rank(Q, i)
    BY <1>1, <2>1
  <2>3. Nth(Q, Rank(Q, i) + 1) \in Q /\ Rank(Q, Nth(Q, Rank(Q, i) + 1)) = Rank(Q, i)
    BY <1>2, <2>2
  <2>4. Nth(Q, Rank(Q, i) + 1) = i
    <3> DEFINE l == Nth(Q, Rank(Q, i) + 1)
    <3>1. l \in Q /\ Rank(Q, l) = Rank(Q, i)
      BY <2>3
    <3> HIDE DEF l
    <3>2. l = i
      BY <3>1, RankTells
    <3> QED  BY <3>2 DEF l
  <2> QED  BY <2>2, <2>4
<1> QED  BY <1>1, <1>2, <1>3, <1>4

LEMMA NthUnique ==
  ASSUME NEW Q \in SUBSET Int, IsFiniteSet(Q), NEW i \in Q, NEW k \in 1 .. Cardinality(Q), Rank(Q, i) = k - 1
  PROVE  Nth(Q, k) = i
  BY NthOK, RankTells

\* The elements of a sequence at some of its places are all there, and no others.
LEMMA PickedOK ==
  ASSUME NEW S, NEW s \in Seq(S), NEW I \in SUBSET (1 .. Len(s))
  PROVE  /\ Cardinality(I) \in Nat
         /\ Picked(s, I) \in Seq(S) /\ Len(Picked(s, I)) = Cardinality(I)
         /\ \A k \in 1 .. Cardinality(I) : Nth(I, k) \in I /\ Picked(s, I)[k] = s[Nth(I, k)]
         /\ \A i \in I : Rank(I, i) + 1 \in 1 .. Cardinality(I) /\ Picked(s, I)[Rank(I, i) + 1] = s[i]
<1>1. I \in SUBSET Int /\ IsFiniteSet(I) /\ Len(s) \in Nat
  <2>1. Len(s) \in Nat
    OBVIOUS
  <2>2. IsFiniteSet(1 .. Len(s))
    BY <2>1, UpTo
  <2>3. I \in SUBSET Int
    BY <2>1
  <2>4. IsFiniteSet(I)
    BY <2>2, FS_Subset
  <2> QED  BY <2>1, <2>3, <2>4
<1>2. Cardinality(I) \in Nat
  BY <1>1, FS_CardinalityType
<1>3. \A k \in 1 .. Cardinality(I) : Nth(I, k) \in I
  BY <1>1, NthOK
<1>4. \A i \in I : Rank(I, i) + 1 \in 1 .. Cardinality(I) /\ Nth(I, Rank(I, i) + 1) = i
  BY <1>1, NthOK
<1>5. \A k \in 1 .. Cardinality(I) : s[Nth(I, k)] \in S
  <2>1. \A i \in 1 .. Len(s) : s[i] \in S
    OBVIOUS
  <2> QED  BY <1>3, <2>1
<1>6. Picked(s, I) = [k \in 1 .. Cardinality(I) |-> s[Nth(I, k)]]
  BY DEF Picked
<1>7. Picked(s, I) \in [1 .. Cardinality(I) -> S]
  BY <1>5, <1>6
<1>8. Picked(s, I) \in Seq(S) /\ Len(Picked(s, I)) = Cardinality(I)
  BY <1>2, <1>6, <1>7
<1> QED  BY <1>2, <1>3, <1>4, <1>6, <1>8

-----------------------------------------------------------------------------
(* Sequences one after another (Ranked).                                   *)

\* How many places of P come before p.
PlaceRank(P, p) == Cardinality({q \in P : Before(q, p)})

\* Of two places one comes first.
LEMMA BeforeOK ==
  ASSUME NEW P \in SUBSET (Int \X Int)
  PROVE  /\ \A p \in P : ~Before(p, p)
         /\ \A p, q \in P : p # q => Before(p, q) \/ Before(q, p)
         /\ \A p, q, r \in P : Before(p, q) /\ Before(q, r) => Before(p, r)
<1>0. \A p \in P : p = <<p[1], p[2]>> /\ p[1] \in Int /\ p[2] \in Int
  OBVIOUS
<1>1. ASSUME NEW p \in P PROVE ~Before(p, p)
  BY <1>0 DEF Before
<1>2. ASSUME NEW p \in P, NEW q \in P, p # q PROVE Before(p, q) \/ Before(q, p)
  <2>1. p[1] # q[1] \/ p[2] # q[2]
    BY <1>0, <1>2
  <2> QED  BY <1>0, <2>1 DEF Before
<1>3. ASSUME NEW p \in P, NEW q \in P, NEW r \in P, Before(p, q), Before(q, r) PROVE Before(p, r)
  BY <1>0, <1>3 DEF Before
<1> QED  BY <1>1, <1>2, <1>3

\* Ranks are below the number of places, and grow with them.
LEMMA PlacesGrow ==
  ASSUME NEW P \in SUBSET (Int \X Int), IsFiniteSet(P)
  PROVE  /\ Cardinality(P) \in Nat
         /\ \A p \in P : PlaceRank(P, p) \in Nat /\ PlaceRank(P, p) < Cardinality(P)
         /\ \A p, q \in P : Before(p, q) => PlaceRank(P, p) < PlaceRank(P, q)
<1>1. Cardinality(P) \in Nat
  BY FS_CardinalityType
<1>2. \A p \in P : /\ IsFiniteSet({q \in P : Before(q, p)})
                   /\ PlaceRank(P, p) \in Nat /\ PlaceRank(P, p) < Cardinality(P)
  <2> SUFFICES ASSUME NEW p \in P
               PROVE  /\ IsFiniteSet({q \in P : Before(q, p)})
                      /\ PlaceRank(P, p) \in Nat /\ PlaceRank(P, p) < Cardinality(P)
    OBVIOUS
  <2> DEFINE X == {q \in P : Before(q, p)}
  <2>0. ~Before(p, p)
    BY BeforeOK
  <2>1. X \subseteq P /\ X # P
    BY <2>0
  <2> HIDE DEF X
  <2>2. IsFiniteSet(X) /\ Cardinality(X) <= Cardinality(P) /\ Cardinality(X) # Cardinality(P)
    BY <2>1, FS_Subset
  <2>3. Cardinality(X) \in Nat
    BY <2>2, FS_CardinalityType
  <2>4. Cardinality(X) < Cardinality(P)
    BY <1>1, <2>2, <2>3
  <2> QED  BY <2>2, <2>3, <2>4 DEF PlaceRank, X
<1>3. ASSUME NEW p \in P, NEW r \in P, Before(p, r) PROVE PlaceRank(P, p) < PlaceRank(P, r)
  <2> DEFINE X == {q \in P : Before(q, p)}
             Y == {q \in P : Before(q, r)}
  <2>0. \A q \in P : Before(q, p) => Before(q, r)
    BY <1>3, BeforeOK
  <2>a. ~Before(p, p)
    BY BeforeOK
  <2>1. X \subseteq Y /\ p \in Y /\ p \notin X
    BY <1>3, <2>0, <2>a
  <2>2. IsFiniteSet(Y) /\ Cardinality(X) \in Nat /\ Cardinality(Y) \in Nat
    BY <1>2 DEF PlaceRank
  <2> HIDE DEF X, Y
  <2>3. Cardinality(X) <= Cardinality(Y) /\ Cardinality(X) # Cardinality(Y)
    BY <2>1, <2>2, FS_Subset
  <2>4. Cardinality(X) < Cardinality(Y)
    BY <2>2, <2>3
  <2> QED  BY <2>4 DEF PlaceRank, X, Y
<1> QED  BY <1>1, <1>2, <1>3

LEMMA PlaceTells ==
  ASSUME NEW P \in SUBSET (Int \X Int), IsFiniteSet(P), NEW p \in P, NEW q \in P,
         PlaceRank(P, p) = PlaceRank(P, q)
  PROVE  p = q
<1>1. PlaceRank(P, p) \in Nat /\ PlaceRank(P, q) \in Nat
  BY PlacesGrow
<1>2. (Before(p, q) => PlaceRank(P, p) < PlaceRank(P, q)) /\ (Before(q, p) => PlaceRank(P, q) < PlaceRank(P, p))
  BY PlacesGrow
<1>3. ~Before(p, q) /\ ~Before(q, p)
  BY <1>1, <1>2
<1> QED  BY <1>3, BeforeOK

LEMMA PlaceTaken ==
  ASSUME NEW P \in SUBSET (Int \X Int), IsFiniteSet(P), NEW k \in 1 .. Cardinality(P)
  PROVE  \E p \in P : PlaceRank(P, p) = k - 1
<1> DEFINE n == Cardinality(P)
           f == [p \in P |-> PlaceRank(P, p) + 1]
<1>1. n \in Nat /\ \A p \in P : PlaceRank(P, p) \in Nat /\ PlaceRank(P, p) < n
  BY PlacesGrow
<1> HIDE DEF n
<1>2. f \in [P -> 1 .. n]
  BY <1>1
<1>3. \A p, q \in P : f[p] = f[q] => p = q
  <2> SUFFICES ASSUME NEW p \in P, NEW q \in P, f[p] = f[q] PROVE p = q
    OBVIOUS
  <2>1. PlaceRank(P, p) = PlaceRank(P, q)
    BY <1>1
  <2> QED  BY <2>1, PlaceTells
<1> HIDE DEF f
<1>4. f \in Injection(P, 1 .. n)
  BY <1>2, <1>3 DEF Injection, IsInjective
<1>5. f \in Surjection(P, 1 .. n)
  BY <1>1, <1>4, UpTo, FS_Injection DEF n
<1>6. PICK p \in P : f[p] = k
  BY <1>5 DEF Surjection, n
<1>7. PlaceRank(P, p) + 1 = k /\ PlaceRank(P, p) \in Nat
  BY <1>1, <1>6 DEF f
<1>8. PlaceRank(P, p) = k - 1
  BY <1>7
<1> QED  BY <1>8

\* The places in their order: all of them, each once.
LEMMA NthPlaceOK ==
  ASSUME NEW P \in SUBSET (Int \X Int), IsFiniteSet(P)
  PROVE  /\ Cardinality(P) \in Nat
         /\ \A k \in 1 .. Cardinality(P) : NthPlace(P, k) \in P /\ PlaceRank(P, NthPlace(P, k)) = k - 1
         /\ \A p \in P : PlaceRank(P, p) + 1 \in 1 .. Cardinality(P) /\ NthPlace(P, PlaceRank(P, p) + 1) = p
<1>1. Cardinality(P) \in Nat
  BY FS_CardinalityType
<1>2. \A k \in 1 .. Cardinality(P) : NthPlace(P, k) \in P /\ PlaceRank(P, NthPlace(P, k)) = k - 1
  BY PlaceTaken DEF NthPlace, PlaceRank
<1>3. ASSUME NEW p \in P PROVE PlaceRank(P, p) + 1 \in 1 .. Cardinality(P) /\ NthPlace(P, PlaceRank(P, p) + 1) = p
  <2>1. PlaceRank(P, p) \in Nat /\ PlaceRank(P, p) < Cardinality(P)
    BY PlacesGrow
  <2>2. PlaceRank(P, p) + 1 \in 1 .. Cardinality(P) /\ (PlaceRank(P, p) + 1) - 1 = PlaceRank(P, p)
    BY <1>1, <2>1
  <2> DEFINE q == NthPlace(P, PlaceRank(P, p) + 1)
  <2>3. q \in P /\ PlaceRank(P, q) = PlaceRank(P, p)
    BY <1>2, <2>2
  <2> HIDE DEF q
  <2>4. q = p
    BY <2>3, PlaceTells
  <2> QED  BY <2>2, <2>4 DEF q
<1> QED  BY <1>1, <1>2, <1>3

\* Sequences of sequences have finitely many places.
LEMMA PlacesFinite ==
  ASSUME NEW ss, NEW n \in Nat, DOMAIN ss = 1 .. n,
         \A i \in 1 .. n : IsFiniteSet(DOMAIN ss[i]) /\ DOMAIN ss[i] \subseteq Nat
  PROVE  Places(ss) \in SUBSET (Int \X Int) /\ IsFiniteSet(Places(ss))
<1> DEFINE F == {{i} \X DOMAIN ss[i] : i \in DOMAIN ss}
<1>1. Places(ss) = UNION F
  BY DEF Places
<1>2. IsFiniteSet(1 .. n)
  BY UpTo
<1>3. IsFiniteSet(F)
  <2> DEFINE f == [i \in 1 .. n |-> {i} \X DOMAIN ss[i]]
  <2>1. f \in Surjection(1 .. n, F)
    BY DEF Surjection
  <2> QED  BY <1>2, <2>1, FS_Surjection
<1>4. \A A \in F : IsFiniteSet(A)
  <2> SUFFICES ASSUME NEW i \in 1 .. n PROVE IsFiniteSet({i} \X DOMAIN ss[i])
    OBVIOUS
  <2>1. IsFiniteSet({i}) /\ IsFiniteSet(DOMAIN ss[i])
    BY FS_Singleton
  <2> QED  BY <2>1, FS_Product
<1>5. IsFiniteSet(UNION F)
  <2> HIDE DEF F
  <2> QED  BY <1>3, <1>4, FS_UNION
<1>6. Places(ss) \in SUBSET (Int \X Int)
  BY DEF Places
<1> QED  BY <1>1, <1>5, <1>6

LEMMA PlacesAre ==
  ASSUME NEW ss
  PROVE  /\ \A p \in Places(ss) : /\ p = <<p[1], p[2]>> /\ p[1] \in DOMAIN ss /\ p[2] \in DOMAIN ss[p[1]]
         /\ \A i \in DOMAIN ss : \A j \in DOMAIN ss[i] : <<i, j>> \in Places(ss)
  BY DEF Places

LEMMA PlacesSame ==
  ASSUME NEW a, NEW b, DOMAIN a = DOMAIN b, \A i \in DOMAIN a : DOMAIN a[i] = DOMAIN b[i]
  PROVE  Places(a) = Places(b)
<1>1. ASSUME NEW p \in Places(a) PROVE p \in Places(b)
  <2>1. p = <<p[1], p[2]>> /\ p[1] \in DOMAIN b /\ p[2] \in DOMAIN b[p[1]]
    BY PlacesAre
  <2>2. <<p[1], p[2]>> \in Places(b)
    BY <2>1, PlacesAre
  <2> QED  BY <2>1, <2>2
<1>2. ASSUME NEW p \in Places(b) PROVE p \in Places(a)
  <2>1. p = <<p[1], p[2]>> /\ p[1] \in DOMAIN a /\ p[2] \in DOMAIN a[p[1]]
    BY PlacesAre
  <2>2. <<p[1], p[2]>> \in Places(a)
    BY <2>1, PlacesAre
  <2> QED  BY <2>1, <2>2
<1> QED  BY <1>1, <1>2

\* All the elements are there, each at its place.
LEMMA FlatOK ==
  ASSUME NEW S, NEW ss, NEW n \in Nat, DOMAIN ss = 1 .. n, \A i \in 1 .. n : ss[i] \in Seq(S)
  PROVE  /\ Places(ss) \in SUBSET (Int \X Int) /\ IsFiniteSet(Places(ss)) /\ Cardinality(Places(ss)) \in Nat
         /\ Flat(ss) \in Seq(S) /\ Len(Flat(ss)) = Cardinality(Places(ss))
         /\ \A k \in 1 .. Cardinality(Places(ss)) :
                /\ NthPlace(Places(ss), k) \in Places(ss)
                /\ PlaceRank(Places(ss), NthPlace(Places(ss), k)) = k - 1
                /\ Flat(ss)[k] = ss[NthPlace(Places(ss), k)[1]][NthPlace(Places(ss), k)[2]]
         /\ \A p \in Places(ss) :
                /\ PlaceRank(Places(ss), p) + 1 \in 1 .. Cardinality(Places(ss))
                /\ NthPlace(Places(ss), PlaceRank(Places(ss), p) + 1) = p
                /\ Flat(ss)[PlaceRank(Places(ss), p) + 1] = ss[p[1]][p[2]]
<1> DEFINE P == Places(ss)
           N == Cardinality(P)
<1>1. \A i \in 1 .. n : IsFiniteSet(DOMAIN ss[i]) /\ DOMAIN ss[i] \subseteq Nat
  <2> SUFFICES ASSUME NEW i \in 1 .. n PROVE IsFiniteSet(DOMAIN ss[i]) /\ DOMAIN ss[i] \subseteq Nat
    OBVIOUS
  <2>1. ss[i] \in Seq(S)
    OBVIOUS
  <2>2. Len(ss[i]) \in Nat /\ DOMAIN ss[i] = 1 .. Len(ss[i])
    BY <2>1
  <2> QED  BY <2>2, UpTo
<1>2. P \in SUBSET (Int \X Int) /\ IsFiniteSet(P)
  BY <1>1, PlacesFinite
<1>3. \A p \in P : p[1] \in 1 .. n /\ p[2] \in DOMAIN ss[p[1]]
  BY PlacesAre
<1>4. \A p \in P : ss[p[1]][p[2]] \in S
  <2> SUFFICES ASSUME NEW p \in P PROVE ss[p[1]][p[2]] \in S
    OBVIOUS
  <2>1. ss[p[1]] \in Seq(S) /\ p[2] \in DOMAIN ss[p[1]]
    BY <1>3
  <2> QED  BY <2>1
<1>5. /\ N \in Nat
      /\ \A k \in 1 .. N : NthPlace(P, k) \in P /\ PlaceRank(P, NthPlace(P, k)) = k - 1
      /\ \A p \in P : PlaceRank(P, p) + 1 \in 1 .. N /\ NthPlace(P, PlaceRank(P, p) + 1) = p
  BY <1>2, NthPlaceOK
<1>6. Flat(ss) = [k \in 1 .. N |-> ss[NthPlace(P, k)[1]][NthPlace(P, k)[2]]]
  BY DEF Flat
<1> HIDE DEF P, N
<1>7. \A k \in 1 .. N : ss[NthPlace(P, k)[1]][NthPlace(P, k)[2]] \in S
  BY <1>4, <1>5
<1>8. Flat(ss) \in [1 .. N -> S]
  BY <1>6, <1>7
<1>9. Flat(ss) \in Seq(S) /\ Len(Flat(ss)) = N
  BY <1>5, <1>6, <1>8
<1>10. \A k \in 1 .. N : Flat(ss)[k] = ss[NthPlace(P, k)[1]][NthPlace(P, k)[2]]
  BY <1>6
<1>11. \A p \in P : Flat(ss)[PlaceRank(P, p) + 1] = ss[p[1]][p[2]]
  BY <1>5, <1>10
<1> QED  BY <1>2, <1>5, <1>9, <1>10, <1>11 DEF P, N

-----------------------------------------------------------------------------
(* A sequence that runs through a set of numbers is the set in its order. *)

LEMMA RunsThrough ==
  ASSUME NEW Q \in SUBSET Int, NEW m \in Nat, NEW f \in [1 .. m -> Q],
         \A j, l \in 1 .. m : j < l => f[j] < f[l],
         \A i \in Q : \E j \in 1 .. m : f[j] = i
  PROVE  IsFiniteSet(Q) /\ Cardinality(Q) = m /\ \A j \in 1 .. m : Nth(Q, j) = f[j]
<1>0. \A j \in 1 .. m : f[j] \in Int
  OBVIOUS
<1>1. \A j, l \in 1 .. m : f[j] = f[l] => j = l
  <2> SUFFICES ASSUME NEW j \in 1 .. m, NEW l \in 1 .. m, f[j] = f[l] PROVE j = l
    OBVIOUS
  <2>1. ~(f[j] < f[l]) /\ ~(f[l] < f[j])
    BY <1>0
  <2>2. ~(j < l) /\ ~(l < j)
    BY <2>1
  <2> QED  BY <2>2
<1>2. f \in Bijection(1 .. m, Q)
  BY <1>1 DEF Bijection, Injection, Surjection, IsInjective
<1>3. IsFiniteSet(1 .. m) /\ Cardinality(1 .. m) = m
  BY UpTo
<1>4. IsFiniteSet(Q) /\ Cardinality(Q) = m
  BY <1>2, <1>3, FS_Bijection DEF ExistsBijection
<1>5. ASSUME NEW j \in 1 .. m PROVE Nth(Q, j) = f[j]
  <2> DEFINE X == {i \in Q : i < f[j]}
             g == [l \in 1 .. j - 1 |-> f[l]]
  <2>1. \A l \in 1 .. j - 1 : l \in 1 .. m /\ f[l] < f[j]
    OBVIOUS
  <2>2. \A l \in 1 .. m : f[l] < f[j] => l \in 1 .. j - 1
    <3> SUFFICES ASSUME NEW l \in 1 .. m, f[l] < f[j] PROVE l \in 1 .. j - 1
      OBVIOUS
    <3>1. ~(j < l) /\ j # l
      BY <1>0
    <3> QED  BY <3>1
  <2>3. g \in [1 .. j - 1 -> X] /\ \A l \in 1 .. j - 1 : g[l] = f[l]
    BY <2>1
  <2>4. \A i \in X : \E l \in 1 .. j - 1 : g[l] = i
    BY <2>2
  <2>5. \A l, k \in 1 .. j - 1 : g[l] = g[k] => l = k
    BY <1>1, <2>1
  <2> HIDE DEF X, g
  <2>6. g \in Bijection(1 .. j - 1, X)
    BY <2>3, <2>4, <2>5 DEF Bijection, Injection, Surjection, IsInjective
  <2>7. IsFiniteSet(1 .. j - 1) /\ Cardinality(1 .. j - 1) = j - 1
    <3>1. j - 1 \in Nat
      OBVIOUS
    <3> QED  BY <3>1, UpTo
  <2>8. Cardinality(X) = j - 1
    BY <2>6, <2>7, FS_Bijection DEF ExistsBijection
  <2>9. f[j] \in Q /\ Rank(Q, f[j]) = j - 1
    BY <2>8 DEF Rank, X
  <2> QED  BY <1>4, <2>9, NthUnique
<1> QED  BY <1>4, <1>5

=============================================================================
