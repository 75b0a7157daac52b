-------------------------------- MODULE Sums --------------------------------
(***************************************************************************)
(* The sum of a function over a finite set, for the proofs: it is a        *)
(* natural number, and one element more adds the value of that element.    *)
(*                                                                         *)
(* MapThenSumSet is a fold, defined by a recursive function that takes the *)
(* elements in an order CHOOSE fixes.  The lemmas prove, by induction on   *)
(* the number of elements, that this function exists and that any order    *)
(* gives the same sum.  An induction here is a set of numbers that holds   *)
(* 0 and is closed under + 1 (NatSetInduction).                            *)
(***************************************************************************)
EXTENDS Integers, FiniteSetsExt, FiniteSetTheorems, WellFoundedInduction, TLAPS

Total(f, S) == MapThenSumSet(LAMBDA x : f[x], S)

-----------------------------------------------------------------------------
(* Induction                                                               *)

\* A set that holds 0 and the successor of each of its numbers holds them all.
LEMMA NatSetInduction ==
  ASSUME NEW S, 0 \in S, \A n \in Nat : n \in S => n + 1 \in S
  PROVE  Nat \subseteq S
<1> DEFINE Less == OpToRel(<, Nat)
           T == Nat \ S
<1>1. SUFFICES ASSUME T # {} PROVE FALSE
  OBVIOUS
<1>2. \E x \in T : \A y \in T : ~(<<y, x>> \in Less)
  <2>1. IsWellFoundedOn(Less, Nat)
    BY NatLessThanWellFounded
  <2>2. T \subseteq Nat
    OBVIOUS
  <2> HIDE DEF Less, T
  <2> QED
    BY <1>1, <2>1, <2>2, WFMin, Zenon
<1>3. \A x, y \in Nat : y < x => <<y, x>> \in Less
  BY DEF OpToRel
<1> HIDE DEF Less
<1>4. PICK x \in T : \A y \in T : ~(<<y, x>> \in Less)
  BY <1>2
<1>5. x - 1 \in T /\ x \in Nat /\ x - 1 < x
  BY <1>4
<1> QED
  BY <1>3, <1>4, <1>5

-----------------------------------------------------------------------------
(* The recursive function of the fold                                      *)

Chosen(s) == CHOOSE x \in s : TRUE

\* i computes the sums of f over the sets of D, which is closed under removal.
SumsOn(i, D, f) ==
  i = [s \in D |-> IF s = {} THEN 0 ELSE f[Chosen(s)] + i[s \ {Chosen(s)}]]

\* i computes those of the subsets of S.
SumsOf(i, S, f) == SumsOn(i, SUBSET S, f)

\* The sum is what a function satisfying the equation gives.
LEMMA TotalChoice ==
  ASSUME NEW f, NEW S
  PROVE  Total(f, S) = (CHOOSE i : SumsOf(i, S, f))[S]
BY DEF Total, SumsOf, SumsOn, Chosen, MapThenSumSet, MapThenFoldSet

\* The values of such a function, one set at a time.
LEMMA SumsAt ==
  ASSUME NEW f, NEW D, NEW i, SumsOn(i, D, f)
  PROVE  /\ DOMAIN i = D
         /\ \A s \in D : s = {} => i[s] = 0
         /\ \A s \in D : s # {} => i[s] = f[Chosen(s)] + i[s \ {Chosen(s)}]
BY DEF SumsOn

LEMMA ChosenIn == \A s : s # {} => Chosen(s) \in s
BY DEF Chosen

\* The sets of at most n elements: what the induction of the next lemma goes over.
UpTo(S, n) == {s \in SUBSET S : Cardinality(s) <= n}

\* What is left of a finite set when an element goes.
LEMMA Removal ==
  ASSUME NEW S, IsFiniteSet(S), NEW s \in SUBSET S, NEW x \in s
  PROVE  /\ Cardinality(s) \in Nat \ {0}
         /\ s \ {x} \in SUBSET S
         /\ Cardinality(s \ {x}) = Cardinality(s) - 1
<1>1. IsFiniteSet(s) /\ IsFiniteSet(s \ {x})
  BY FS_Subset, FS_RemoveElement
<1>2. Cardinality(s \ {x}) = Cardinality(s) - 1
  BY <1>1, FS_RemoveElement
<1>3. Cardinality(s) \in Nat /\ Cardinality(s) # 0
  BY <1>1, FS_CardinalityType, FS_EmptySet
<1> QED
  BY <1>2, <1>3

\* The same, for the step of an induction.
LEMMA OneLess ==
  ASSUME NEW S, IsFiniteSet(S), NEW s \in SUBSET S, NEW n \in Nat, Cardinality(s) = n + 1
  PROVE  /\ s # {}
         /\ \A x \in s : s \ {x} \in SUBSET S /\ Cardinality(s \ {x}) = n
<1>1. s # {}
  <2>1. CASE s = {}
    BY <2>1, FS_EmptySet
  <2> QED
    BY <2>1
<1>2. ASSUME NEW x \in s PROVE s \ {x} \in SUBSET S /\ Cardinality(s \ {x}) = n
  BY Removal
<1> QED
  BY <1>1, <1>2

\* A finite set has a function with the sums of all its subsets.
LEMMA SumsExist ==
  ASSUME NEW f, NEW S, IsFiniteSet(S)
  PROVE  \E i : SumsOf(i, S, f)
<1> DEFINE G == {n \in Nat : \E i : SumsOn(i, UpTo(S, n), f)}
<1>1. 0 \in G
  <2> DEFINE i == [s \in UpTo(S, 0) |-> 0]
  <2>1. \A s \in UpTo(S, 0) : s = {}
    <3>1. SUFFICES ASSUME NEW s \in SUBSET S, Cardinality(s) <= 0, s # {} PROVE FALSE
      BY DEF UpTo
    <3>2. PICK x \in s : TRUE
      BY <3>1
    <3>3. Cardinality(s) \in Nat \ {0}
      BY <3>2, Removal
    <3> QED
      BY <3>1, <3>3
  <2>2. SumsOn(i, UpTo(S, 0), f)
    BY <2>1 DEF SumsOn
  <2> QED
    BY <2>2
<1>2. \A n \in Nat : n \in G => n + 1 \in G
  <2>1. SUFFICES ASSUME NEW n \in Nat, NEW i, SumsOn(i, UpTo(S, n), f)
                 PROVE  \E j : SumsOn(j, UpTo(S, n + 1), f)
    OBVIOUS
  <2> DEFINE j == [s \in UpTo(S, n + 1) |->
                     IF s = {} THEN 0 ELSE f[Chosen(s)] + i[s \ {Chosen(s)}]]
  <2>2. \A s \in UpTo(S, n) : s \in UpTo(S, n + 1) /\ j[s] = i[s]
    <3>1. SUFFICES ASSUME NEW s \in UpTo(S, n)
                   PROVE  s \in UpTo(S, n + 1) /\ j[s] = i[s]
      OBVIOUS
    <3>2. Cardinality(s) \in Nat
      BY FS_Subset, FS_CardinalityType DEF UpTo
    <3>3. s \in UpTo(S, n + 1)
      BY <3>2 DEF UpTo
    <3> QED
      BY <2>1, <3>3, SumsAt
  <2>3. \A s \in UpTo(S, n + 1) : s # {} => s \ {Chosen(s)} \in UpTo(S, n)
    BY ChosenIn, Removal DEF UpTo
  <2>4. SumsOn(j, UpTo(S, n + 1), f)
    <3>1. \A s \in UpTo(S, n + 1) : s # {} => j[s \ {Chosen(s)}] = i[s \ {Chosen(s)}]
      BY <2>2, <2>3
    <3> QED
      BY <3>1 DEF SumsOn
  <2> QED
    BY <2>4
<1>3. Cardinality(S) \in G
  BY <1>1, <1>2, NatSetInduction, FS_CardinalityType
<1>4. UpTo(S, Cardinality(S)) = SUBSET S
  BY FS_Subset DEF UpTo
<1> QED
  BY <1>3, <1>4 DEF SumsOf

LEMMA SumsOfAt ==
  ASSUME NEW f, NEW S, NEW i, SumsOf(i, S, f)
  PROVE  /\ i[{}] = 0
         /\ \A s \in SUBSET S : s # {} => i[s] = f[Chosen(s)] + i[s \ {Chosen(s)}]
BY SumsAt DEF SumsOf

-----------------------------------------------------------------------------
(* The sums of naturals                                                    *)

\* They are naturals.
LEMMA SumsNat ==
  ASSUME NEW f, NEW S, IsFiniteSet(S), \A x \in S : f[x] \in Nat,
         NEW i, SumsOf(i, S, f)
  PROVE  \A s \in SUBSET S : i[s] \in Nat
<1> DEFINE G == {n \in Nat : \A s \in SUBSET S : Cardinality(s) = n => i[s] \in Nat}
<1>1. 0 \in G
  BY FS_Subset, FS_EmptySet, SumsOfAt
<1>2. \A n \in Nat : n \in G => n + 1 \in G
  <2>1. SUFFICES ASSUME NEW n \in Nat, \A s \in SUBSET S : Cardinality(s) = n => i[s] \in Nat,
                        NEW s \in SUBSET S, Cardinality(s) = n + 1
                 PROVE  i[s] \in Nat
    OBVIOUS
  <2>2. s # {} /\ \A x \in s : s \ {x} \in SUBSET S /\ Cardinality(s \ {x}) = n
    BY <2>1, OneLess
  <2>3. Chosen(s) \in s /\ f[Chosen(s)] \in Nat
    BY <2>2, ChosenIn
  <2>4. i[s \ {Chosen(s)}] \in Nat
    BY <2>1, <2>2, <2>3
  <2>5. i[s] = f[Chosen(s)] + i[s \ {Chosen(s)}]
    BY <2>2, SumsOfAt
  <2> QED
    BY <2>3, <2>4, <2>5
<1>3. Nat \subseteq G
  BY <1>1, <1>2, NatSetInduction
<1> QED
  BY <1>3, FS_Subset, FS_CardinalityType

\* Any element may be taken first.
LEMMA SumsAnyOrder ==
  ASSUME NEW f, NEW S, IsFiniteSet(S), \A x \in S : f[x] \in Nat,
         NEW i, SumsOf(i, S, f)
  PROVE  \A s \in SUBSET S : \A c \in s : i[s] = f[c] + i[s \ {c}]
<1> DEFINE Any(s) == \A c \in s : i[s] = f[c] + i[s \ {c}]
           G == {n \in Nat : \A s \in SUBSET S : Cardinality(s) = n => Any(s)}
<1>1. 0 \in G
  BY FS_Subset, FS_EmptySet
<1>2. \A n \in Nat : n \in G => n + 1 \in G
  <2>1. SUFFICES ASSUME NEW n \in Nat, \A s \in SUBSET S : Cardinality(s) = n => Any(s),
                        NEW s \in SUBSET S, Cardinality(s) = n + 1, NEW c \in s
                 PROVE  i[s] = f[c] + i[s \ {c}]
    <3>1. SUFFICES ASSUME NEW n \in Nat, n \in G,
                          NEW s \in SUBSET S, Cardinality(s) = n + 1
                   PROVE  Any(s)
      <4> HIDE DEF Any
      <4> QED
        OBVIOUS
    <3> QED
      BY <3>1, Zenon
  <2>2. PICK x \in s : i[s] = f[x] + i[s \ {x}]
    <3>1. s # {} /\ Chosen(s) \in s
      BY ChosenIn
    <3>2. i[s] = f[Chosen(s)] + i[s \ {Chosen(s)}]
      BY <3>1, SumsOfAt
    <3> QED
      BY <3>1, <3>2
  <2>3. CASE x = c
    BY <2>2, <2>3
  <2>4. CASE x # c
    <3>1. Any(s \ {x}) /\ Any(s \ {c})
      <4>1. \A y \in s : s \ {y} \in SUBSET S /\ Cardinality(s \ {y}) = n
        BY <2>1, OneLess
      <4> QED
        BY <2>1, <4>1, Zenon
    <3>2. i[s \ {x}] = f[c] + i[(s \ {x}) \ {c}]
      BY <2>4, <3>1
    <3>3. i[s \ {c}] = f[x] + i[(s \ {c}) \ {x}]
      BY <2>2, <2>4, <3>1
    <3>4. i[s \ {c}] = f[x] + i[(s \ {x}) \ {c}]
      <4>1. (s \ {x}) \ {c} = (s \ {c}) \ {x}
        OBVIOUS
      <4> QED
        BY <3>3, <4>1
    <3>5. f[x] \in Nat /\ f[c] \in Nat /\ i[(s \ {x}) \ {c}] \in Nat
      BY <2>2, SumsNat
    <3> QED
      BY <2>2, <3>2, <3>4, <3>5
  <2> QED
    BY <2>3, <2>4
<1>3. Nat \subseteq G
  BY <1>1, <1>2, NatSetInduction
<1> QED
  BY <1>3, FS_Subset, FS_CardinalityType

\* The function of a set and that of a subset agree on the subset.
LEMMA SumsAgree ==
  ASSUME NEW f, NEW S, IsFiniteSet(S), NEW i, SumsOf(i, S, f),
         NEW T, T \subseteq S, NEW j, SumsOf(j, T, f)
  PROVE  j[T] = i[T]
<1> DEFINE G == {n \in Nat : \A s \in SUBSET T : Cardinality(s) = n => j[s] = i[s]}
<1>0. IsFiniteSet(T) /\ SUBSET T \subseteq SUBSET S
  BY FS_Subset
<1>1. 0 \in G
  BY <1>0, FS_Subset, FS_EmptySet, SumsOfAt
<1>2. \A n \in Nat : n \in G => n + 1 \in G
  <2>1. SUFFICES ASSUME NEW n \in Nat, \A s \in SUBSET T : Cardinality(s) = n => j[s] = i[s],
                        NEW s \in SUBSET T, Cardinality(s) = n + 1
                 PROVE  j[s] = i[s]
    OBVIOUS
  <2>2. s # {} /\ \A x \in s : s \ {x} \in SUBSET T /\ Cardinality(s \ {x}) = n
    BY <1>0, <2>1, OneLess
  <2>3. j[s \ {Chosen(s)}] = i[s \ {Chosen(s)}]
    BY <2>1, <2>2, ChosenIn
  <2>4. i[s] = f[Chosen(s)] + i[s \ {Chosen(s)}]
    BY <1>0, <2>2, SumsOfAt
  <2>5. j[s] = f[Chosen(s)] + j[s \ {Chosen(s)}]
    BY <2>2, SumsOfAt
  <2> QED
    BY <2>3, <2>4, <2>5
<1>3. Nat \subseteq G
  BY <1>1, <1>2, NatSetInduction
<1> QED
  BY <1>0, <1>3, FS_Subset, FS_CardinalityType

-----------------------------------------------------------------------------
(* What the proofs cite                                                    *)

\* The sum of a finite set is the value of a function satisfying the equation.
LEMMA TotalSums ==
  ASSUME NEW f, NEW S, IsFiniteSet(S)
  PROVE  \E i : SumsOf(i, S, f) /\ Total(f, S) = i[S]
<1>1. \E i : SumsOf(i, S, f)
  BY SumsExist
<1>2. SumsOf(CHOOSE i : SumsOf(i, S, f), S, f)
  BY <1>1, Zenon
<1> QED
  BY <1>2, TotalChoice, Zenon

\* A sum over a subset is the value of the function of the whole set.
LEMMA TotalIs ==
  ASSUME NEW f, NEW S, IsFiniteSet(S), NEW i, SumsOf(i, S, f), NEW T, T \subseteq S
  PROVE  Total(f, T) = i[T]
<1>1. IsFiniteSet(T)
  BY FS_Subset
<1>2. PICK j : SumsOf(j, T, f) /\ Total(f, T) = j[T]
  BY <1>1, TotalSums
<1>3. j[T] = i[T]
  BY <1>2, SumsAgree
<1> QED
  BY <1>2, <1>3

\* The sum over no elements.
LEMMA TotalEmpty == ASSUME NEW f PROVE Total(f, {}) = 0
<1>1. PICK i : SumsOf(i, {}, f)
  BY FS_EmptySet, SumsExist
<1>2. i[{}] = 0
  BY <1>1, SumsOfAt
<1> QED
  BY <1>1, <1>2, FS_EmptySet, TotalIs

\* The sum of naturals is one.
LEMMA TotalNat ==
  ASSUME NEW f, NEW S, IsFiniteSet(S), \A x \in S : f[x] \in Nat
  PROVE  Total(f, S) \in Nat
<1>1. PICK i : SumsOf(i, S, f)
  BY SumsExist
<1> QED
  BY <1>1, SumsNat, TotalIs

\* One element more adds its value.
LEMMA TotalAdd ==
  ASSUME NEW f, NEW S, IsFiniteSet(S), NEW c, c \notin S,
         \A x \in S \cup {c} : f[x] \in Nat
  PROVE  Total(f, S \cup {c}) = Total(f, S) + f[c]
<1> DEFINE W == S \cup {c}
<1>1. /\ IsFiniteSet(W) /\ W \ {c} = S /\ c \in W
      /\ W \in SUBSET W /\ S \in SUBSET W
      /\ \A x \in W : f[x] \in Nat
  BY FS_AddElement
<1> HIDE DEF W
<1>2. PICK i : SumsOf(i, W, f)
  BY <1>1, SumsExist
<1>3. i[W] = f[c] + i[S]
  BY <1>1, <1>2, SumsAnyOrder
<1>4. i[W] = Total(f, W) /\ i[S] = Total(f, S)
  BY <1>1, <1>2, TotalIs
<1>5. Total(f, S) \in Nat /\ f[c] \in Nat
  BY <1>1, TotalNat
<1>6. Total(f, W) = Total(f, S) + f[c]
  BY <1>1, <1>3, <1>4, <1>5
<1> QED
  BY <1>6 DEF W
=============================================================================
