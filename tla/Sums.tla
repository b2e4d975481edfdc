--------------------------------- MODULE Sums ---------------------------------
(***************************************************************************)
(* What SumFunctionOnSet computes, which the stock that is held, the units *)
(* that are returned and the money that is refunded are sums by: it does   *)
(* not depend on the order of the elements.                                *)
(*                                                                         *)
(* The fold is a recursive function, so its facts are by induction, over   *)
(* the subsets of a finite set.  Smallest is that induction: of any        *)
(* subsets there are, one has none of the others strictly inside.          *)
(***************************************************************************)
EXTENDS Integers, FiniteSets, Functions, FiniteSetsExt, FiniteSetTheorems,
        WellFoundedInduction, TLAPS

-----------------------------------------------------------------------------
(* Induction                                                               *)

(* any numbers have a least one *)
LEMMA Least ==
  ASSUME NEW T, T \subseteq Nat, T # {}
  PROVE  \E n \in T : \A m \in T : n <= m
<1>1. IsWellFoundedOn(OpToRel(<, Nat), Nat)
  BY NatLessThanWellFounded
<1> DEFINE R == OpToRel(<, Nat)
<1>2. \A x, y \in Nat : <<y, x>> \in R <=> y < x
  BY DEF OpToRel
<1>3. IsWellFoundedOn(R, Nat)
  BY <1>1
<1> HIDE DEF R
<1>4. PICK n \in T : \A m \in T : ~(<<m, n>> \in R)
  BY <1>3, WFMin
<1>5. ASSUME NEW m \in T
      PROVE  n <= m
  <2>1. m \in Nat /\ n \in Nat /\ ~(<<m, n>> \in R)
    BY <1>4
  <2>2. ~(m < n)
    BY <1>2, <2>1
  <2>. QED BY <2>1, <2>2
<1>. QED BY <1>5

LEMMA Smallest ==
  ASSUME NEW S, IsFiniteSet(S), NEW B, B \subseteq SUBSET S, B # {}
  PROVE  \E s \in B : \A x \in s : s \ {x} \notin B
<1> DEFINE Sizes == {Cardinality(s) : s \in B}
<1>1. \A s \in B : IsFiniteSet(s) /\ Cardinality(s) \in Nat
  BY FS_Subset, FS_CardinalityType
<1>2. PICK n \in Sizes : \A m \in Sizes : n <= m
  <2>1. Sizes \subseteq Nat /\ Sizes # {}
    BY <1>1
  <2> HIDE DEF Sizes
  <2>. QED BY <2>1, Least
<1>3. PICK s \in B : n = Cardinality(s)
  BY <1>2
<1>4. ASSUME NEW x \in s, s \ {x} \in B
      PROVE  FALSE
  <2>1. Cardinality(s \ {x}) = Cardinality(s) - 1
    BY <1>1, FS_RemoveElement
  <2>2. Cardinality(s) <= Cardinality(s \ {x}) /\ Cardinality(s) \in Nat
    BY <1>1, <1>2, <1>3, <1>4
  <2>. QED BY <2>1, <2>2
<1>. QED BY <1>4

-----------------------------------------------------------------------------
(* The fold is a table of the sums over all subsets                        *)

First(s) == CHOOSE x \in s : TRUE
Table(f, D, h) ==
  /\ h \in [D -> Int]
  /\ \A s \in D : h[s] = IF s = {} THEN 0 ELSE f[First(s)] + h[s \ {First(s)}]

LEMMA FirstIn == \A s : s # {} => First(s) \in s
BY DEF First

(* from the table of the small subsets that of the next larger ones *)
LEMMA NextTable ==
  ASSUME NEW S, IsFiniteSet(S), NEW f, \A x \in S : f[x] \in Int, NEW n \in Nat,
         NEW h, Table(f, {s \in SUBSET S : Cardinality(s) <= n}, h)
  PROVE  \E g : Table(f, {s \in SUBSET S : Cardinality(s) <= n + 1}, g)
<1> DEFINE D == {s \in SUBSET S : Cardinality(s) <= n}
           E == {s \in SUBSET S : Cardinality(s) <= n + 1}
           g == [s \in E |-> IF s = {} THEN 0 ELSE f[First(s)] + h[s \ {First(s)}]]
<1>1. ASSUME NEW s \in E, s # {}
      PROVE  First(s) \in s /\ f[First(s)] \in Int /\ s \ {First(s)} \in D
  <2>1. First(s) \in s /\ IsFiniteSet(s)
    BY <1>1, FirstIn, FS_Subset
  <2>2. Cardinality(s) \in Nat /\ Cardinality(s \ {First(s)}) = Cardinality(s) - 1
    BY <2>1, FS_CardinalityType, FS_RemoveElement
  <2>. QED BY <2>1, <2>2
<1>2. \A s \in D : s \in E
  BY FS_Subset, FS_CardinalityType
<1>3. \A s \in D : h[s] \in Int /\ h[s] = IF s = {} THEN 0 ELSE f[First(s)] + h[s \ {First(s)}]
  BY DEF Table
<1> HIDE DEF D, E
<1>4. \A s \in E : g[s] = IF s = {} THEN 0 ELSE f[First(s)] + h[s \ {First(s)}]
  OBVIOUS
<1>5. \A s \in D : g[s] = h[s]
  BY <1>2, <1>3, <1>4
<1>6. ASSUME NEW s \in E
      PROVE  g[s] \in Int /\ g[s] = IF s = {} THEN 0 ELSE f[First(s)] + g[s \ {First(s)}]
  <2>1. CASE s = {}
    BY <1>4, <2>1
  <2>2. CASE s # {}
    <3>1. s \ {First(s)} \in D /\ f[First(s)] \in Int
      BY <1>1, <2>2
    <3>2. h[s \ {First(s)}] \in Int /\ g[s \ {First(s)}] = h[s \ {First(s)}]
      BY <1>3, <1>5, <3>1
    <3>3. g[s] = f[First(s)] + h[s \ {First(s)}]
      BY <1>4, <2>2
    <3> HIDE DEF g
    <3>. QED BY <2>2, <3>1, <3>2, <3>3
  <2>. QED BY <2>1, <2>2
<1>7. g = [s \in E |-> g[s]]
  OBVIOUS
<1> HIDE DEF g
<1>8. Table(f, E, g)
  BY <1>6, <1>7 DEF Table
<1>. QED BY <1>8 DEF E

LEMMA SomeTable ==
  ASSUME NEW S, IsFiniteSet(S), NEW f, \A x \in S : f[x] \in Int
  PROVE  \E h : Table(f, SUBSET S, h)
<1> DEFINE D(n) == {s \in SUBSET S : Cardinality(s) <= n}
           None == {n \in Nat : ~\E h : Table(f, D(n), h)}
<1>1. \A s \in SUBSET S : IsFiniteSet(s) /\ Cardinality(s) \in Nat /\ Cardinality(s) <= Cardinality(S)
  BY FS_Subset, FS_CardinalityType
<1>2. 0 \notin None
  <2>1. D(0) = {{}}
    BY <1>1, FS_EmptySet
  <2>2. ASSUME NEW E, E = {{}}
        PROVE  Table(f, E, [s \in E |-> 0])
    BY <2>2 DEF Table
  <2> HIDE DEF D
  <2>3. \E h : Table(f, D(0), h)
    BY <2>1, <2>2
  <2>. QED BY <2>3
<1>3. None = {}
  <2> SUFFICES ASSUME None # {} PROVE FALSE
    OBVIOUS
  <2>1. PICK n \in None : \A m \in None : n <= m
    BY Least
  <2>2. n \in Nat \ {0} /\ n - 1 \in Nat
    BY <1>2, <2>1
  <2>3. n - 1 \notin None
    <3>1. ~(n <= n - 1)
      BY <2>2
    <3> HIDE DEF None
    <3>. QED BY <2>1, <3>1
  <2>4. PICK h : Table(f, D(n - 1), h)
    BY <2>2, <2>3
  <2>5. \E g : Table(f, D((n - 1) + 1), g)
    BY <2>2, <2>4, NextTable
  <2>6. (n - 1) + 1 = n
    BY <2>2
  <2>. QED BY <2>1, <2>5, <2>6
<1>4. Cardinality(S) \in Nat /\ D(Cardinality(S)) = SUBSET S
  BY <1>1, FS_CardinalityType
<1>5. \E h : Table(f, D(Cardinality(S)), h)
  BY <1>3, <1>4
<1> HIDE DEF D
<1>. QED BY <1>4, <1>5

FullTable(f, S, h) == Table(f, SUBSET S, h)

(* there is only one *)
LEMMA OneTable ==
  ASSUME NEW S, IsFiniteSet(S), NEW T \in SUBSET S, NEW f, \A x \in S : f[x] \in Int,
         NEW g, FullTable(f, S, g), NEW h, FullTable(f, T, h)
  PROVE  g[T] = h[T]
<1> DEFINE B == {s \in SUBSET T : g[s] # h[s]}
<1>1. B = {}
  <2> SUFFICES ASSUME B # {} PROVE FALSE
    OBVIOUS
  <2>1. IsFiniteSet(T)
    BY FS_Subset
  <2>2. PICK s \in B : \A x \in s : s \ {x} \notin B
    <3>1. B \subseteq SUBSET T
      OBVIOUS
    <3> HIDE DEF B
    <3>. QED BY <2>1, <3>1, Smallest
  <2>3. s \in SUBSET T /\ s \in SUBSET S
    OBVIOUS
  <2>4. CASE s = {}
    BY <2>3, <2>4 DEF FullTable, Table
  <2>5. CASE s # {}
    <3>1. First(s) \in s
      BY <2>5, FirstIn
    <3>2. g[s \ {First(s)}] = h[s \ {First(s)}]
      BY <2>2, <2>3, <3>1
    <3>3. /\ g[s] = f[First(s)] + g[s \ {First(s)}]
          /\ h[s] = f[First(s)] + h[s \ {First(s)}]
      BY <2>3, <2>5 DEF FullTable, Table
    <3>. QED BY <3>2, <3>3
  <2>. QED BY <2>4, <2>5
<1>. QED BY <1>1

(* a function that obeys the equation of the fold is a table of integers *)
LEMMA FoldTable ==
  ASSUME NEW S, IsFiniteSet(S), NEW f, \A x \in S : f[x] \in Int,
         NEW iter,
         iter = [s \in SUBSET S |-> IF s = {} THEN 0 ELSE f[First(s)] + iter[s \ {First(s)}]]
  PROVE  FullTable(f, S, iter)
<1>1. \A s \in SUBSET S : iter[s] = IF s = {} THEN 0 ELSE f[First(s)] + iter[s \ {First(s)}]
  OBVIOUS
<1>2. \A s \in SUBSET S : iter[s] \in Int
  <2> DEFINE B == {s \in SUBSET S : iter[s] \notin Int}
  <2> SUFFICES ASSUME B # {} PROVE FALSE
    OBVIOUS
  <2>1. PICK s \in B : \A x \in s : s \ {x} \notin B
    <3>1. B \subseteq SUBSET S
      OBVIOUS
    <3> HIDE DEF B
    <3>. QED BY <3>1, Smallest
  <2>2. CASE s = {}
    <3>1. iter[{}] = 0
      BY <1>1
    <3>. QED BY <2>2, <3>1
  <2>3. CASE s # {}
    <3>1. First(s) \in s /\ f[First(s)] \in Int
      BY <2>3, FirstIn
    <3>2. iter[s \ {First(s)}] \in Int
      BY <2>1, <3>1
    <3>3. iter[s] = f[First(s)] + iter[s \ {First(s)}]
      BY <1>1, <2>3
    <3>. QED BY <3>1, <3>2, <3>3
  <2>. QED BY <2>2, <2>3
<1>3. iter \in [SUBSET S -> Int]
  BY <1>2
<1>. QED BY <1>1, <1>3 DEF FullTable, Table

(* the sum over a set is what the table has for it, and for all subsets *)
LEMMA SumTable ==
  ASSUME NEW S, IsFiniteSet(S), NEW f, \A x \in S : f[x] \in Int
  PROVE  \E h : FullTable(f, S, h) /\ SumFunctionOnSet(f, S) = h[S]
<1> DEFINE iter == CHOOSE h : h = [s \in SUBSET S |->
                     IF s = {} THEN 0 ELSE f[First(s)] + h[s \ {First(s)}]]
<1>1. SumFunctionOnSet(f, S) = iter[S]
  BY DEF SumFunctionOnSet, FoldFunctionOnSet, MapThenFoldSet, First
<1>2. PICK h : FullTable(f, S, h)
  BY SomeTable DEF FullTable
<1>3. h = [s \in SUBSET S |-> IF s = {} THEN 0 ELSE f[First(s)] + h[s \ {First(s)}]]
  BY <1>2 DEF FullTable, Table
<1>4. iter = [s \in SUBSET S |-> IF s = {} THEN 0 ELSE f[First(s)] + iter[s \ {First(s)}]]
  BY <1>3
<1> HIDE DEF iter
<1>5. FullTable(f, S, iter)
  BY <1>4, FoldTable
<1>. QED BY <1>1, <1>5

-----------------------------------------------------------------------------
(* Facts about sums                                                        *)

Ints(f, S) == \A x \in S : f[x] \in Int

LEMMA SumParts ==
  ASSUME NEW S, IsFiniteSet(S), NEW f, Ints(f, S)
  PROVE  /\ SumFunctionOnSet(f, S) \in Int
         /\ S = {} => SumFunctionOnSet(f, S) = 0
         /\ S # {} => /\ First(S) \in S
                      /\ SumFunctionOnSet(f, S)
                           = f[First(S)] + SumFunctionOnSet(f, S \ {First(S)})
<1>. \A x \in S : f[x] \in Int
  BY DEF Ints
<1>1. PICK g : FullTable(f, S, g) /\ SumFunctionOnSet(f, S) = g[S]
  BY SumTable
<1>2. g[S] \in Int /\ g[S] = IF S = {} THEN 0 ELSE f[First(S)] + g[S \ {First(S)}]
  BY <1>1 DEF FullTable, Table
<1>3. ASSUME S # {}
      PROVE  /\ First(S) \in S
             /\ SumFunctionOnSet(f, S) = f[First(S)] + SumFunctionOnSet(f, S \ {First(S)})
  <2> DEFINE T == S \ {First(S)}
  <2>1. T \in SUBSET S /\ IsFiniteSet(T)
    BY FS_Subset
  <2> HIDE DEF T
  <2>2. PICK h : FullTable(f, T, h) /\ SumFunctionOnSet(f, T) = h[T]
    BY <2>1, SumTable
  <2>3. g[T] = h[T]
    <3>1. FullTable(f, S, g) /\ FullTable(f, T, h)
      BY <1>1, <2>2
    <3>. QED BY <2>1, <3>1, OneTable
  <2>4. g[S] = f[First(S)] + g[T]
    BY <1>2, <1>3 DEF T
  <2>5. SumFunctionOnSet(f, S) = f[First(S)] + SumFunctionOnSet(f, T)
    BY <1>1, <2>2, <2>3, <2>4
  <2>. QED BY <1>3, <2>5, FirstIn DEF T
<1>. QED BY <1>1, <1>2, <1>3

(* it does not matter which element is taken first *)
LEMMA SumElement ==
  ASSUME NEW S, IsFiniteSet(S), NEW f, Ints(f, S), NEW y \in S
  PROVE  /\ SumFunctionOnSet(f, S \ {y}) \in Int
         /\ SumFunctionOnSet(f, S) = f[y] + SumFunctionOnSet(f, S \ {y})
<1> DEFINE total(s) == SumFunctionOnSet(f, s)
           B == {s \in SUBSET S : \E x \in s : total(s) # f[x] + total(s \ {x})}
<1>1. ASSUME NEW s \in SUBSET S
      PROVE  /\ total(s) \in Int
             /\ s # {} => First(s) \in s /\ total(s) = f[First(s)] + total(s \ {First(s)})
  <2>1. IsFiniteSet(s) /\ Ints(f, s)
    BY FS_Subset DEF Ints
  <2>. QED BY <2>1, SumParts
<1> HIDE DEF total
<1>2. B = {}
  <2> SUFFICES ASSUME B # {} PROVE FALSE
    OBVIOUS
  <2>1. PICK s \in B : \A x \in s : s \ {x} \notin B
    <3>1. B \subseteq SUBSET S
      OBVIOUS
    <3> HIDE DEF B
    <3>. QED BY <3>1, Smallest
  <2>2. PICK x \in s : total(s) # f[x] + total(s \ {x})
    OBVIOUS
  <2>3. PICK z \in s : z = First(s) /\ total(s) = f[z] + total(s \ {z})
    BY <1>1
  <2>4. x # z
    BY <2>2, <2>3
  <2>5. total(s \ {z}) = f[x] + total((s \ {z}) \ {x})
    BY <2>1, <2>4
  <2>6. total(s \ {x}) = f[z] + total((s \ {x}) \ {z})
    BY <2>1, <2>4
  <2>7. (s \ {x}) \ {z} = (s \ {z}) \ {x}
    OBVIOUS
  <2>8. f[x] \in Int /\ f[z] \in Int /\ total((s \ {z}) \ {x}) \in Int
    BY <1>1 DEF Ints
  <2>9. total((s \ {x}) \ {z}) = total((s \ {z}) \ {x})
    BY <2>7
  <2>10. total(s) = f[z] + (f[x] + total((s \ {z}) \ {x}))
    BY <2>3, <2>5
  <2>11. f[x] + total(s \ {x}) = f[x] + (f[z] + total((s \ {z}) \ {x}))
    BY <2>6, <2>9
  <2> HIDE DEF B
  <2>. QED BY <2>2, <2>8, <2>10, <2>11
<1>3. total(S) = f[y] + total(S \ {y})
  BY <1>2
<1>. QED BY <1>1, <1>3 DEF total

(* functions that agree on a set have the same sum over it *)
LEMMA SumSame ==
  ASSUME NEW S, IsFiniteSet(S), NEW f, Ints(f, S), NEW g, \A x \in S : g[x] = f[x]
  PROVE  SumFunctionOnSet(g, S) = SumFunctionOnSet(f, S)
<1> DEFINE F(s) == SumFunctionOnSet(f, s)
           G(s) == SumFunctionOnSet(g, s)
           B == {s \in SUBSET S : G(s) # F(s)}
<1>1. ASSUME NEW s \in SUBSET S
      PROVE  /\ s = {} => F(s) = 0 /\ G(s) = 0
             /\ \A x \in s : F(s) = f[x] + F(s \ {x}) /\ G(s) = g[x] + G(s \ {x})
  <2>1. IsFiniteSet(s) /\ Ints(f, s) /\ Ints(g, s)
    BY FS_Subset DEF Ints
  <2>2. s = {} => F(s) = 0 /\ G(s) = 0
    BY <2>1, SumParts
  <2>3. ASSUME NEW x \in s
        PROVE  F(s) = f[x] + F(s \ {x}) /\ G(s) = g[x] + G(s \ {x})
    BY <2>1, SumElement
  <2>. QED BY <2>2, <2>3
<1> HIDE DEF F, G
<1>2. B = {}
  <2> SUFFICES ASSUME B # {} PROVE FALSE
    OBVIOUS
  <2>1. PICK s \in B : \A x \in s : s \ {x} \notin B
    <3>1. B \subseteq SUBSET S
      OBVIOUS
    <3> HIDE DEF B
    <3>. QED BY <3>1, Smallest
  <2>2. PICK x : x \in s
    BY <1>1
  <2>3. F(s \ {x}) = G(s \ {x})
    BY <2>1, <2>2
  <2>4. F(s) = f[x] + F(s \ {x}) /\ G(s) = f[x] + G(s \ {x})
    BY <1>1, <2>2
  <2>. QED BY <2>3, <2>4
<1>3. G(S) = F(S)
  BY <1>2
<1>. QED BY <1>3 DEF F, G

(* one more element *)
LEMMA SumAdd ==
  ASSUME NEW S, IsFiniteSet(S), NEW f, NEW y, y \notin S, Ints(f, S \cup {y})
  PROVE  SumFunctionOnSet(f, S \cup {y}) = f[y] + SumFunctionOnSet(f, S)
<1>1. IsFiniteSet(S \cup {y}) /\ (S \cup {y}) \ {y} = S
  BY FS_AddElement
<1>. QED BY <1>1, SumElement

(* one element changes *)
LEMMA SumChange ==
  ASSUME NEW S, IsFiniteSet(S), NEW f, Ints(f, S), NEW g, Ints(g, S), NEW y \in S,
         \A x \in S \ {y} : g[x] = f[x]
  PROVE  SumFunctionOnSet(g, S) = SumFunctionOnSet(f, S) - f[y] + g[y]
<1>1. /\ SumFunctionOnSet(f, S \ {y}) \in Int
      /\ SumFunctionOnSet(f, S) = f[y] + SumFunctionOnSet(f, S \ {y})
      /\ SumFunctionOnSet(g, S) = g[y] + SumFunctionOnSet(g, S \ {y})
  BY SumElement
<1>2. SumFunctionOnSet(g, S \ {y}) = SumFunctionOnSet(f, S \ {y})
  <2>1. IsFiniteSet(S \ {y}) /\ Ints(f, S \ {y})
    BY FS_RemoveElement DEF Ints
  <2>. QED BY <2>1, SumSame
<1>. QED BY <1>1, <1>2 DEF Ints

(* of natural numbers, the sum is one, and grows with the set *)
LEMMA SumGrows ==
  ASSUME NEW S, IsFiniteSet(S), NEW T \in SUBSET S, NEW f, \A x \in S : f[x] \in Nat
  PROVE  /\ SumFunctionOnSet(f, S) \in Nat /\ SumFunctionOnSet(f, T) \in Nat
         /\ SumFunctionOnSet(f, T) <= SumFunctionOnSet(f, S)
         /\ (\A x \in S \ T : f[x] = 0) => SumFunctionOnSet(f, T) = SumFunctionOnSet(f, S)
<1> DEFINE F(s) == SumFunctionOnSet(f, s)
<1>1. ASSUME NEW s \in SUBSET S
      PROVE  /\ F(s) \in Int /\ (s = {} => F(s) = 0)
             /\ \A x \in s : F(s) = f[x] + F(s \ {x})
  <2>1. IsFiniteSet(s) /\ Ints(f, s)
    BY FS_Subset DEF Ints
  <2>2. F(s) \in Int /\ (s = {} => F(s) = 0)
    BY <2>1, SumParts
  <2>3. ASSUME NEW x \in s
        PROVE  F(s) = f[x] + F(s \ {x})
    BY <2>1, SumElement
  <2>. QED BY <2>2, <2>3
<1> HIDE DEF F
<1>2. ASSUME NEW U \in SUBSET S, F(U) \in Nat
      PROVE  \A s \in SUBSET S : U \subseteq s =>
               /\ F(s) \in Nat /\ F(U) <= F(s)
               /\ (\A x \in s \ U : f[x] = 0) => F(U) = F(s)
  <2> DEFINE Good(s) == /\ F(s) \in Nat /\ F(U) <= F(s)
                        /\ (\A x \in s \ U : f[x] = 0) => F(U) = F(s)
             B == {s \in SUBSET S : U \subseteq s /\ ~Good(s)}
  <2> SUFFICES ASSUME B # {} PROVE FALSE
    OBVIOUS
  <2>1. PICK s \in B : \A x \in s : s \ {x} \notin B
    <3>1. B \subseteq SUBSET S
      OBVIOUS
    <3> HIDE DEF B
    <3>. QED BY <3>1, Smallest
  <2>2. CASE s = U
    BY <1>2, <2>2
  <2>3. CASE s # U
    <3>1. PICK x \in s : x \notin U
      BY <2>3
    <3>2. Good(s \ {x})
      BY <2>1, <3>1
    <3>3. F(s) = f[x] + F(s \ {x}) /\ f[x] \in Nat
      BY <1>1
    <3>4. (\A z \in s \ U : f[z] = 0) => f[x] = 0 /\ \A z \in (s \ {x}) \ U : f[z] = 0
      BY <3>1
    <3>5. F(s) \in Nat /\ F(U) <= F(s)
      BY <1>2, <3>2, <3>3
    <3>6. (\A z \in s \ U : f[z] = 0) => F(U) = F(s)
      BY <1>2, <3>2, <3>3, <3>4
    <3>. QED BY <3>5, <3>6
  <2>. QED BY <2>2, <2>3
<1>3. F({}) \in Nat
  BY <1>1
<1>4. F(T) \in Nat
  BY <1>2, <1>3
<1>. QED BY <1>2, <1>4 DEF F

(* a sum over part of a set, as one over the set *)
LEMMA SumWhere ==
  ASSUME NEW S, IsFiniteSet(S), NEW T \in SUBSET S, NEW f, \A x \in T : f[x] \in Nat,
         NEW g, \A x \in S : g[x] = IF x \in T THEN f[x] ELSE 0
  PROVE  SumFunctionOnSet(f, T) = SumFunctionOnSet(g, S)
<1>1. IsFiniteSet(T) /\ Ints(g, T)
  BY FS_Subset DEF Ints
<1>2. SumFunctionOnSet(f, T) = SumFunctionOnSet(g, T)
  BY <1>1, SumSame
<1>3. SumFunctionOnSet(g, T) = SumFunctionOnSet(g, S)
  <2>1. (\A x \in S : g[x] \in Nat) /\ (\A x \in S \ T : g[x] = 0)
    OBVIOUS
  <2>. QED BY <2>1, SumGrows
<1>. QED BY <1>2, <1>3

(* two sets that share no element *)
LEMMA SumUnion ==
  ASSUME NEW S, IsFiniteSet(S), NEW T, IsFiniteSet(T), S \cap T = {},
         NEW f, Ints(f, S \cup T)
  PROVE  SumFunctionOnSet(f, S \cup T) = SumFunctionOnSet(f, S) + SumFunctionOnSet(f, T)
<1> DEFINE F(s) == SumFunctionOnSet(f, s)
           B == {s \in SUBSET S : F(s \cup T) # F(s) + F(T)}
<1>1. ASSUME NEW s \in SUBSET S
      PROVE  /\ F(s) \in Int /\ F(T) \in Int /\ (s = {} => F(s) = 0)
             /\ \A x \in s : /\ f[x] \in Int /\ F(s) = f[x] + F(s \ {x})
                             /\ F(s \cup T) = f[x] + F((s \cup T) \ {x})
  <2>1. IsFiniteSet(s) /\ Ints(f, s) /\ Ints(f, T)
    BY FS_Subset DEF Ints
  <2>2. IsFiniteSet(s \cup T) /\ Ints(f, s \cup T)
    BY <2>1, FS_Union DEF Ints
  <2>3. F(s) \in Int /\ F(T) \in Int /\ (s = {} => F(s) = 0)
    BY <2>1, SumParts
  <2>4. ASSUME NEW x \in s
        PROVE  F(s) = f[x] + F(s \ {x}) /\ F(s \cup T) = f[x] + F((s \cup T) \ {x})
    <3>1. F(s) = f[x] + F(s \ {x})
      BY <2>1, SumElement
    <3>2. F(s \cup T) = f[x] + F((s \cup T) \ {x})
      BY <2>2, SumElement
    <3>. QED BY <3>1, <3>2
  <2>. QED BY <2>1, <2>3, <2>4 DEF Ints
<1> HIDE DEF F
<1>2. B = {}
  <2> SUFFICES ASSUME B # {} PROVE FALSE
    OBVIOUS
  <2>1. PICK s \in B : \A x \in s : s \ {x} \notin B
    <3>1. B \subseteq SUBSET S
      OBVIOUS
    <3> HIDE DEF B
    <3>. QED BY <3>1, Smallest
  <2>2. s \in SUBSET S /\ F(s \cup T) # F(s) + F(T)
    OBVIOUS
  <2>3. CASE s = {}
    <3>1. s \cup T = T /\ F(s) = 0 /\ F(T) \in Int
      BY <1>1, <2>3
    <3>2. F(s \cup T) = F(T)
      BY <3>1
    <3>. QED BY <2>2, <3>1, <3>2
  <2>4. CASE s # {}
    <3>1. PICK x : x \in s
      BY <2>4
    <3>2. (s \cup T) \ {x} = (s \ {x}) \cup T
      BY <2>2, <3>1
    <3>3. s \ {x} \in SUBSET S /\ F((s \ {x}) \cup T) = F(s \ {x}) + F(T)
      BY <2>1, <2>2, <3>1
    <3>4. F((s \cup T) \ {x}) = F(s \ {x}) + F(T)
      BY <3>2, <3>3
    <3>5. /\ f[x] \in Int /\ F(s \ {x}) \in Int /\ F(T) \in Int
          /\ F(s) = f[x] + F(s \ {x}) /\ F(s \cup T) = f[x] + F((s \cup T) \ {x})
      BY <1>1, <2>2, <3>1, <3>3
    <3> HIDE DEF B
    <3>. QED BY <2>2, <3>4, <3>5
  <2>. QED BY <2>3, <2>4
<1>3. F(S \cup T) = F(S) + F(T)
  BY <1>2
<1>. QED BY <1>3 DEF F

(* the elements under other names *)
LEMMA SumMap ==
  ASSUME NEW S, IsFiniteSet(S), NEW m, \A x, y \in S : m[x] = m[y] => x = y,
         NEW T, IsFiniteSet(T), T = {m[x] : x \in S}, NEW f, Ints(f, T),
         NEW g, \A x \in S : g[x] = f[m[x]]
  PROVE  SumFunctionOnSet(f, T) = SumFunctionOnSet(g, S)
<1> DEFINE F(s) == SumFunctionOnSet(f, s)
           G(s) == SumFunctionOnSet(g, s)
           Im(s) == {m[x] : x \in s}
           B == {s \in SUBSET S : F(Im(s)) # G(s)}
<1>1. ASSUME NEW s \in SUBSET S
      PROVE  /\ s = {} => F(Im(s)) = 0 /\ G(s) = 0
             /\ \A x \in s : /\ F(Im(s)) = f[m[x]] + F(Im(s) \ {m[x]})
                             /\ G(s) = g[x] + G(s \ {x})
  <2>1. IsFiniteSet(s) /\ Ints(g, s)
    BY FS_Subset DEF Ints
  <2>2. Im(s) \in SUBSET T
    OBVIOUS
  <2>3. IsFiniteSet(Im(s)) /\ Ints(f, Im(s))
    BY <2>2, FS_Subset DEF Ints
  <2>4. s = {} => Im(s) = {}
    OBVIOUS
  <2>5. \A x \in s : m[x] \in Im(s)
    OBVIOUS
  <2> HIDE DEF Im
  <2>6. s = {} => F(Im(s)) = 0 /\ G(s) = 0
    BY <2>1, <2>3, <2>4, SumParts
  <2>7. ASSUME NEW x \in s
        PROVE  F(Im(s)) = f[m[x]] + F(Im(s) \ {m[x]}) /\ G(s) = g[x] + G(s \ {x})
    <3>1. F(Im(s)) = f[m[x]] + F(Im(s) \ {m[x]})
      BY <2>3, <2>5, SumElement
    <3>2. G(s) = g[x] + G(s \ {x})
      BY <2>1, SumElement
    <3>. QED BY <3>1, <3>2
  <2>. QED BY <2>6, <2>7
<1>2. ASSUME NEW s \in SUBSET S, NEW x \in s
      PROVE  Im(s) \ {m[x]} = Im(s \ {x})
  OBVIOUS
<1> HIDE DEF F, G, Im
<1>3. B = {}
  <2> SUFFICES ASSUME B # {} PROVE FALSE
    OBVIOUS
  <2>1. PICK s \in B : \A x \in s : s \ {x} \notin B
    <3>1. B \subseteq SUBSET S
      OBVIOUS
    <3> HIDE DEF B
    <3>. QED BY <3>1, Smallest
  <2>2. PICK x : x \in s
    BY <1>1
  <2>3. s \in SUBSET S /\ F(Im(s \ {x})) = G(s \ {x})
    BY <2>1, <2>2
  <2>4. F(Im(s)) = f[m[x]] + F(Im(s \ {x})) /\ G(s) = g[x] + G(s \ {x})
    BY <1>1, <1>2, <2>2
  <2>. QED BY <2>2, <2>3, <2>4
<1>4. F(Im(S)) = G(S)
  BY <1>3
<1>. QED BY <1>4 DEF F, G, Im

(* the sum of the members of a set is the sum of the function that is each  *)
(* of them                                                                  *)
LEMMA SetSum ==
  ASSUME NEW S, IsFiniteSet(S), S \subseteq Int
  PROVE  SumSet(S) = SumFunctionOnSet([x \in S |-> x], S)
<1> DEFINE f == [x \in S |-> x]
           iter == CHOOSE h : h = [s \in SUBSET S |->
                     IF s = {} THEN 0 ELSE First(s) + h[s \ {First(s)}]]
<1>1. SumSet(S) = iter[S]
  BY DEF SumSet, FoldSet, MapThenFoldSet, First
<1>2. \A x \in S : f[x] = x /\ f[x] \in Int
  OBVIOUS
<1> HIDE DEF f
<1>3. PICK h : FullTable(f, S, h) /\ SumFunctionOnSet(f, S) = h[S]
  BY <1>2, SumTable
<1>4. \A s \in SUBSET S : s # {} => f[First(s)] = First(s)
  BY <1>2, FirstIn
<1>5. h = [s \in SUBSET S |-> IF s = {} THEN 0 ELSE First(s) + h[s \ {First(s)}]]
  BY <1>3, <1>4 DEF FullTable, Table
<1>6. iter = [s \in SUBSET S |-> IF s = {} THEN 0 ELSE First(s) + iter[s \ {First(s)}]]
  BY <1>5
<1> HIDE DEF iter
<1>7. iter = [s \in SUBSET S |-> IF s = {} THEN 0 ELSE f[First(s)] + iter[s \ {First(s)}]]
  BY <1>4, <1>6
<1>8. FullTable(f, S, iter)
  BY <1>2, <1>7, FoldTable
<1>9. iter[S] = h[S]
  <2>1. S \in SUBSET S
    OBVIOUS
  <2>2. \A x \in S : f[x] \in Int
    BY <1>2
  <2>3. FullTable(f, S, h)
    BY <1>3
  <2>. QED BY ONLY IsFiniteSet(S), <1>8, <2>1, <2>2, <2>3, OneTable
<1>. QED BY <1>1, <1>3, <1>9 DEF f

(* the sum of a set of numbers grows with it *)
LEMMA SetSumAdd ==
  ASSUME NEW S, IsFiniteSet(S), S \subseteq Nat, NEW y \in Nat
  PROVE  /\ SumSet(S) \in Nat
         /\ y \notin S => SumSet(S \cup {y}) = SumSet(S) + y
         /\ S = {} => SumSet(S) = 0
<1>1. IsFiniteSet(S \cup {y})
  BY FS_AddElement
<1> DEFINE f == [x \in S |-> x]
           g == [x \in S \cup {y} |-> x]
<1>2. SumSet(S) = SumFunctionOnSet(f, S)
  <2>1. S \subseteq Int
    OBVIOUS
  <2>. QED BY <2>1, SetSum
<1>3. SumSet(S \cup {y}) = SumFunctionOnSet(g, S \cup {y})
  <2>1. S \cup {y} \subseteq Int
    OBVIOUS
  <2>. QED BY <1>1, <2>1, SetSum
<1>4. /\ Ints(f, S) /\ Ints(g, S \cup {y}) /\ g[y] = y
      /\ \A x \in S : g[x] = f[x] /\ f[x] \in Nat
  BY DEF Ints
<1> HIDE DEF f, g
<1>5. SumFunctionOnSet(f, S) \in Nat
  BY <1>4, SumGrows
<1>6. S = {} => SumFunctionOnSet(f, S) = 0
  BY <1>4, SumParts
<1>7. SumFunctionOnSet(g, S) = SumFunctionOnSet(f, S)
  BY <1>4, SumSame
<1>8. y \notin S => SumFunctionOnSet(g, S \cup {y}) = g[y] + SumFunctionOnSet(g, S)
  BY <1>4, SumAdd
<1>. QED BY <1>2, <1>3, <1>4, <1>5, <1>6, <1>7, <1>8
===============================================================================
