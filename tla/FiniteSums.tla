----------------------------- MODULE FiniteSums -----------------------------
(***************************************************************************)
(* Facts the proofs about the money and the limits keep needing, none of   *)
(* them about this system: a set of naturals has a least element, and      *)
(* SumFunction, whose recursion takes an arbitrary element first, does not *)
(* depend on that choice.  Each is proved from a least counterexample.     *)
(***************************************************************************)
EXTENDS Integers, FiniteSetsExt, FiniteSetTheorems, WellFoundedInduction, TLAPS

Smaller == {p \in Nat \X Nat : p[1] < p[2]}

LEMMA SmallerWellFounded == IsWellFoundedOn(Smaller, Nat)
  BY NatLessThanWellFounded DEF OpToRel, Smaller

LEMMA LeastOfNaturals ==
  ASSUME NEW S, S \subseteq Nat, S # {}
  PROVE  \E x \in S : \A y \in S : x <= y
<1>1. PICK x \in S : \A y \in S : <<y, x>> \notin Smaller
  BY SmallerWellFounded, WFMin
<1>2. ASSUME NEW y \in S PROVE x <= y
  <2>1. x \in Nat /\ y \in Nat /\ <<y, x>> \notin Smaller
    BY <1>1
  <2> QED
    BY <2>1 DEF Smaller
<1> QED
  BY <1>2

(* Of any family of subsets of a finite set one has the fewest elements. *)
LEMMA SmallestSet ==
  ASSUME NEW S, IsFiniteSet(S), NEW F, F \subseteq SUBSET S, F # {}
  PROVE  \E m \in F : \A s \in F : Cardinality(m) <= Cardinality(s)
<1>1. \A s \in F : Cardinality(s) \in Nat
  BY FS_Subset, FS_CardinalityType
<1> DEFINE sizes == {Cardinality(s) : s \in F}
<1>2. sizes \subseteq Nat /\ sizes # {}
  BY <1>1
<1>3. PICK n \in sizes : \A k \in sizes : n <= k
  <2> HIDE DEF sizes
  <2> QED
    BY <1>2, LeastOfNaturals
<1> QED
  BY <1>3

(* The element a sum takes first, and the sums of the subsets of S.         *)
Pick(s) == CHOOSE x \in s : TRUE

Adds(g, f, D) ==
  g = [s \in D |-> IF s = {} THEN 0 ELSE f[Pick(s)] + g[s \ {Pick(s)}]]

LEMMA SumIsFold ==
  ASSUME NEW f, NEW S
  PROVE  SumFunctionOnSet(f, S) = (CHOOSE g : Adds(g, f, SUBSET S))[S]
  BY DEF SumFunctionOnSet, FoldFunctionOnSet, MapThenFoldSet, Adds, Pick

LEMMA AddsExists ==
  ASSUME NEW f, NEW S, IsFiniteSet(S)
  PROVE  \E g : Adds(g, f, SUBSET S)
<1> DEFINE Upto(n) == {s \in SUBSET S : Cardinality(s) <= n}
           Bad == {n \in Nat : ~\E g : Adds(g, f, Upto(n))}
<1>1. \A s \in SUBSET S : Cardinality(s) \in Nat /\ (Cardinality(s) = 0 <=> s = {})
  BY FS_Subset, FS_CardinalityType, FS_EmptySet
<1>2. \A s \in SUBSET S : s # {} => /\ Pick(s) \in s /\ s \ {Pick(s)} \in SUBSET S
                                    /\ Cardinality(s \ {Pick(s)}) = Cardinality(s) - 1
  BY FS_Subset, FS_RemoveElement DEF Pick
<1>3. Bad = {}
  <2> SUFFICES ASSUME Bad # {} PROVE FALSE
    OBVIOUS
  <2>1. PICK n \in Bad : \A k \in Bad : n <= k
    <3>1. Bad \subseteq Nat
      OBVIOUS
    <3> HIDE DEF Bad
    <3> QED
      BY <3>1, LeastOfNaturals
  <2>2. n \in Nat /\ ~\E g : Adds(g, f, Upto(n))
    OBVIOUS
  <2>3. CASE n = 0
    <3>1. Upto(0) = {{}}
      BY <1>1
    <3> DEFINE g == [s \in Upto(0) |-> 0]
    <3>2. Adds(g, f, Upto(0))
      BY <3>1 DEF Adds
    <3> QED
      BY <2>2, <2>3, <3>2
  <2>4. CASE n # 0
    <3>1. n - 1 \in Nat /\ n - 1 \notin Bad
      <4>1. n - 1 \in Nat /\ ~(n <= n - 1)
        BY <2>2, <2>4
      <4> HIDE DEF Bad
      <4> QED
        BY <2>1, <4>1
    <3>2. PICK g : Adds(g, f, Upto(n - 1))
      BY <3>1
    <3> DEFINE h == [s \in Upto(n) |-> IF s = {} THEN 0 ELSE f[Pick(s)] + g[s \ {Pick(s)}]]
    <3>3. \A s \in Upto(n - 1) : s \in Upto(n) /\ h[s] = g[s]
      <4> TAKE s \in Upto(n - 1)
      <4>1. s \in Upto(n)
        BY <1>1, <2>2
      <4>2. g[s] = IF s = {} THEN 0 ELSE f[Pick(s)] + g[s \ {Pick(s)}]
        BY <3>2 DEF Adds
      <4> QED
        BY <4>1, <4>2
    <3>4. \A s \in Upto(n) : s # {} => s \ {Pick(s)} \in Upto(n - 1)
      BY <1>1, <1>2, <2>2
    <3>5. \A s \in Upto(n) : s # {} => h[s \ {Pick(s)}] = g[s \ {Pick(s)}]
      BY <3>3, <3>4
    <3>6. Adds(h, f, Upto(n))
      BY <3>5 DEF Adds
    <3> QED
      BY <2>2, <3>6
  <2> QED
    BY <2>3, <2>4
<1>4. Upto(Cardinality(S)) = SUBSET S /\ Cardinality(S) \in Nat
  BY FS_Subset, FS_CardinalityType
<1> QED
  BY <1>3, <1>4

(* The function behind the sum over S, and what it yields.                  *)
SumFun(f, S) == CHOOSE g : Adds(g, f, SUBSET S)

LEMMA SumFunAdds ==
  ASSUME NEW f, NEW S, IsFiniteSet(S)
  PROVE  /\ SumFunctionOnSet(f, S) = SumFun(f, S)[S]
         /\ \A s \in SUBSET S :
              SumFun(f, S)[s] = IF s = {} THEN 0
                                ELSE f[Pick(s)] + SumFun(f, S)[s \ {Pick(s)}]
<1>1. Adds(SumFun(f, S), f, SUBSET S)
  BY AddsExists DEF SumFun
<1>2. SumFunctionOnSet(f, S) = SumFun(f, S)[S]
  BY SumIsFold DEF SumFun
<1> HIDE DEF SumFun
<1> DEFINE g == SumFun(f, S)
<1>3. \A s \in SUBSET S : g[s] = IF s = {} THEN 0 ELSE f[Pick(s)] + g[s \ {Pick(s)}]
  BY <1>1 DEF Adds
<1> QED
  BY <1>2, <1>3

LEMMA PickRemoves ==
  ASSUME NEW S, IsFiniteSet(S), NEW s \in SUBSET S, s # {}
  PROVE  /\ Pick(s) \in s /\ s \ {Pick(s)} \in SUBSET S
         /\ \A x \in s : /\ Cardinality(s \ {x}) < Cardinality(s)
                          /\ s \ {x} \in SUBSET S
<1>1. IsFiniteSet(s) /\ Cardinality(s) \in Nat
  BY FS_Subset, FS_CardinalityType
<1>2. \A x \in s : Cardinality(s \ {x}) = Cardinality(s) - 1
  BY <1>1, FS_RemoveElement
<1> QED
  BY <1>1, <1>2 DEF Pick

LEMMA SumFunType ==
  ASSUME NEW S, IsFiniteSet(S), NEW f \in [S -> Int]
  PROVE  \A s \in SUBSET S : SumFun(f, S)[s] \in Int
<1> DEFINE g == SumFun(f, S)
           Bad == {s \in SUBSET S : g[s] \notin Int}
<1> SUFFICES ASSUME Bad # {} PROVE FALSE
  OBVIOUS
<1>1. PICK m \in Bad : \A s \in Bad : Cardinality(m) <= Cardinality(s)
  <2>1. Bad \subseteq SUBSET S
    OBVIOUS
  <2> HIDE DEF Bad
  <2> QED
    BY <2>1, SmallestSet
<1>2. m # {} /\ m \in SUBSET S
  <2>1. {} \in SUBSET S /\ g[{}] = 0
    <3> HIDE DEF Bad
    <3> QED
      BY SumFunAdds
  <2> QED
    BY <2>1
<1>3. m \ {Pick(m)} \notin Bad
  BY <1>1, <1>2, PickRemoves, FS_Subset, FS_CardinalityType
<1> QED
  BY <1>2, <1>3, PickRemoves, SumFunAdds

(* Any element may be taken first. *)
LEMMA SumFunRemove ==
  ASSUME NEW S, IsFiniteSet(S), NEW f \in [S -> Int]
  PROVE  \A s \in SUBSET S : \A x \in s :
           SumFun(f, S)[s] = f[x] + SumFun(f, S)[s \ {x}]
<1> DEFINE g == SumFun(f, S)
           Bad == {s \in SUBSET S : \E x \in s : g[s] # f[x] + g[s \ {x}]}
<1> SUFFICES ASSUME Bad # {} PROVE FALSE
  OBVIOUS
<1>1. PICK m \in Bad : \A s \in Bad : Cardinality(m) <= Cardinality(s)
  <2>1. Bad \subseteq SUBSET S
    OBVIOUS
  <2> HIDE DEF Bad
  <2> QED
    BY <2>1, SmallestSet
<1>2. PICK x \in m : g[m] # f[x] + g[m \ {x}]
  OBVIOUS
<1>3. m \in SUBSET S /\ m # {}
  OBVIOUS
<1> DEFINE y == Pick(m)
<1>4. y \in m /\ g[m] = f[y] + g[m \ {y}]
  <2> HIDE DEF Bad
  <2> QED
    BY <1>3, PickRemoves, SumFunAdds
<1>5. x # y
  BY <1>2, <1>4
<1>6. m \ {x} \notin Bad /\ m \ {y} \notin Bad
  <2>1. /\ m \ {x} \in SUBSET S /\ m \ {y} \in SUBSET S
        /\ Cardinality(m) \in Nat /\ Cardinality(m \ {x}) \in Nat /\ Cardinality(m \ {y}) \in Nat
    BY <1>3, FS_Subset, FS_CardinalityType
  <2>2. Cardinality(m \ {x}) < Cardinality(m) /\ Cardinality(m \ {y}) < Cardinality(m)
    BY <1>3, <1>4, PickRemoves
  <2> HIDE DEF Bad, y
  <2> QED
    BY <1>1, <2>1, <2>2
<1>7. g[m \ {x}] = f[y] + g[(m \ {x}) \ {y}]
  BY <1>3, <1>4, <1>5, <1>6
<1>8. g[m \ {y}] = f[x] + g[(m \ {y}) \ {x}]
  BY <1>3, <1>4, <1>5, <1>6
<1>9. (m \ {x}) \ {y} = (m \ {y}) \ {x}
  OBVIOUS
<1>10. f[x] \in Int /\ f[y] \in Int /\ g[(m \ {x}) \ {y}] \in Int
  <2>1. x \in S /\ y \in S /\ (m \ {x}) \ {y} \in SUBSET S
    BY <1>3, <1>4
  <2> QED
    BY <2>1, SumFunType
<1>11. \A a, b, r \in Int : a + (b + r) = b + (a + r)
  OBVIOUS
<1>12. g[m] = f[x] + g[m \ {x}]
  <2>1. g[m] = f[y] + (f[x] + g[(m \ {x}) \ {y}])
    BY <1>4, <1>8, <1>9
  <2>2. g[m] = f[x] + (f[y] + g[(m \ {x}) \ {y}])
    BY <2>1, <1>10, <1>11
  <2> QED
    BY <2>2, <1>7
<1> QED
  BY <1>2, <1>12

LEMMA SumFunAgrees ==
  ASSUME NEW S, IsFiniteSet(S), NEW f, NEW h
  PROVE  \A s \in SUBSET S : (\A x \in s : f[x] = h[x]) => SumFun(f, S)[s] = SumFun(h, S)[s]
<1> DEFINE Bad == {s \in SUBSET S : /\ \A x \in s : f[x] = h[x]
                                    /\ SumFun(f, S)[s] # SumFun(h, S)[s]}
<1> SUFFICES ASSUME Bad # {} PROVE FALSE
  OBVIOUS
<1>1. PICK m \in Bad : \A s \in Bad : Cardinality(m) <= Cardinality(s)
  <2>1. Bad \subseteq SUBSET S
    OBVIOUS
  <2> HIDE DEF Bad
  <2> QED
    BY <2>1, SmallestSet
<1>2. m \in SUBSET S /\ m # {}
  <2>1. {} \in SUBSET S /\ SumFun(f, S)[{}] = 0 /\ SumFun(h, S)[{}] = 0
    BY SumFunAdds
  <2> QED
    BY <2>1
<1>3. /\ Pick(m) \in m
      /\ SumFun(f, S)[m] = f[Pick(m)] + SumFun(f, S)[m \ {Pick(m)}]
      /\ SumFun(h, S)[m] = h[Pick(m)] + SumFun(h, S)[m \ {Pick(m)}]
  BY <1>2, PickRemoves, SumFunAdds
<1>4. m \ {Pick(m)} \notin Bad
  <2>1. /\ m \ {Pick(m)} \in SUBSET S
        /\ Cardinality(m) \in Nat /\ Cardinality(m \ {Pick(m)}) \in Nat
    BY <1>2, FS_Subset, FS_CardinalityType
  <2>2. Cardinality(m \ {Pick(m)}) < Cardinality(m)
    BY <1>2, PickRemoves
  <2> HIDE DEF Bad
  <2> QED
    BY <1>1, <2>1, <2>2
<1> QED
  BY <1>2, <1>3, <1>4

(* A sum moves by what its one changed part moves.                          *)
LEMMA SumMoves ==
  ASSUME NEW S, IsFiniteSet(S), NEW f \in [S -> Int], NEW h \in [S -> Int],
         NEW x \in S, \A y \in S \ {x} : h[y] = f[y]
  PROVE  /\ SumFunction(f) \in Int /\ SumFunction(h) \in Int
         /\ SumFunction(h) - SumFunction(f) = h[x] - f[x]
<1> DEFINE F == SumFun(f, S)
           H == SumFun(h, S)
<1>1. SumFunction(f) = F[S] /\ SumFunction(h) = H[S]
  BY SumFunAdds DEF SumFunction
<1>2. F[S] = f[x] + F[S \ {x}] /\ H[S] = h[x] + H[S \ {x}]
  <2>1. \A s \in SUBSET S : \A y \in s : F[s] = f[y] + F[s \ {y}]
    BY SumFunRemove
  <2>2. \A s \in SUBSET S : \A y \in s : H[s] = h[y] + H[s \ {y}]
    BY SumFunRemove
  <2> HIDE DEF F, H
  <2> QED
    BY <2>1, <2>2
<1>3. F[S \ {x}] = H[S \ {x}]
  BY SumFunAgrees
<1>4. F[S] \in Int /\ H[S] \in Int /\ F[S \ {x}] \in Int
  BY SumFunType
<1>5. f[x] \in Int /\ h[x] \in Int
  OBVIOUS
<1> HIDE DEF F, H
<1> QED
  BY <1>1, <1>2, <1>3, <1>4, <1>5

(* Two parts of a sum change. *)
LEMMA SumMovesTwice ==
  ASSUME NEW S, IsFiniteSet(S), NEW f \in [S -> Int], NEW h \in [S -> Int],
         NEW x \in S, NEW y \in S \ {x}, \A z \in S \ {x, y} : h[z] = f[z]
  PROVE  /\ SumFunction(f) \in Int /\ SumFunction(h) \in Int
         /\ SumFunction(h) - SumFunction(f) = (h[x] - f[x]) + (h[y] - f[y])
<1> DEFINE g == [f EXCEPT ![x] = h[x]]
<1>1. /\ g \in [S -> Int] /\ g[x] = h[x] /\ g[y] = f[y]
      /\ \A z \in S \ {x} : g[z] = f[z]
  OBVIOUS
<1>2. \A z \in S \ {y} : h[z] = g[z]
  BY <1>1
<1> HIDE DEF g
<1>3. /\ SumFunction(f) \in Int /\ SumFunction(g) \in Int
      /\ SumFunction(g) - SumFunction(f) = g[x] - f[x]
  BY <1>1, SumMoves
<1>4. SumFunction(h) \in Int /\ SumFunction(h) - SumFunction(g) = h[y] - g[y]
  BY <1>1, <1>2, SumMoves
<1>5. f[x] \in Int /\ f[y] \in Int /\ h[x] \in Int /\ h[y] \in Int
  OBVIOUS
<1> QED
  BY <1>1, <1>3, <1>4, <1>5

(* A sum of zeros is zero. *)
LEMMA SumOfNothing ==
  ASSUME NEW S, IsFiniteSet(S), NEW f \in [S -> Int], \A x \in S : f[x] = 0
  PROVE  SumFunction(f) = 0
<1> DEFINE g == SumFun(f, S)
           Bad == {s \in SUBSET S : g[s] # 0}
<1>1. Bad = {}
  <2> SUFFICES ASSUME Bad # {} PROVE FALSE
    OBVIOUS
  <2>1. PICK m \in Bad : \A s \in Bad : Cardinality(m) <= Cardinality(s)
    <3>1. Bad \subseteq SUBSET S
      OBVIOUS
    <3> HIDE DEF Bad
    <3> QED
      BY <3>1, SmallestSet
  <2>2. m \in SUBSET S /\ m # {}
    <3>1. {} \in SUBSET S /\ g[{}] = 0
      BY SumFunAdds
    <3> QED
      BY <3>1
  <2>3. Pick(m) \in m /\ g[m] = f[Pick(m)] + g[m \ {Pick(m)}]
    BY <2>2, PickRemoves, SumFunAdds
  <2>4. m \ {Pick(m)} \notin Bad
    <3>1. /\ m \ {Pick(m)} \in SUBSET S
          /\ Cardinality(m) \in Nat /\ Cardinality(m \ {Pick(m)}) \in Nat
      BY <2>2, FS_Subset, FS_CardinalityType
    <3>2. Cardinality(m \ {Pick(m)}) < Cardinality(m)
      BY <2>2, PickRemoves
    <3> HIDE DEF Bad
    <3> QED
      BY <2>1, <3>1, <3>2
  <2> QED
    BY <2>2, <2>3, <2>4
<1> QED
  BY <1>1, SumFunAdds DEF SumFunction

----------------------------------------------------------------------------
(* Sums over parts of a set, taken alone *)

(* Of a family of sets without the empty one, one that loses its place in   *)
(* the family whichever element it gives up.                                *)
LEMMA LeastBad ==
  ASSUME NEW S, IsFiniteSet(S), NEW Bad, Bad \subseteq SUBSET S, Bad # {}, {} \notin Bad
  PROVE  \E m \in Bad : /\ m \in SUBSET S /\ m # {}
                        /\ \A x \in m : m \ {x} \in SUBSET S /\ m \ {x} \notin Bad
<1>1. PICK m \in Bad : \A s \in Bad : Cardinality(m) <= Cardinality(s)
  BY SmallestSet
<1>2. m \in SUBSET S /\ m # {} /\ IsFiniteSet(m)
  BY FS_Subset
<1>3. ASSUME NEW x \in m PROVE m \ {x} \in SUBSET S /\ m \ {x} \notin Bad
  <2>1. m \ {x} \in SUBSET S /\ Cardinality(m \ {x}) = Cardinality(m) - 1
    BY <1>2, FS_RemoveElement
  <2>2. Cardinality(m) \in Nat
    BY <1>2, FS_CardinalityType
  <2>3. ~(Cardinality(m) <= Cardinality(m \ {x}))
    BY <2>1, <2>2
  <2> QED
    BY <1>1, <2>1, <2>3
<1> QED
  BY <1>2, <1>3

(* A part of a sum, whether it is taken alone or inside the whole.          *)
LEMMA SumOfSubset ==
  ASSUME NEW S, IsFiniteSet(S), NEW f, NEW T \in SUBSET S
  PROVE  SumFunctionOnSet(f, T) = SumFun(f, S)[T]
<1> DEFINE G == SumFun(f, T)
           H == SumFun(f, S)
           Bad == {t \in SUBSET T : G[t] # H[t]}
<1>1. IsFiniteSet(T) BY FS_Subset
<1>2. \A t \in SUBSET T : G[t] = IF t = {} THEN 0 ELSE f[Pick(t)] + G[t \ {Pick(t)}]
  BY <1>1, SumFunAdds
<1>3. \A t \in SUBSET T : H[t] = IF t = {} THEN 0 ELSE f[Pick(t)] + H[t \ {Pick(t)}]
  BY SumFunAdds
<1> HIDE DEF G, H
<1>4. Bad = {}
  <2> SUFFICES ASSUME Bad # {} PROVE FALSE OBVIOUS
  <2>1. {} \notin Bad /\ Bad \subseteq SUBSET T BY <1>2, <1>3
  <2>2. PICK m \in Bad : /\ m \in SUBSET T /\ m # {}
                         /\ \A x \in m : m \ {x} \in SUBSET T /\ m \ {x} \notin Bad
    <3> HIDE DEF Bad
    <3> QED BY <1>1, <2>1, LeastBad
  <2>3. Pick(m) \in m BY <2>2 DEF Pick
  <2>4. G[m \ {Pick(m)}] = H[m \ {Pick(m)}] BY <2>2, <2>3
  <2>5. G[m] = H[m] BY <1>2, <1>3, <2>2, <2>4
  <2> QED BY <2>5
<1>5. SumFunctionOnSet(f, T) = G[T] BY <1>1, SumFunAdds DEF G
<1>6. G[T] = H[T] BY <1>4
<1> QED BY <1>5, <1>6 DEF H

(* A sum over a set, one element at a time.                                 *)
LEMMA SumOnSet ==
  ASSUME NEW S, IsFiniteSet(S), NEW f \in [S -> Int]
  PROVE  /\ SumFunctionOnSet(f, {}) = 0
         /\ \A T \in SUBSET S : SumFunctionOnSet(f, T) \in Int
         /\ \A T \in SUBSET S : \A x \in T :
              SumFunctionOnSet(f, T) = f[x] + SumFunctionOnSet(f, T \ {x})
<1> DEFINE F == SumFun(f, S)
<1>1. \A T \in SUBSET S : SumFunctionOnSet(f, T) = F[T]
  BY SumOfSubset
<1>2. \A T \in SUBSET S : F[T] \in Int
  BY SumFunType
<1>3. \A T \in SUBSET S : \A x \in T : F[T] = f[x] + F[T \ {x}]
  BY SumFunRemove
<1>4. F[{}] = 0 BY SumFunAdds
<1> HIDE DEF F
<1> QED BY <1>1, <1>2, <1>3, <1>4

LEMMA SumTakesOne ==
  ASSUME NEW S, IsFiniteSet(S), NEW f \in [S -> Int], NEW x \in S
  PROVE  SumFunctionOnSet(f, S) = f[x] + SumFunctionOnSet(f, S \ {x})
<1>1. S \in SUBSET S OBVIOUS
<1>2. \A T \in SUBSET S : \A y \in T :
        SumFunctionOnSet(f, T) = f[y] + SumFunctionOnSet(f, T \ {y})
  <2>1. /\ \A T \in SUBSET S : SumFunctionOnSet(f, T) \in Int
        /\ \A T \in SUBSET S : \A y \in T :
             SumFunctionOnSet(f, T) = f[y] + SumFunctionOnSet(f, T \ {y})
    BY SumOnSet
  <2> QED BY <2>1
<1> QED BY <1>1, <1>2

(* Functions that agree on a set have the same sum over it.                 *)
LEMMA SumsAgree ==
  ASSUME NEW S, IsFiniteSet(S), NEW f, NEW h, \A x \in S : f[x] = h[x]
  PROVE  SumFunctionOnSet(f, S) = SumFunctionOnSet(h, S)
<1>1. S \in SUBSET S OBVIOUS
<1>2. SumFun(f, S)[S] = SumFun(h, S)[S] BY <1>1, SumFunAgrees
<1> QED BY <1>2, SumFunAdds

(* Sums of naturals are naturals, ...                                       *)
LEMMA SumOfNaturals ==
  ASSUME NEW S, IsFiniteSet(S), NEW f \in [S -> Nat], NEW T \in SUBSET S
  PROVE  SumFunctionOnSet(f, T) \in Nat /\ \A x \in T : f[x] <= SumFunctionOnSet(f, T)
<1> DEFINE sum(s) == SumFunctionOnSet(f, s)
           Bad == {s \in SUBSET S : sum(s) \notin Nat}
<1>1. /\ sum({}) = 0
      /\ \A s \in SUBSET S : \A x \in s : sum(s) = f[x] + sum(s \ {x})
  <2>1. f \in [S -> Int] OBVIOUS
  <2> QED BY <2>1, SumOnSet
<1> HIDE DEF sum
<1>2. Bad = {}
  <2> SUFFICES ASSUME Bad # {} PROVE FALSE OBVIOUS
  <2>1. {} \notin Bad /\ Bad \subseteq SUBSET S BY <1>1
  <2>2. PICK m \in Bad : /\ m \in SUBSET S /\ m # {}
                         /\ \A x \in m : m \ {x} \in SUBSET S /\ m \ {x} \notin Bad
    <3> HIDE DEF Bad
    <3> QED BY <2>1, LeastBad
  <2>3. PICK x \in m : TRUE BY <2>2
  <2>4. sum(m) = f[x] + sum(m \ {x}) BY <1>1, <2>2, <2>3
  <2>5. sum(m \ {x}) \in Nat /\ f[x] \in Nat BY <2>2, <2>3
  <2> QED BY <2>4, <2>5
<1>3. \A s \in SUBSET S : sum(s) \in Nat BY <1>2
<1>4. ASSUME NEW x \in T PROVE f[x] <= sum(T)
  <2>1. sum(T) = f[x] + sum(T \ {x}) /\ f[x] \in Nat BY <1>1
  <2>2. sum(T \ {x}) \in Nat BY <1>3
  <2> QED BY <2>1, <2>2
<1> QED BY <1>3, <1>4 DEF sum

(* ... and sums of parts that are close are close.                          *)
LEMMA SumsAreClose ==
  ASSUME NEW S, IsFiniteSet(S), NEW f \in [S -> Int], NEW h \in [S -> Int],
         NEW a \in Int, NEW b \in Int, NEW d \in Nat, NEW T \in SUBSET S,
         \A x \in T : a * f[x] - b * h[x] <= d /\ b * h[x] - a * f[x] <= d
  PROVE  /\ a * SumFunctionOnSet(f, T) - b * SumFunctionOnSet(h, T) <= Cardinality(T) * d
         /\ b * SumFunctionOnSet(h, T) - a * SumFunctionOnSet(f, T) <= Cardinality(T) * d
<1> DEFINE F(s) == SumFunctionOnSet(f, s)
           H(s) == SumFunctionOnSet(h, s)
           near(s) == /\ a * F(s) - b * H(s) <= Cardinality(s) * d
                      /\ b * H(s) - a * F(s) <= Cardinality(s) * d
           Bad == {s \in SUBSET T : ~near(s)}
<1>1. IsFiniteSet(T) BY FS_Subset
<1>2. /\ F({}) = 0 /\ H({}) = 0
      /\ \A s \in SUBSET S : F(s) \in Int /\ H(s) \in Int
      /\ \A s \in SUBSET S : \A x \in s : F(s) = f[x] + F(s \ {x}) /\ H(s) = h[x] + H(s \ {x})
  BY SumOnSet
<1> HIDE DEF F, H
<1>3. Bad = {}
  <2> SUFFICES ASSUME Bad # {} PROVE FALSE OBVIOUS
  <2>1. {} \notin Bad /\ Bad \subseteq SUBSET T
    <3>1. Cardinality({}) = 0 BY FS_EmptySet
    <3>2. near({}) BY <1>2, <3>1
    <3> QED BY <3>2
  <2>2. PICK m \in Bad : /\ m \in SUBSET T /\ m # {}
                         /\ \A x \in m : m \ {x} \in SUBSET T /\ m \ {x} \notin Bad
    <3> HIDE DEF Bad
    <3> QED BY <1>1, <2>1, LeastBad
  <2>3. PICK x \in m : TRUE BY <2>2
  <2> DEFINE t == m \ {x}
             c == Cardinality(t)
  <2>4. near(t) BY <2>2, <2>3
  <2>5. IsFiniteSet(m) BY <1>1, <2>2, FS_Subset
  <2>6. Cardinality(m) = c + 1 /\ c \in Nat
    <3>1. Cardinality(t) = Cardinality(m) - 1 /\ IsFiniteSet(t) BY <2>5, <2>3, FS_RemoveElement
    <3>2. Cardinality(m) \in Nat /\ Cardinality(t) \in Nat BY <2>5, <3>1, FS_CardinalityType
    <3> QED BY <3>1, <3>2
  <2>7. F(m) = f[x] + F(t) /\ H(m) = h[x] + H(t) BY <1>2, <2>2, <2>3
  <2>8. F(t) \in Int /\ H(t) \in Int /\ f[x] \in Int /\ h[x] \in Int BY <1>2, <2>2, <2>3
  <2>9. a * F(m) = a * f[x] + a * F(t) /\ b * H(m) = b * h[x] + b * H(t)
    BY <2>7, <2>8
  <2>10. Cardinality(m) * d = c * d + d BY <2>6
  <2>11. a * f[x] - b * h[x] <= d /\ b * h[x] - a * f[x] <= d BY <2>2, <2>3
  <2>12. a * F(t) - b * H(t) <= c * d /\ b * H(t) - a * F(t) <= c * d BY <2>4
  <2>13. /\ a * f[x] \in Int /\ b * h[x] \in Int /\ a * F(t) \in Int /\ b * H(t) \in Int
         /\ c * d \in Int
    BY <2>6, <2>8
  <2>14. near(m) BY <2>9, <2>10, <2>11, <2>12, <2>13
  <2> QED BY <2>14
<1>4. near(T) BY <1>3
<1> QED BY <1>4 DEF F, H
=============================================================================
