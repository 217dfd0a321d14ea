----------------------------- MODULE FiniteSums -----------------------------
(***************************************************************************)
(* Facts about SumFunctionOnSet(f, S) for a finite set S: its value does   *)
(* not depend on the order the module Folds takes the elements in.         *)
(*                                                                         *)
(* The induction theorems of the library take an operator, which the       *)
(* provers cannot instantiate; each proof below takes instead a minimal    *)
(* counterexample among the subsets of S (FS_StrictSubsetOrdering-         *)
(* WellFounded).                                                           *)
(***************************************************************************)
EXTENDS Integers, Functions, FiniteSetTheorems, WellFoundedInduction, TLAPS

(* The element the sum takes first, and what it leaves *)
First(A) == CHOOSE x \in A : TRUE
Rest(A) == A \ {First(A)}

(* g is the table the sum over A is read from. *)
SumUp(f, g, A) ==
    g = [B \in SUBSET A |-> IF B = {} THEN 0 ELSE f[First(B)] + g[Rest(B)]]

LEMMA MinimalSubset ==
    ASSUME NEW S, IsFiniteSet(S), NEW T, T \subseteq SUBSET S, T # {}
    PROVE  \E A \in T : \A B \in T : B \subseteq A => B = A
<1>1. IsWellFoundedOn(StrictSubsetOrdering(S), SUBSET S)
  BY FS_StrictSubsetOrderingWellFounded, FS_FiniteSubsetsOfFinite
<1>2. PICK A \in T : \A B \in T : ~ (<<B, A>> \in StrictSubsetOrdering(S))
  BY <1>1, WFMin
<1>3. \A B \in T : B \subseteq A => B = A
  BY <1>2 DEF StrictSubsetOrdering
<1> QED  BY <1>3

LEMMA SumDef ==
    ASSUME NEW f, NEW S
    PROVE  SumFunctionOnSet(f, S) = (CHOOSE g : SumUp(f, g, S))[S]
BY DEF SumFunctionOnSet, FoldFunctionOnSet, MapThenFoldSet, SumUp, Rest, First

LEMMA FirstIn == ASSUME NEW A, A # {} PROVE First(A) \in A /\ Rest(A) \subseteq A /\ Rest(A) # A
BY DEF First, Rest

LEMMA SumUpAt ==
    ASSUME NEW f, NEW g, NEW A, SumUp(f, g, A), NEW B \in SUBSET A
    PROVE  g[B] = IF B = {} THEN 0 ELSE f[First(B)] + g[Rest(B)]
<1>1. g = [C \in SUBSET A |-> IF C = {} THEN 0 ELSE f[First(C)] + g[Rest(C)]]
  BY DEF SumUp
<1> QED  BY <1>1

(* Two tables agree where both are defined. *)
LEMMA SumUpUnique ==
    ASSUME NEW f, NEW S, IsFiniteSet(S), NEW A \in SUBSET S, NEW B \in SUBSET S,
           NEW g, NEW h, SumUp(f, g, A), SumUp(f, h, B), NEW C, C \subseteq A, C \subseteq B
    PROVE  g[C] = h[C]
<1> DEFINE T == {D \in SUBSET S : D \subseteq A /\ D \subseteq B /\ g[D] # h[D]}
<1> SUFFICES ASSUME g[C] # h[C] PROVE FALSE
  OBVIOUS
<1>1. T # {}
  <2>1. C \in T
    OBVIOUS
  <2> HIDE DEF T
  <2> QED  BY <2>1
<1>2. PICK D \in T : \A E \in T : E \subseteq D => E = D
  <2>1. T \subseteq SUBSET S
    OBVIOUS
  <2> HIDE DEF T
  <2> QED  BY <1>1, <2>1, MinimalSubset
<1>3. g[D] = (IF D = {} THEN 0 ELSE f[First(D)] + g[Rest(D)])
  BY SumUpAt
<1>4. h[D] = (IF D = {} THEN 0 ELSE f[First(D)] + h[Rest(D)])
  BY SumUpAt
<1>5. D # {}
  BY <1>3, <1>4
<1>6. Rest(D) \subseteq D /\ Rest(D) # D
  BY <1>5, FirstIn
<1>7. Rest(D) \notin T
  BY <1>2, <1>6
<1>8. g[Rest(D)] = h[Rest(D)]
  BY <1>6, <1>7
<1> QED  BY <1>3, <1>4, <1>5, <1>8

LEMMA SumUpExists ==
    ASSUME NEW f, NEW S, IsFiniteSet(S)
    PROVE  \E g : SumUp(f, g, S)
<1> DEFINE T == {A \in SUBSET S : ~ \E g : SumUp(f, g, A)}
<1> SUFFICES ASSUME ~ \E g : SumUp(f, g, S) PROVE FALSE
  OBVIOUS
<1>1. T # {}
  <2>1. S \in T
    OBVIOUS
  <2> HIDE DEF T
  <2> QED  BY <2>1
<1>2. PICK A \in T : \A B \in T : B \subseteq A => B = A
  <2>1. T \subseteq SUBSET S
    OBVIOUS
  <2> HIDE DEF T
  <2> QED  BY <1>1, <2>1, MinimalSubset
<1>3. PICK G : G = [B \in SUBSET S |-> CHOOSE g : SumUp(f, g, B)]
  OBVIOUS
<1>4. \A B \in SUBSET A : B # A => SumUp(f, G[B], B)
  <2> SUFFICES ASSUME NEW B \in SUBSET A, B # A PROVE SumUp(f, G[B], B)
    OBVIOUS
  <2>1. \E g : SumUp(f, g, B)
    BY <1>2
  <2>2. SumUp(f, CHOOSE g : SumUp(f, g, B), B)
    BY <2>1
  <2> QED  BY <1>3, <2>2
<1>5. PICK H : H = [B \in SUBSET A |-> IF B = {} THEN 0 ELSE f[First(B)] + G[Rest(B)][Rest(B)]]
  OBVIOUS
<1>6. \A B \in SUBSET A : B # A => H[B] = G[B][B]
  <2> SUFFICES ASSUME NEW B \in SUBSET A, B # A PROVE H[B] = G[B][B]
    OBVIOUS
  <2>1. SumUp(f, G[B], B)
    BY <1>4
  <2>2. G[B][B] = IF B = {} THEN 0 ELSE f[First(B)] + G[B][Rest(B)]
    BY <2>1, SumUpAt
  <2>3. H[B] = IF B = {} THEN 0 ELSE f[First(B)] + G[Rest(B)][Rest(B)]
    BY <1>5
  <2>4. B # {} => G[B][Rest(B)] = G[Rest(B)][Rest(B)]
    <3> SUFFICES ASSUME B # {} PROVE G[B][Rest(B)] = G[Rest(B)][Rest(B)]
      OBVIOUS
    <3>1. Rest(B) \subseteq B /\ Rest(B) # B
      BY FirstIn
    <3>2. SumUp(f, G[Rest(B)], Rest(B))
      BY <1>4, <3>1
    <3> QED  BY <2>1, <3>1, <3>2, SumUpUnique
  <2> QED  BY <2>2, <2>3, <2>4
<1>7. \A B \in SUBSET A : B # {} => H[Rest(B)] = G[Rest(B)][Rest(B)]
  <2> SUFFICES ASSUME NEW B \in SUBSET A, B # {} PROVE H[Rest(B)] = G[Rest(B)][Rest(B)]
    OBVIOUS
  <2>1. Rest(B) \subseteq B /\ Rest(B) # B
    BY FirstIn
  <2> QED  BY <1>6, <2>1
<1>8. SumUp(f, H, A)
  <2>1. \A B \in SUBSET A : H[B] = IF B = {} THEN 0 ELSE f[First(B)] + H[Rest(B)]
    BY <1>5, <1>7
  <2>2. H = [B \in SUBSET A |-> H[B]]
    BY <1>5
  <2>3. [B \in SUBSET A |-> H[B]]
          = [B \in SUBSET A |-> IF B = {} THEN 0 ELSE f[First(B)] + H[Rest(B)]]
    BY <2>1
  <2> QED  BY <2>2, <2>3 DEF SumUp
<1> QED  BY <1>2, <1>8

(* The sum takes one element and then the others. *)
LEMMA SumStep ==
    ASSUME NEW f, NEW S, IsFiniteSet(S)
    PROVE  SumFunctionOnSet(f, S) =
             IF S = {} THEN 0 ELSE f[First(S)] + SumFunctionOnSet(f, Rest(S))
<1> DEFINE G(A) == CHOOSE g : SumUp(f, g, A)
<1>1. SumUp(f, G(S), S)
  BY SumUpExists
<1>2. SumFunctionOnSet(f, S) = IF S = {} THEN 0 ELSE f[First(S)] + G(S)[Rest(S)]
  BY <1>1, SumDef, SumUpAt
<1>3. ASSUME S # {} PROVE G(S)[Rest(S)] = SumFunctionOnSet(f, Rest(S))
  <2>1. Rest(S) \subseteq S
    BY <1>3, FirstIn
  <2>2. IsFiniteSet(Rest(S))
    BY <2>1, FS_Subset
  <2>3. SumUp(f, G(Rest(S)), Rest(S))
    BY <2>2, SumUpExists
  <2>4. G(S)[Rest(S)] = G(Rest(S))[Rest(S)]
    BY <1>1, <2>1, <2>3, SumUpUnique
  <2> QED  BY <2>4, SumDef
<1> QED  BY <1>2, <1>3

LEMMA SumType ==
    ASSUME NEW S, IsFiniteSet(S), NEW f, \A x \in S : f[x] \in Int
    PROVE  SumFunctionOnSet(f, S) \in Int
<1> DEFINE T == {A \in SUBSET S : SumFunctionOnSet(f, A) \notin Int}
<1> SUFFICES ASSUME SumFunctionOnSet(f, S) \notin Int PROVE FALSE
  OBVIOUS
<1>1. T # {}
  <2>1. S \in T
    OBVIOUS
  <2> HIDE DEF T
  <2> QED  BY <2>1
<1>2. PICK A \in T : \A B \in T : B \subseteq A => B = A
  <2>1. T \subseteq SUBSET S
    OBVIOUS
  <2> HIDE DEF T
  <2> QED  BY <1>1, <2>1, MinimalSubset
<1>3. IsFiniteSet(A)
  BY FS_Subset
<1>4. SumFunctionOnSet(f, A) = IF A = {} THEN 0 ELSE f[First(A)] + SumFunctionOnSet(f, Rest(A))
  BY <1>3, SumStep
<1>5. A # {}
  BY <1>4
<1>6. First(A) \in A /\ Rest(A) \subseteq A /\ Rest(A) # A
  BY <1>5, FirstIn
<1>7. SumFunctionOnSet(f, Rest(A)) \in Int
  BY <1>2, <1>6
<1> QED  BY <1>4, <1>5, <1>6, <1>7

(* Any element may be taken first. *)
LEMMA SumRemove ==
    ASSUME NEW S, IsFiniteSet(S), NEW f, \A x \in S : f[x] \in Int, NEW x \in S
    PROVE  SumFunctionOnSet(f, S) = f[x] + SumFunctionOnSet(f, S \ {x})
<1> DEFINE T == {A \in SUBSET S : \E y \in A :
                   SumFunctionOnSet(f, A) # f[y] + SumFunctionOnSet(f, A \ {y})}
<1> SUFFICES ASSUME SumFunctionOnSet(f, S) # f[x] + SumFunctionOnSet(f, S \ {x}) PROVE FALSE
  OBVIOUS
<1>1. T # {}
  <2>1. S \in T
    OBVIOUS
  <2> HIDE DEF T
  <2> QED  BY <2>1
<1>2. PICK A \in T : \A B \in T : B \subseteq A => B = A
  <2>1. T \subseteq SUBSET S
    OBVIOUS
  <2> HIDE DEF T
  <2> QED  BY <1>1, <2>1, MinimalSubset
<1>3. PICK y \in A : SumFunctionOnSet(f, A) # f[y] + SumFunctionOnSet(f, A \ {y})
  OBVIOUS
<1>4. PICK z : z = First(A)
  OBVIOUS
<1>5. z \in A /\ Rest(A) = A \ {z}
  BY <1>3, <1>4, FirstIn DEF Rest
<1>6. \A B \in SUBSET S : IsFiniteSet(B) /\ SumFunctionOnSet(f, B) \in Int
  <2> SUFFICES ASSUME NEW B \in SUBSET S PROVE IsFiniteSet(B) /\ SumFunctionOnSet(f, B) \in Int
    OBVIOUS
  <2>1. IsFiniteSet(B)
    BY FS_Subset
  <2> QED  BY <2>1, SumType
<1>7. SumFunctionOnSet(f, A) = f[z] + SumFunctionOnSet(f, A \ {z})
  BY <1>3, <1>4, <1>5, <1>6, SumStep
<1>8. y # z
  BY <1>3, <1>7
<1>9. \A B \in SUBSET S : B \subseteq A /\ B # A =>
          \A v \in B : SumFunctionOnSet(f, B) = f[v] + SumFunctionOnSet(f, B \ {v})
  BY <1>2
<1>10. SumFunctionOnSet(f, A \ {z}) = f[y] + SumFunctionOnSet(f, (A \ {z}) \ {y})
  BY <1>5, <1>8, <1>9
<1>11. SumFunctionOnSet(f, A \ {y}) = f[z] + SumFunctionOnSet(f, (A \ {y}) \ {z})
  BY <1>3, <1>5, <1>8, <1>9
<1>12. (A \ {z}) \ {y} = (A \ {y}) \ {z}
  OBVIOUS
<1>13. SumFunctionOnSet(f, (A \ {y}) \ {z}) \in Int
  BY <1>6
<1>14. f[y] \in Int /\ f[z] \in Int
  BY <1>3, <1>5
<1>15. SumFunctionOnSet(f, A) = f[y] + SumFunctionOnSet(f, A \ {y})
  <2>1. PICK r : r = SumFunctionOnSet(f, (A \ {y}) \ {z})
    OBVIOUS
  <2>2. r \in Int
    BY <1>13, <2>1
  <2>3. SumFunctionOnSet(f, A \ {z}) = f[y] + r
    BY <1>10, <1>12, <2>1, Zenon
  <2>4. SumFunctionOnSet(f, A \ {y}) = f[z] + r
    BY <1>11, <2>1, Zenon
  <2>5. SumFunctionOnSet(f, A) = f[z] + (f[y] + r)
    BY <1>7, <2>3, Zenon
  <2> QED  BY <1>14, <2>2, <2>4, <2>5
<1> QED  BY <1>3, <1>15

LEMMA SumSame ==
    ASSUME NEW S, IsFiniteSet(S), NEW f, NEW g, \A x \in S : f[x] = g[x]
    PROVE  SumFunctionOnSet(f, S) = SumFunctionOnSet(g, S)
<1> DEFINE T == {A \in SUBSET S : SumFunctionOnSet(f, A) # SumFunctionOnSet(g, A)}
<1> SUFFICES ASSUME SumFunctionOnSet(f, S) # SumFunctionOnSet(g, S) PROVE FALSE
  OBVIOUS
<1>1. T # {}
  <2>1. S \in T
    OBVIOUS
  <2> HIDE DEF T
  <2> QED  BY <2>1
<1>2. PICK A \in T : \A B \in T : B \subseteq A => B = A
  <2>1. T \subseteq SUBSET S
    OBVIOUS
  <2> HIDE DEF T
  <2> QED  BY <1>1, <2>1, MinimalSubset
<1>3. IsFiniteSet(A)
  BY FS_Subset
<1>4. SumFunctionOnSet(f, A) = IF A = {} THEN 0 ELSE f[First(A)] + SumFunctionOnSet(f, Rest(A))
  BY <1>3, SumStep
<1>5. SumFunctionOnSet(g, A) = IF A = {} THEN 0 ELSE g[First(A)] + SumFunctionOnSet(g, Rest(A))
  BY <1>3, SumStep
<1>6. A # {}
  BY <1>4, <1>5
<1>7. First(A) \in A /\ Rest(A) \subseteq A /\ Rest(A) # A
  BY <1>6, FirstIn
<1>8. SumFunctionOnSet(f, Rest(A)) = SumFunctionOnSet(g, Rest(A))
  BY <1>2, <1>7
<1> QED  BY <1>4, <1>5, <1>7, <1>8

(* One value changes: the sum changes by as much. *)
LEMMA SumChange ==
    ASSUME NEW S, IsFiniteSet(S), NEW f, NEW g, NEW x \in S,
           \A y \in S : f[y] \in Int, \A y \in S : g[y] \in Int,
           \A y \in S : y # x => g[y] = f[y]
    PROVE  SumFunctionOnSet(g, S) = SumFunctionOnSet(f, S) + g[x] - f[x]
<1>1. SumFunctionOnSet(f, S) = f[x] + SumFunctionOnSet(f, S \ {x})
  BY SumRemove
<1>2. SumFunctionOnSet(g, S) = g[x] + SumFunctionOnSet(g, S \ {x})
  BY SumRemove
<1>3. IsFiniteSet(S \ {x})
  BY FS_RemoveElement
<1>4. SumFunctionOnSet(f, S \ {x}) = SumFunctionOnSet(g, S \ {x})
  BY <1>3, SumSame
<1>5. SumFunctionOnSet(f, S \ {x}) \in Int
  BY <1>3, SumType
<1> QED  BY <1>1, <1>2, <1>4, <1>5

LEMMA SumZero ==
    ASSUME NEW S, IsFiniteSet(S), NEW f, \A x \in S : f[x] = 0
    PROVE  SumFunctionOnSet(f, S) = 0
<1> DEFINE T == {A \in SUBSET S : SumFunctionOnSet(f, A) # 0}
<1> SUFFICES ASSUME SumFunctionOnSet(f, S) # 0 PROVE FALSE
  OBVIOUS
<1>1. T # {}
  <2>1. S \in T
    OBVIOUS
  <2> HIDE DEF T
  <2> QED  BY <2>1
<1>2. PICK A \in T : \A B \in T : B \subseteq A => B = A
  <2>1. T \subseteq SUBSET S
    OBVIOUS
  <2> HIDE DEF T
  <2> QED  BY <1>1, <2>1, MinimalSubset
<1>3. IsFiniteSet(A)
  BY FS_Subset
<1>4. SumFunctionOnSet(f, A) = IF A = {} THEN 0 ELSE f[First(A)] + SumFunctionOnSet(f, Rest(A))
  BY <1>3, SumStep
<1>5. A # {}
  BY <1>4
<1>6. First(A) \in A /\ Rest(A) \subseteq A /\ Rest(A) # A
  BY <1>5, FirstIn
<1> QED  BY <1>2, <1>4, <1>5, <1>6

LEMMA SumNat ==
    ASSUME NEW S, IsFiniteSet(S), NEW f, \A x \in S : f[x] \in Nat
    PROVE  SumFunctionOnSet(f, S) \in Nat
<1> DEFINE T == {A \in SUBSET S : SumFunctionOnSet(f, A) \notin Nat}
<1> SUFFICES ASSUME SumFunctionOnSet(f, S) \notin Nat PROVE FALSE
  OBVIOUS
<1>1. T # {}
  <2>1. S \in T
    OBVIOUS
  <2> HIDE DEF T
  <2> QED  BY <2>1
<1>2. PICK A \in T : \A B \in T : B \subseteq A => B = A
  <2>1. T \subseteq SUBSET S
    OBVIOUS
  <2> HIDE DEF T
  <2> QED  BY <1>1, <2>1, MinimalSubset
<1>3. IsFiniteSet(A)
  BY FS_Subset
<1>4. SumFunctionOnSet(f, A) = IF A = {} THEN 0 ELSE f[First(A)] + SumFunctionOnSet(f, Rest(A))
  BY <1>3, SumStep
<1>5. A # {}
  BY <1>4
<1>6. First(A) \in A /\ Rest(A) \subseteq A /\ Rest(A) # A
  BY <1>5, FirstIn
<1> QED  BY <1>2, <1>4, <1>5, <1>6

(* A value is at most the sum. *)
LEMMA SumBounds ==
    ASSUME NEW S, IsFiniteSet(S), NEW f, \A x \in S : f[x] \in Nat, NEW x \in S
    PROVE  f[x] <= SumFunctionOnSet(f, S)
<1>1. SumFunctionOnSet(f, S) = f[x] + SumFunctionOnSet(f, S \ {x})
  BY SumRemove
<1>2. IsFiniteSet(S \ {x})
  BY FS_RemoveElement
<1>3. SumFunctionOnSet(f, S \ {x}) \in Nat
  BY <1>2, SumNat
<1> QED  BY <1>1, <1>3
=============================================================================
